----------------------------- MODULE AuthSessions -----------------------------
(***************************************************************************)
(* The login sessions of one user of the api-server: the row of the user   *)
(* and its rows of auth_sessions, written by logins, refreshes, logouts,   *)
(* changes of the password and the operators who edit users.  Each query   *)
(* is a step, no two of them are in a transaction, and the errors of some  *)
(* are ignored.                                                            *)
(*                                                                         *)
(* A token says who it is for and when it was issued, in seconds: two      *)
(* sessions begun within one second have the same access token and the     *)
(* same refresh token, and no index keeps them apart.  Names, the role,    *)
(* and a second that passes between the two signatures are left out.       *)
(*                                                                         *)
(* A row whose is_active is taken away never gets it back, and every query *)
(* asks for it: such a row is as good as deleted, and here it is.          *)
(***************************************************************************)
EXTENDS Naturals

CONSTANTS Callers,        \* requests being served
          Sessions,       \* bound: the rows there is room for
          MaxChanges,     \* bound on logins, new passwords and edits by operators
          MaxTime         \* bound on the clock

ASSUME ChangesNat == MaxChanges \in Nat
ASSUME TimeNat    == MaxTime \in Nat

VARIABLES account,        \* the row of the user
          session,        \* the rows of auth_sessions
          call,           \* what each request runs next, and for which session
          now,            \* the clock
          logins, passwords, edits,   \* how many so far
          spent,          \* history: passwords replaced before all sessions were ended
          standing,       \* history: logins answered and not ended since
          mixed           \* history: logins with a token, or two requests, in common

sessionTables == <<account, session>>
sessionCounts == <<now, logins, passwords, edits>>
sessionMarks  == <<spent, standing, mixed>>
sessionVars   == <<sessionTables, call, sessionCounts, sessionMarks>>

Logins    == 1..MaxChanges
Passwords == 0..MaxChanges   \* each change makes a new one
Times     == 0..MaxTime

NoAccount == [password |-> 0, is_active |-> FALSE, deleted |-> TRUE]
Accounts  == [password : Passwords, is_active : BOOLEAN, deleted : BOOLEAN]

(* The login a session comes from, by however many refreshes, and its       *)
(* password; overtaken: a request for it went on while all were ended.      *)
Grants == [login : Logins, token : Times, password : Passwords, overtaken : BOOLEAN]

NoSession   == [due |-> TRUE]
SessionRows == [of : Grants, due : BOOLEAN]

Free == [at |-> "free"]
UsesToken == {"refresh", "retire", "logoutUser", "logout"}
Issues    == {"issue", "create"}
Calls ==
  {Free}
  \cup [at : UsesToken \cup Issues, of : Grants]
  \cup [at : {"changeUser", "check", "change", "endAll"}]
  \cup [at : {"save", "reinsert"}, row : Accounts]

SessionsTypeOK ==
  /\ account \in Accounts
  /\ session \in [Sessions -> SessionRows \cup {NoSession}]
  /\ call \in [Callers -> Calls]
  /\ now \in Times
  /\ logins \in Nat /\ passwords \in Nat /\ edits \in Nat
  /\ logins + passwords + edits <= MaxChanges
  /\ spent \subseteq Passwords
  /\ standing \subseteq Logins
  /\ mixed \subseteq Logins

SessionsInit ==
  /\ account = NoAccount
  /\ session = [s \in Sessions |-> NoSession]
  /\ call = [c \in Callers |-> Free]
  /\ now = 0 /\ logins = 0 /\ passwords = 0 /\ edits = 0
  /\ spent = {} /\ standing = {} /\ mixed = {}

Does(c, stage) == call[c].at = stage
Answer(c)      == call' = [call EXCEPT ![c] = Free]
GoTo(c, stage) == call' = [call EXCEPT ![c].at = stage]

Bounded == logins + passwords + edits < MaxChanges

Active(s) == session[s] # NoSession

Registered == account # NoAccount /\ ~account.deleted

-----------------------------------------------------------------------------
(* Register, and CreateUser: the index on the name refuses a second one, even *)
(* of a user who was deleted.                                                 *)
Register ==
  /\ account = NoAccount
  /\ account' = [password |-> 0, is_active |-> TRUE, deleted |-> FALSE]
  /\ UNCHANGED <<session, call, sessionCounts, sessionMarks>>

(* GenerateToken is to make a session: it has no token yet. *)
Generate(c, g) == call' = [call EXCEPT ![c] = [at |-> "issue", of |-> [g EXCEPT !.token = 0]]]

(* Login finds the user and checks the password; last_login is not modelled. *)
Login(c) ==
  /\ Does(c, "free")
  /\ Bounded
  /\ Registered /\ account.is_active
  /\ logins' = logins + 1
  /\ Generate(c, [login |-> logins', token |-> now, password |-> account.password,
                  overtaken |-> FALSE])
  /\ UNCHANGED <<sessionTables, now, passwords, edits, sessionMarks>>

(* GenerateToken signs both tokens and deletes the sessions of the user that  *)
(* are not active ...                                                         *)
Issue(c) ==
  /\ Does(c, "issue")
  /\ call' = [call EXCEPT ![c].at = "create", ![c].of.token = now]
  /\ UNCHANGED <<sessionTables, sessionCounts, sessionMarks>>

(* The other logins with a session, or a request, that has the token *)
Sharing(g) ==
  {l \in Logins \ {g.login} :
     \/ \E s \in Sessions : Active(s) /\ session[s].of.login = l /\ session[s].of.token = g.token
     \/ \E c \in Callers :
          call[c].at \in UsesToken /\ call[c].of.login = l /\ call[c].of.token = g.token}

(* ... and inserts the new one. *)
CreateSession(c, s) ==
  LET g == call[c].of IN
  /\ Does(c, "create")
  /\ session[s] = NoSession
  /\ s = CHOOSE free \in Sessions : session[free] = NoSession   \* ids are alike
  /\ session' = [session EXCEPT ![s] = [of |-> g, due |-> FALSE]]
  /\ standing' = standing \cup {g.login}
  /\ mixed' = IF Sharing(g) = {} THEN mixed ELSE mixed \cup Sharing(g) \cup {g.login}
  /\ Answer(c)
  /\ UNCHANGED <<account, sessionCounts, spent>>

-----------------------------------------------------------------------------
(* The session a token was looked up for: active, and not past expires_at,    *)
(* which is that of the access token for either token.                        *)
Usable(s) == Active(s) /\ ~session[s].due

(* A request that presents the token of session s begins. *)
Present(c, s, stage) ==
  LET l == session[s].of.login IN
  /\ Does(c, "free")
  /\ Usable(s)
  /\ call' = [call EXCEPT ![c] = [at |-> stage, of |-> session[s].of]]
  /\ mixed' = IF \E d \in Callers : call[d].at \in UsesToken \cup Issues /\ call[d].of.login = l
                THEN mixed \cup {l} ELSE mixed
  /\ UNCHANGED <<sessionTables, sessionCounts, spent, standing>>

Refresh(c, s) == Present(c, s, "refresh")

(* The user is read, and must not have been deleted. *)
FindUser(c, stage, next) ==
  /\ Does(c, stage)
  /\ IF Registered THEN GoTo(c, next) ELSE Answer(c)
  /\ UNCHANGED <<sessionTables, sessionCounts, sessionMarks>>

(* mutant: the sessions of the user are ended, whatever their token *)
EndedOfUser(token) == [s \in Sessions |-> NoSession]

(* The rows without those that have the token *)
Ended(token) ==
  [s \in Sessions |-> IF Active(s) /\ session[s].of.token = token THEN NoSession ELSE session[s]]

(* The old session is deactivated; if that fails the new one is made all the  *)
(* same.                                                                      *)
Retire(c) ==
  LET g == call[c].of IN
  /\ Does(c, "retire")
  /\ Generate(c, g)
  /\ standing' = standing \ {g.login}
  /\ \/ session' = Ended(g.token) /\ UNCHANGED mixed
     \/ mixed' = mixed \cup {g.login} /\ UNCHANGED session
  /\ UNCHANGED <<account, sessionCounts, spent>>

(* Logout, behind AuthMiddleware *)
Logout(c, s) == Present(c, s, "logoutUser")

InvalidateSession(c) ==
  LET g == call[c].of IN
  /\ Does(c, "logout")
  /\ session' = Ended(g.token)
  /\ standing' = standing \ {g.login}
  /\ Answer(c)
  /\ UNCHANGED <<account, sessionCounts, spent, mixed>>

-----------------------------------------------------------------------------
(* ChangePassword, behind AuthMiddleware *)
RequestChange(c, s) ==
  /\ Does(c, "free")
  /\ Usable(s)
  /\ call' = [call EXCEPT ![c] = [at |-> "changeUser"]]
  /\ UNCHANGED <<sessionTables, sessionCounts, sessionMarks>>

(* An UPDATE of one column, which passes over a user who was deleted *)
UpdatePassword(c) ==
  /\ Does(c, "change")
  /\ GoTo(c, "endAll")
  /\ IF account.deleted
       THEN UNCHANGED <<account, passwords, spent>>
       ELSE /\ Bounded
            /\ passwords' = passwords + 1
            /\ account' = [account EXCEPT !.password = passwords']
            /\ spent' = spent \ {passwords'}
  /\ UNCHANGED <<session, now, logins, edits, standing, mixed>>

(* The requests that go on for a session of a password that is spent *)
Overtake ==
  [c \in Callers |->
     IF call[c].at \in UsesToken \cup Issues /\ call[c].of.password \in spent'
       THEN [call[c] EXCEPT !.of.overtaken = TRUE] ELSE call[c]]

(* mutant: one session is kept, that of the caller *)
InvalidateOthers(c) ==
  /\ Does(c, "endAll")
  /\ \E own \in Sessions : session' = [s \in Sessions |-> IF s = own THEN session[s] ELSE NoSession]
  /\ spent' = spent \cup ((0..passwords) \ {account.password})
  /\ standing' = {}
  /\ call' = [Overtake EXCEPT ![c] = Free]
  /\ UNCHANGED <<account, sessionCounts, mixed>>

InvalidateAllUserSessions(c) ==
  /\ Does(c, "endAll")
  /\ session' = [s \in Sessions |-> NoSession]
  /\ spent' = spent \cup ((0..passwords) \ {account.password})
  /\ standing' = {}
  /\ call' = [Overtake EXCEPT ![c] = Free]
  /\ UNCHANGED <<account, sessionCounts, mixed>>

-----------------------------------------------------------------------------
(* UpdateUser sets the fields it is given in the row it has read ... *)
ReadUser(c, active) ==
  /\ Does(c, "free")
  /\ Registered
  /\ Bounded
  /\ edits' = edits + 1
  /\ call' = [call EXCEPT ![c] = [at |-> "save", row |-> [account EXCEPT !.is_active = active]]]
  /\ UNCHANGED <<sessionTables, now, logins, passwords, sessionMarks>>

(* ... and saves all of it, the password included: with an UPDATE, or with an *)
(* INSERT when a user who was deleted in between is not met.                  *)
SaveUser(c) ==
  LET row == call[c].row IN
  /\ \/ Does(c, "save") /\ ~account.deleted
     \/ Does(c, "reinsert")
  /\ account' = row
  /\ spent' = spent \ {row.password}
  /\ Answer(c)
  /\ UNCHANGED <<session, sessionCounts, standing, mixed>>

SaveMisses(c) ==
  /\ Does(c, "save")
  /\ account.deleted
  /\ GoTo(c, "reinsert")
  /\ UNCHANGED <<sessionTables, sessionCounts, sessionMarks>>

(* DeleteUser only marks the row; the sessions stay. *)
DeleteUser ==
  /\ account # NoAccount
  /\ account' = [account EXCEPT !.deleted = TRUE]
  /\ UNCHANGED <<session, call, sessionCounts, sessionMarks>>

-----------------------------------------------------------------------------
(* A query fails, the password is wrong, or the server is started again. *)
Fails(c) ==
  /\ ~Does(c, "free")
  /\ Answer(c)
  /\ UNCHANGED <<sessionTables, sessionCounts, sessionMarks>>

Ticks ==
  /\ now < MaxTime
  /\ now' = now + 1
  /\ UNCHANGED <<sessionTables, call, logins, passwords, edits, sessionMarks>>

(* expires_at, a quarter of an hour after the session began, comes to pass:  *)
(* which makes a difference to one that is active only.                      *)
FallsDue(s) ==
  /\ Usable(s)
  /\ session[s].of.token < now
  /\ session' = [session EXCEPT ![s].due = TRUE]
  /\ UNCHANGED <<account, call, sessionCounts, sessionMarks>>

Handle(c) ==
  \/ Login(c)
  \/ Issue(c)
  \/ \E s \in Sessions : CreateSession(c, s) \/ Refresh(c, s) \/ Logout(c, s) \/ RequestChange(c, s)
  \/ FindUser(c, "refresh", "retire")
  \/ FindUser(c, "logoutUser", "logout")
  \/ FindUser(c, "changeUser", "check")
  \/ FindUser(c, "check", "change")
  \/ Retire(c)
  \/ InvalidateSession(c)
  \/ UpdatePassword(c)
  \/ InvalidateAllUserSessions(c)
  \/ \E active \in BOOLEAN : ReadUser(c, active)
  \/ SaveUser(c)
  \/ SaveMisses(c)
  \/ Fails(c)

SessionsNext ==
  \/ Register
  \/ DeleteUser
  \/ Ticks
  \/ \E s \in Sessions : FallsDue(s)
  \/ \E c \in Callers : Handle(c)

SessionsSpec == SessionsInit /\ [][SessionsNext]_sessionVars

-----------------------------------------------------------------------------
(* auth.go:317 "Invalidate all sessions for this user": once that was done    *)
(* for a change of the password, no session is active that goes back to a     *)
(* login with another, but through requests that were overtaken by it.        *)
ChangeEndsSessions ==
  \A s \in Sessions :
    Active(s) /\ session[s].of.password \in spent => session[s].of.overtaken

OfLogin(l) == {s \in Sessions : Active(s) /\ session[s].of.login = l}

(* From its answer on a login has one session, however often it is refreshed, *)
(* and none once a request of its own has ended it: neither two, nor one less *)
(* because another login was ended.  Only logins that share a token, or of    *)
(* which two requests overlapped, can get each other's way.                   *)
OneSessionEach ==
  \A l \in Logins \ mixed :
    IF l \in standing THEN \E s \in Sessions : OfLogin(l) = {s} ELSE OfLogin(l) = {}
=============================================================================
