------------------------------ MODULE Accounts ------------------------------
(***************************************************************************)
(* Accounts and sessions (backend/src/http/account/mod.rs): requests run   *)
(* as concurrent Postgres transactions that share a connection pool.  A    *)
(* request is charged against a rate limit, begins a transaction, waits    *)
(* for the lock on its user's row, looks whether its session still exists, *)
(* and commits or rolls back.  Logging out takes no lock.                  *)
(*                                                                         *)
(* A request is served once, so whatever it creates - session, password,   *)
(* authenticator secret, recovery codes - carries its name.  The writes of *)
(* a transaction are one step with its commit, since the row lock keeps    *)
(* every other writer of that user out - but not its DELETEs of sessions.  *)
(* They reach sessions of other users and lock each row they meet until    *)
(* the commit, so they are steps of their own, a row at a time.  One tick  *)
(* of the clock is one TOTP step.                                          *)
(***************************************************************************)
EXTENDS Integers, FiniteSets

CONSTANTS
  Request,       \* requests to /v1/account
  User,          \* usernames
  OldToken,      \* sessions that exist in the beginning
  Earlier,       \* the origin of what exists in the beginning
  Connections,   \* the size of the pool
  MaxSessions,   \* sessions kept per user, 10 in the code
  CodeCount,     \* recovery codes per batch, 10 in the code
  MaxCharges,    \* attempts per user and window, 10 in the code
  ChargeWindow,  \* length of that window, 900 s
  VerifiedLife,  \* life of a session, 12 h
  HalfLife,      \* life of one that lacks the second factor, 300 s
  SetupLife,     \* how long an enrollment may take, 10 min
  MaxTime,       \* where the clock stops (model bound)
  None

Origin == Request \cup {Earlier}
Token == Request \cup OldToken
Code == Origin \X (1..CodeCount)
Sensitive == {"2fa-disable", "recovery-codes", "password", "sessions-revoke"}
Endpoint == Sensitive \cup {"register", "login", "verify", "2fa-start", "2fa-enable"}
Key == User \X {"login", "security"}
Transacting == {"waiting", "locked", "active"}

ASSUME AccountsAssumption ==
  /\ None \notin Origin \cup Token
  /\ Earlier \notin Request
  /\ Request \cap OldToken = {}
  /\ IsFiniteSet(Request) /\ IsFiniteSet(OldToken)
  /\ {Connections, MaxSessions, CodeCount, MaxCharges, ChargeWindow,
      VerifiedLife, HalfLife, SetupLife, MaxTime} \subseteq Nat \ {0}

VARIABLES
  account,   \* a user's row, with the recovery codes
  sessions,  \* table account_session
  lock,      \* the transaction that holds a user's row
  taken,     \* the transaction that has deleted, and so locks, a session's row
  rate,      \* table account_rate_limit, keys login:<user>, security:<user>
  req,       \* what a request is doing
  now,       \* the clock
  spent,     \* codes accepted by committed requests (history)
  admitted   \* the key and the window a request was charged to (history)

vars == <<account, sessions, lock, taken, rate, req, now, spent, admitted>>

(* What a session was authenticated with is history: its password and its  *)
(* secret, or those it put in place itself.                                *)
Session == [token : Token, user : User, verified : BOOLEAN, created : Nat,
            expires : Nat, password : Origin, secret : Origin \cup {None}]
Setup == [secret : Origin, until : Nat, session : Token]
Account == [password : Origin \cup {None}, secret : Origin \cup {None},
            last : Int, codes : SUBSET Code, setup : Setup \cup {None}]
(* row and session: what the transaction read when it got the lock.        *)
Work == [pc : {"new", "charged", "done", "refused"} \cup Transacting,
         endpoint : Endpoint \cup {None}, user : User \cup {None},
         token : Token \cup {None}, begun : Nat,
         row : Account \cup {None}, session : Session \cup {None}]
Idle == [pc |-> "new", endpoint |-> None, user |-> None, token |-> None,
         begun |-> 0, row |-> None, session |-> None]

TypeOK ==
  /\ account \in [User -> Account]
  /\ sessions \subseteq Session
  /\ lock \in [User -> Request \cup {None}]
  /\ taken \in [Token -> Request \cup {None}]
  /\ rate \in [Key -> [attempts : Nat, until : Nat]]
  /\ req \in [Request -> Work]
  /\ now \in Nat
  /\ admitted \in [Request -> (Key \X Nat) \cup {None}]
  /\ spent \subseteq [user : User, code : Origin \X Int \X {"step", "recovery"},
                   by : Request]
-----------------------------------------------------------------------------
(* Accounts as earlier requests may have left them.                        *)

Unregistered == [password |-> None, secret |-> None, last |-> -1,
                 codes |-> {}, setup |-> None]
PasswordOnly == [Unregistered EXCEPT !.password = Earlier]
TwoFactor == [PasswordOnly EXCEPT !.secret = Earlier, !.last = 0,
              !.codes = {Earlier} \X (1..CodeCount)]

OldSession(t, u, v, secret) ==
  [token |-> t, user |-> u, verified |-> v, created |-> 0,
   expires |-> IF v THEN VerifiedLife ELSE HalfLife,
   password |-> Earlier, secret |-> secret]

Init ==
  /\ account \in [User -> {Unregistered, PasswordOnly, TwoFactor}]
  /\ sessions \in SUBSET {OldSession(t, u, v, account[u].secret) :
                            t \in OldToken, u \in User, v \in BOOLEAN}
  /\ \A s \in sessions :
       /\ account[s.user].password # None
       /\ s.verified \/ account[s.user].secret # None
  /\ \A s, t \in sessions : s.token = t.token => s = t
  /\ \A u \in User : Cardinality({s \in sessions : s.user = u}) <= MaxSessions
  /\ lock = [u \in User |-> None]
  /\ taken = [t \in Token |-> None]
  /\ rate = [k \in Key |-> [attempts |-> 0, until |-> 0]]
  /\ req = [r \in Request |-> Idle]
  /\ now = 0
  /\ spent = {}
  /\ admitted = [r \in Request |-> None]
-----------------------------------------------------------------------------
(* Helpers                                                                 *)

Of(u, S) == {s \in S : s.user = u}
Alive(S, time) == {s \in S : s.expires > time}
Free == Connections - Cardinality({r \in Request : req[r].pc \in Transacting})

(* INSERT ... ON CONFLICT DO UPDATE: one statement, outside any            *)
(* transaction.                                                            *)
Charged(k) ==
  IF rate[k].until <= now
  THEN [attempts |-> 1, until |-> now + ChargeWindow]
  ELSE [rate[k] EXCEPT !.attempts = @ + 1]

(* Faulty: the oldest sessions are counted before the expired ones go, and *)
(* the new one is not counted.                                             *)
NewestTooMany(S) ==
  {K \in SUBSET S : Cardinality(K) <= MaxSessions /\ (K # S => Cardinality(K) = MaxSessions)}

(* The most recent sessions that leave room for a new one.                 *)
Newest(S) ==
  {K \in SUBSET S :
     /\ Cardinality(K) <= MaxSessions - 1
     /\ K # S => Cardinality(K) = MaxSessions - 1
     /\ \A kept \in K, dropped \in S \ K : dropped.created <= kept.created}

Surplus(S) == UNION {S \ kept : kept \in Newest(S)}

(* The sessions that r has not deleted, and those that the next of its     *)
(* DELETE statements is yet to delete: the one of its cookie, what had     *)
(* expired when the transaction began, and its user's own beyond the       *)
(* newest, in this order; or all of its user's but the one it acts for.    *)
Rest(r) == {s \in sessions : taken[s.token] # r}

Doomed(r) ==
  LET mine == Of(req[r].user, Rest(r))
      old == {s \in Rest(r) : s.token = req[r].token}
      expired == Rest(r) \ Alive(Rest(r), req[r].begun)
  IN CASE req[r].endpoint = "2fa-start" -> {}
       [] req[r].endpoint \in Sensitive \cup {"2fa-enable"} ->
            {s \in mine : s.token # req[r].token}
       [] OTHER -> IF old # {} THEN old
                   ELSE IF expired # {} THEN expired ELSE Surplus(mine)

(* created_at and expires_at count from the beginning of the transaction.  *)
NewSession(r, verified, password, secret) ==
  /\ Doomed(r) = {}
  /\ sessions' = Rest(r) \cup
       {[token |-> r, user |-> req[r].user, verified |-> verified,
         created |-> req[r].begun,
         expires |-> req[r].begun + (IF verified THEN VerifiedLife ELSE HalfLife),
         password |-> password, secret |-> secret]}

(* Only the session that made the change is left to its user.              *)
RevokeOthers(r, password, secret) ==
  /\ Doomed(r) = {}
  /\ sessions' = {IF s.user = req[r].user
                  THEN [s EXCEPT !.password = password, !.secret = secret]
                  ELSE s : s \in Rest(r)}

(* The steps of a secret that matching_step accepts now.                   *)
Matching(last) == {k \in (now - 1)..(now + 1) : k >= 0 /\ k > last}

(* The ways the second factor can be met: the row afterwards and the codes *)
(* that were used up.  None is asked for without an authenticator.         *)
Factors(row) ==
  IF row.secret = None THEN {[row |-> row, used |-> {}]}
  ELSE {[row |-> [row EXCEPT !.last = k], used |-> {<<row.secret, k, "step">>}] :
          k \in Matching(row.last)}
       \cup {[row |-> [row EXCEPT !.codes = @ \ {c}],
              used |-> {<<c[1], c[2], "recovery">>}] : c \in row.codes}

Spend(r, used) ==
  spent' = spent \cup {[user |-> req[r].user, code |-> c, by |-> r] : c \in used}

Anonymous(r) == req[r].endpoint \in {"register", "login"}

(* An enrollment ends where it began.                                      *)
SetupValid(r) ==
  LET setup == req[r].row.setup IN
  /\ setup # None
  /\ setup.until > req[r].begun /\ setup.session = req[r].token

(* Leaves the transaction: its connection and its locks are free again.    *)
End(r, pc) ==
  /\ req' = [req EXCEPT ![r] = [Idle EXCEPT !.pc = pc]]
  /\ lock' = [u \in User |-> IF lock[u] = r THEN None ELSE lock[u]]
  /\ taken' = [t \in Token |-> IF taken[t] = r THEN None ELSE taken[t]]
-----------------------------------------------------------------------------
(* A request before its transaction                                        *)

(* Registration and login are charged to the username, everything else to  *)
(* the owner of the session; over the limit, the request is refused.       *)
Charge(r) ==
  /\ req[r].pc = "new" /\ Free > 0
  /\ \E e \in Endpoint, u \in User, t \in {s.token : s \in sessions} \cup {None} :
       LET login == e \in {"register", "login"}
           k == <<u, IF login THEN "login" ELSE "security">>
           over == Charged(k).attempts > MaxCharges
       IN /\ login \/ \E s \in Alive(Of(u, sessions), now) : s.token = t
          /\ e = "register" => t = None
          /\ rate' = [rate EXCEPT ![k] = Charged(k)]
          /\ req' = [req EXCEPT ![r] =
               IF over THEN [Idle EXCEPT !.pc = "refused"]
               ELSE [Idle EXCEPT !.pc = "charged", !.endpoint = e, !.user = u,
                                 !.token = t]]
          /\ admitted' = [admitted EXCEPT ![r] =
               IF over THEN None ELSE <<k, Charged(k).until>>]
  /\ UNCHANGED <<account, sessions, lock, taken, now, spent>>

(* pool.begin and the SELECT ... FOR UPDATE, whose join sees the session   *)
(* as it is now, however long the row lock will take.                      *)
Begin(r) ==
  /\ req[r].pc = "charged" /\ Free > 0
  /\ \/ /\ Anonymous(r)
        /\ req' = [req EXCEPT ![r] = [@ EXCEPT !.pc = "waiting", !.begun = now]]
     \/ /\ ~Anonymous(r)
        /\ \E s \in Alive(sessions, now) :
             /\ s.token = req[r].token
             /\ req' = [req EXCEPT ![r] = [@ EXCEPT
                  !.pc = "waiting", !.begun = now, !.session = s]]
  /\ UNCHANGED <<account, sessions, lock, taken, rate, now, spent, admitted>>

(* Faulty: the row is read without FOR UPDATE.                             *)
LockNothing(r) ==
  LET u == req[r].user IN
  /\ req[r].pc = "waiting"
  /\ (req[r].endpoint = "register") = (account[u].password = None)
  /\ req' = [req EXCEPT ![r] = [@ EXCEPT !.pc = "locked", !.row = account[u]]]
  /\ UNCHANGED <<account, sessions, lock, taken, rate, now, spent, admitted>>

(* Faulty: the attempt is charged, on a connection of its own, while the   *)
(* transaction is open.                                                    *)
LockCharging(r) ==
  LET u == req[r].user IN
  /\ req[r].pc = "waiting" /\ Free > 0
  /\ lock[u] = None
  /\ (req[r].endpoint = "register") = (account[u].password = None)
  /\ lock' = [lock EXCEPT ![u] = r]
  /\ req' = [req EXCEPT ![r] = [@ EXCEPT !.pc = "locked", !.row = account[u]]]
  /\ UNCHANGED <<account, sessions, taken, rate, now, spent, admitted>>

(* The user's row is locked and read as it is now.  For a registration the *)
(* lock stands for the entry in the unique index.                          *)
Lock(r) ==
  LET u == req[r].user IN
  /\ req[r].pc = "waiting"
  /\ lock[u] = None
  /\ (req[r].endpoint = "register") = (account[u].password = None)
  /\ lock' = [lock EXCEPT ![u] = r]
  /\ req' = [req EXCEPT ![r] = [@ EXCEPT !.pc = "locked", !.row = account[u]]]
  /\ UNCHANGED <<account, sessions, taken, rate, now, spent, admitted>>

(* Faulty: the session the join found before the wait is good enough.      *)
RecheckNothing(r) ==
  /\ req[r].pc = "locked"
  /\ req' = [req EXCEPT ![r].pc = "active"]
  /\ UNCHANGED <<account, sessions, lock, taken, rate, now, spent, admitted>>

(* Is the session still there, after the wait for the lock?  now() is the  *)
(* time the transaction began.                                             *)
Recheck(r) ==
  /\ req[r].pc = "locked"
  /\ \/ Anonymous(r) /\ req' = [req EXCEPT ![r].pc = "active"]
     \/ /\ ~Anonymous(r)
        /\ \E s \in Alive(sessions, req[r].begun) :
             /\ s.token = req[r].token
             /\ req' = [req EXCEPT ![r] = [@ EXCEPT !.pc = "active", !.session = s]]
  /\ UNCHANGED <<account, sessions, lock, taken, rate, now, spent, admitted>>

(* What the code refuses: a session that is gone, a name taken or unknown, *)
(* a session without, or already with, its second factor, an authenticator *)
(* that is already there, or missing, a set-up that expired, no code left. *)
Denied(r) ==
  LET w == req[r]
      gone(time) == ~Anonymous(r) /\ \A s \in Alive(sessions, time) : s.token # w.token
  IN \/ w.pc = "charged" /\ gone(now)
     \/ /\ w.pc = "waiting" /\ lock[w.user] = None
        /\ (w.endpoint = "register") # (account[w.user].password = None)
     \/ w.pc = "locked" /\ gone(w.begun)
     \/ /\ w.pc = "active" /\ ~Anonymous(r)
        /\ \/ w.session.verified = (w.endpoint = "verify")
           \/ w.endpoint = "verify" /\ w.row.secret = None
           \/ w.endpoint \in {"2fa-start", "2fa-enable"} /\ w.row.secret # None
           \/ w.endpoint = "2fa-enable" /\ ~SetupValid(r)
           \/ w.endpoint = "recovery-codes" /\ w.row.secret = None
           \/ w.endpoint \in Sensitive \cup {"verify"} /\ Factors(w.row) = {}

Deny(r) ==
  /\ Denied(r)
  /\ End(r, "refused")
  /\ UNCHANGED <<account, sessions, rate, now, spent, admitted>>

(* Faulty: the charge is part of the transaction, and the rollback takes   *)
(* it back.                                                                *)
RefuseRefunding(r) ==
  LET k == <<req[r].user, IF req[r].endpoint \in {"register", "login"}
                          THEN "login" ELSE "security">>
  IN /\ req[r].pc \in {"charged", "waiting", "locked", "active"}
     /\ End(r, "refused")
     /\ rate' = [rate EXCEPT ![k].attempts = IF @ > 0 THEN @ - 1 ELSE 0]
     /\ UNCHANGED <<account, sessions, now, spent, admitted>>
-----------------------------------------------------------------------------
(* The transactions.  The password, where one is asked for, matched the    *)
(* hash of the row read under the lock; Refuse is the case where not.      *)

(* Any other error ends the transaction with a rollback just so: a wrong   *)
(* password or code, no free slot for hashing, an unacceptable password, a *)
(* broken database connection, a client that hung up.                      *)
Refuse(r) ==
  /\ req[r].pc \in {"charged", "waiting", "locked", "active"}
  /\ End(r, "refused")
  /\ UNCHANGED <<account, sessions, rate, now, spent, admitted>>

(* One row of a DELETE, in whatever order the statement meets them; a row  *)
(* that another transaction has deleted is waited for.  What there was to  *)
(* check has been checked, and a rollback undoes it.                       *)
TakeSession(r) ==
  /\ req[r].pc = "active" /\ ~Denied(r)
  /\ \E s \in Doomed(r) :
       /\ taken[s.token] = None
       /\ taken' = [taken EXCEPT ![s.token] = r]
  /\ UNCHANGED <<account, sessions, lock, rate, req, now, spent, admitted>>

Register(r) ==
  /\ req[r].pc = "active" /\ req[r].endpoint = "register"
  /\ account' = [account EXCEPT ![req[r].user] = [Unregistered EXCEPT !.password = r]]
  /\ NewSession(r, TRUE, r, None)
  /\ End(r, "done")
  /\ UNCHANGED <<rate, now, spent, admitted>>

(* The session of the old cookie went, whoever it belonged to.             *)
Login(r) ==
  LET row == req[r].row IN
  /\ req[r].pc = "active" /\ req[r].endpoint = "login"
  /\ NewSession(r, row.secret = None, row.password, row.secret)
  /\ End(r, "done")
  /\ UNCHANGED <<account, rate, now, spent, admitted>>

(* The second factor turns a half-authenticated session into a full one.   *)
Verify(r) ==
  LET row == req[r].row
      old == req[r].session
  IN /\ req[r].pc = "active" /\ req[r].endpoint = "verify"
     /\ ~old.verified /\ row.secret # None
     /\ \E f \in Factors(row) :
          /\ account' = [account EXCEPT ![req[r].user] = f.row]
          /\ Spend(r, f.used)
     /\ NewSession(r, TRUE, old.password, row.secret)
     /\ End(r, "done")
     /\ UNCHANGED <<rate, now, admitted>>

StartSetup(r) ==
  LET row == req[r].row IN
  /\ req[r].pc = "active" /\ req[r].endpoint = "2fa-start"
  /\ req[r].session.verified /\ row.secret = None
  /\ account' = [account EXCEPT ![req[r].user] = [row EXCEPT
       !.setup = [secret |-> r, until |-> req[r].begun + SetupLife,
                  session |-> req[r].token]]]
  /\ End(r, "done")
  /\ UNCHANGED <<sessions, rate, now, spent, admitted>>

EnableSetup(r) ==
  LET row == req[r].row IN
  /\ req[r].pc = "active" /\ req[r].endpoint = "2fa-enable"
  /\ req[r].session.verified /\ row.secret = None
  /\ SetupValid(r)
  /\ \E k \in Matching(-1) :
       /\ account' = [account EXCEPT ![req[r].user] = [row EXCEPT
            !.secret = row.setup.secret, !.last = k, !.setup = None,
            !.codes = {r} \X (1..CodeCount)]]
       /\ Spend(r, {<<row.setup.secret, k, "step">>})
  /\ RevokeOthers(r, row.password, row.setup.secret)
  /\ End(r, "done")
  /\ UNCHANGED <<rate, now, admitted>>

(* 2fa-disable, recovery-codes, password and sessions-revoke: password and *)
(* second factor again, the change, and every other session goes.          *)
Changed(r, row) ==
  IF req[r].endpoint = "2fa-disable" THEN [Unregistered EXCEPT !.password = row.password]
  ELSE IF req[r].endpoint = "recovery-codes" THEN [row EXCEPT !.codes = {r} \X (1..CodeCount)]
  ELSE IF req[r].endpoint = "password" THEN [row EXCEPT !.password = r, !.setup = None]
  ELSE row

Change(r) ==
  /\ req[r].pc = "active" /\ req[r].endpoint \in Sensitive
  /\ req[r].session.verified
  /\ req[r].endpoint = "recovery-codes" => req[r].row.secret # None
  /\ \E f \in Factors(req[r].row) :
       LET row == Changed(r, f.row) IN
       /\ account' = [account EXCEPT ![req[r].user] = row]
       /\ Spend(r, f.used)
       /\ RevokeOthers(r, row.password, row.secret)
  /\ End(r, "done")
  /\ UNCHANGED <<rate, now, admitted>>

(* One statement, without a transaction around it.                         *)
Logout(s) ==
  /\ Free > 0
  /\ taken[s.token] = None
  /\ sessions' = sessions \ {s}
  /\ UNCHANGED <<account, lock, taken, rate, req, now, spent, admitted>>

Tick ==
  /\ now < MaxTime
  /\ now' = now + 1
  /\ UNCHANGED <<account, sessions, lock, taken, rate, req, spent, admitted>>

(* Whatever a request does on its own, a hang-up and the like apart.       *)
Serve(r) ==
  \/ Begin(r) \/ Lock(r) \/ Recheck(r) \/ Deny(r)
  \/ TakeSession(r) \/ Register(r) \/ Login(r) \/ Verify(r) \/ StartSetup(r) \/ EnableSetup(r)
  \/ Change(r)

Next ==
  \/ \E r \in Request : Charge(r) \/ Serve(r) \/ Refuse(r)
  \/ \E s \in sessions : Logout(s)
  \/ Tick

Spec == Init /\ [][Next]_vars
-----------------------------------------------------------------------------
(* Properties                                                              *)

(* A user never has more than MaxSessions sessions, however many logins    *)
(* and second factors are under way (mod.rs:298).                          *)
SessionsBounded == \A u \in User : Cardinality(Of(u, sessions)) <= MaxSessions

(* A session that exists was authenticated with the password of today, and *)
(* a full one with the authenticator of today, or put them in place: no    *)
(* request that was waiting brings a revoked session back (mod.rs:526).    *)
SessionsCurrent ==
  \A s \in sessions :
    /\ s.password = account[s.user].password
    /\ s.verified => s.secret = account[s.user].secret

(* A one-time code - the TOTP code of a step, or a recovery code - is good *)
(* for one request of its user (mod.rs:357, 368).                          *)
CodesOnce ==
  \A a, b \in spent : a.user = b.user /\ a.code = b.code => a.by = b.by

(* A window admits MaxCharges requests per key, whether they succeed, fail *)
(* or are rolled back (mod.rs:512).                                        *)
AttemptsBounded ==
  \A r \in Request : admitted[r] # None =>
    Cardinality({q \in Request : admitted[q] = admitted[r]}) <= MaxCharges

(* r is about to delete a session that q has deleted.                      *)
WaitsFor(r, q) ==
  req[r].pc = "active" /\ \E s \in Doomed(r) : taken[s.token] = q

Ring(D) == D # {} /\ \A r \in D : \E q \in D : WaitsFor(r, q)

(* Transactions that wait for users' rows and for connections never wait   *)
(* for each other in a circle, whatever the size of the pool (mod.rs:512). *)
(* If nobody can go on, there are transactions each of which is about to   *)
(* delete a session that another of them has deleted.  Those are row locks *)
(* alone, so Postgres sees the circle, ends one with an error (Refuse),    *)
(* and the others go on.                                                   *)
NoStandstill ==
  LET open == {r \in Request : req[r].pc \in Transacting} IN
  open # {} => (\E r \in open : ENABLED Serve(r)) \/ \E D \in SUBSET open : Ring(D)
=============================================================================
