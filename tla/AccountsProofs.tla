--------------------------- MODULE AccountsProofs ---------------------------
(***************************************************************************)
(* Proofs about Accounts, for any number of requests, users and sessions.  *)
(***************************************************************************)
EXTENDS Accounts, FiniteSetTheorems, TLAPS

Holding == {"locked", "active"}
Serving == {"charged"} \cup Transacting

(* A request that is served knows whose it is.                             *)
Addressed ==
  \A r \in Request : req[r].pc \in Serving =>
    /\ req[r].endpoint \in Endpoint
    /\ req[r].user \in User
    /\ ~Anonymous(r) => req[r].token \in Token

(* The row lock is exclusive, and what a transaction read of the row under *)
(* the lock is what the row is.                                            *)
Locking ==
  /\ \A u \in User : lock[u] # None =>
       req[lock[u]].pc \in Holding /\ req[lock[u]].user = u
  /\ \A r \in Request : req[r].pc \in Holding =>
       /\ lock[req[r].user] = r
       /\ req[r].row = account[req[r].user]
       /\ req[r].endpoint = "register" <=> account[req[r].user].password = None

(* The session a transaction acts for is its user's, of today's password.  *)
Snapshot ==
  \A r \in Request : req[r].pc = "active" /\ ~Anonymous(r) =>
    /\ req[r].session \in Session
    /\ req[r].session.user = req[r].user
    /\ req[r].session.password = account[req[r].user].password

(* Tokens of sessions are of the beginning or of requests that are done.   *)
Used(t) == t \in OldToken \/ (t \in Request /\ req[t].pc = "done")

Tokens ==
  /\ \A s \in sessions : Used(s.token)
  /\ \A s, t \in sessions : s.token = t.token => s.user = t.user
  /\ \A r \in Request : req[r].pc \in Serving =>
       /\ req[r].token # None => Used(req[r].token)
       /\ ~Anonymous(r) =>
            \A s \in sessions : s.token = req[r].token => s.user = req[r].user

Basic == TypeOK /\ Addressed /\ Locking

LEMMA NoneIsApart == None \notin Request /\ None \notin Origin /\ None \notin Token
BY AccountsAssumption DEF Origin, Token

LEMMA NumbersAreNat ==
  /\ Connections \in Nat /\ MaxSessions \in Nat \ {0} /\ CodeCount \in Nat
  /\ MaxCharges \in Nat \ {0} /\ ChargeWindow \in Nat \ {0}
  /\ VerifiedLife \in Nat /\ HalfLife \in Nat /\ SetupLife \in Nat
BY AccountsAssumption
-----------------------------------------------------------------------------
(* What the operators say                                                  *)

LEMMA SessionIsRecord ==
  ASSUME NEW s \in Session
  PROVE  /\ s.token \in Token /\ s.user \in User /\ s.verified \in BOOLEAN
         /\ s.created \in Nat /\ s.expires \in Nat /\ s.password \in Origin
         /\ s.secret \in Origin \cup {None}
BY DEF Session

(* A new session is added to those that were not deleted.                  *)
Added(r, verified, password, secret) ==
  \E new \in Session :
    /\ sessions' = Rest(r) \cup {new}
    /\ new.token = r /\ new.user = req[r].user
    /\ new.verified = verified /\ new.password = password
    /\ new.secret = secret

LEMMA NewSessionShape ==
  ASSUME TypeOK, NEW r \in Request, req[r].user \in User,
         NEW verified \in BOOLEAN, NEW password \in Origin,
         NEW secret \in Origin \cup {None},
         NewSession(r, verified, password, secret)
  PROVE  Added(r, verified, password, secret)
<1> DEFINE new == [token |-> r, user |-> req[r].user, verified |-> verified,
                   created |-> req[r].begun,
                   expires |-> req[r].begun + (IF verified THEN VerifiedLife ELSE HalfLife),
                   password |-> password, secret |-> secret]
<1>1. sessions' = Rest(r) \cup {new}
  BY DEF NewSession
<1>2. new \in Session
  <2>1. req[r].begun \in Nat
    BY DEF TypeOK, Work
  <2>2. r \in Token
    BY DEF Token
  <2> QED BY <2>1, <2>2, NumbersAreNat DEF Session
<1> QED BY <1>1, <1>2 DEF Added

LEMMA AddedIsTyped ==
  ASSUME TypeOK, NEW r, NEW verified, NEW password, NEW secret,
         Added(r, verified, password, secret)
  PROVE  sessions' \subseteq Session
BY DEF Added, Rest, TypeOK

(* Every session after a revocation is somebody else's, or the one that    *)
(* made the change with the new password and secret.                       *)
Revoked(r, password, secret) ==
  /\ sessions' \subseteq Session
  /\ \A s \in sessions' :
       \/ s \in sessions /\ s.user # req[r].user
       \/ /\ s.user = req[r].user /\ s.token = req[r].token
          /\ s.password = password /\ s.secret = secret
          /\ \E x \in sessions : /\ x.user = s.user /\ x.token = s.token
                                 /\ s = [x EXCEPT !.password = password,
                                                  !.secret = secret]

LEMMA RevokeShape ==
  ASSUME TypeOK, NEW r \in Request, NEW password \in Origin,
         NEW secret \in Origin \cup {None}, RevokeOthers(r, password, secret),
         req[r].endpoint \in Sensitive \cup {"2fa-enable"}
  PROVE  Revoked(r, password, secret)
<1> SUFFICES ASSUME NEW s \in sessions'
             PROVE  /\ s \in Session
                    /\ \/ s \in sessions /\ s.user # req[r].user
                       \/ /\ s.user = req[r].user /\ s.token = req[r].token
                          /\ s.password = password /\ s.secret = secret
                          /\ \E x \in sessions :
                               /\ x.user = s.user /\ x.token = s.token
                               /\ s = [x EXCEPT !.password = password, !.secret = secret]
  BY DEF Revoked
<1>1. PICK x \in Rest(r) :
        s = IF x.user = req[r].user
            THEN [x EXCEPT !.password = password, !.secret = secret] ELSE x
  BY DEF RevokeOthers
<1>2. x \in sessions /\ x \in Session
  BY DEF Rest, TypeOK
<1>3. CASE x.user # req[r].user
  BY <1>1, <1>2, <1>3
<1>4. CASE x.user = req[r].user
  <2>1. Doomed(r) = {s1 \in Of(req[r].user, Rest(r)) : s1.token # req[r].token}
    BY DEF Doomed, Sensitive
  <2>2. x.token = req[r].token
    BY <1>4, <2>1 DEF RevokeOthers, Of
  <2>3. s \in Session /\ s.user = x.user /\ s.token = x.token
        /\ s.password = password /\ s.secret = secret
    BY <1>1, <1>2, <1>4 DEF Session
  <2> QED BY <1>1, <1>2, <1>4, <2>2, <2>3
<1> QED BY <1>3, <1>4

(* What a second factor leaves of the row.                                 *)
LEMMA FactorShape ==
  ASSUME NEW row \in Account, NEW f \in Factors(row)
  PROVE  /\ f.row \in Account
         /\ f.row.password = row.password /\ f.row.secret = row.secret
         /\ f.row.setup = row.setup
         /\ \/ f.row = row /\ f.used = {} /\ row.secret = None
            \/ \E k \in Nat : /\ k > row.last /\ f.row.last = k /\ f.row.codes = row.codes
                              /\ row.secret # None
                              /\ f.used = {<<row.secret, k, "step">>}
            \/ \E c \in row.codes : /\ f.row.last = row.last
                                    /\ row.secret # None
                                    /\ f.row.codes = row.codes \ {c}
                                    /\ f.used = {<<c[1], c[2], "recovery">>}
<1>1. CASE row.secret = None
  BY <1>1 DEF Factors
<1>2. CASE row.secret # None
      /\ \E k \in Matching(row.last) :
           f = [row |-> [row EXCEPT !.last = k], used |-> {<<row.secret, k, "step">>}]
  <2>1. PICK k \in Matching(row.last) :
           f = [row |-> [row EXCEPT !.last = k], used |-> {<<row.secret, k, "step">>}]
    BY <1>2
  <2>2. k \in Int /\ k >= 0 /\ k > row.last
    BY DEF Matching
  <2>3. k \in Nat
    BY <2>2
  <2> QED BY <1>2, <2>1, <2>2, <2>3 DEF Account
<1>3. CASE row.secret # None
      /\ \E c \in row.codes :
           f = [row |-> [row EXCEPT !.codes = @ \ {c}],
                used |-> {<<c[1], c[2], "recovery">>}]
  BY <1>3 DEF Account
<1> QED BY <1>1, <1>2, <1>3 DEF Factors

-----------------------------------------------------------------------------
(* Leaving a transaction                                                   *)

LEMMA IdleIsWork ==
  ASSUME NEW pc \in {"done", "refused"}
  PROVE  [Idle EXCEPT !.pc = pc] \in Work /\ [Idle EXCEPT !.pc = pc].pc = pc
BY DEF Idle, Work, Transacting

LEMMA EndShape ==
  ASSUME TypeOK, NEW r \in Request, NEW pc \in {"done", "refused"}, End(r, pc)
  PROVE  /\ req' \in [Request -> Work]
         /\ lock' \in [User -> Request \cup {None}]
         /\ req'[r].pc = pc
         /\ \A q \in Request : q # r => req'[q] = req[q]
         /\ \A u \in User : lock'[u] = IF lock[u] = r THEN None ELSE lock[u]
         /\ taken' \in [Token -> Request \cup {None}]
         /\ \A t \in Token : taken'[t] = IF taken[t] = r THEN None ELSE taken[t]
BY IdleIsWork DEF End, TypeOK

(* The lock goes with the transaction, and what else it did to its user's  *)
(* row nobody has read.                                                    *)
LEMMA EndKeepsBasic ==
  ASSUME Basic, NEW r \in Request, NEW pc \in {"done", "refused"}, End(r, pc),
         \/ account' = account
         \/ req[r].pc = "active"
            /\ \E row : account' = [account EXCEPT ![req[r].user] = row]
  PROVE  Addressed' /\ Locking'
<1> USE DEF Basic
<1>1. /\ req'[r].pc = pc
      /\ \A q \in Request : q # r => req'[q] = req[q]
      /\ \A u \in User : lock'[u] = IF lock[u] = r THEN None ELSE lock[u]
  BY EndShape
<1>2. Addressed'
  BY <1>1 DEF Addressed, Serving, Transacting, Anonymous
<1>3. ASSUME NEW u \in User, lock'[u] # None
      PROVE  req'[lock'[u]].pc \in Holding /\ req'[lock'[u]].user = u
  <2>1. lock[u] # r /\ lock'[u] = lock[u] /\ lock[u] # None
    BY <1>1, <1>3
  <2>2. lock[u] \in Request
    BY <2>1 DEF TypeOK
  <2> QED BY <1>1, <2>1, <2>2 DEF Locking
<1>4. ASSUME NEW q \in Request, req'[q].pc \in Holding
      PROVE  /\ lock'[req'[q].user] = q
             /\ req'[q].row = account'[req'[q].user]
             /\ req'[q].endpoint = "register" <=> account'[req'[q].user].password = None
  <2>1. q # r /\ req'[q] = req[q]
    BY <1>1, <1>4 DEF Holding
  <2>2. /\ lock[req[q].user] = q
        /\ req[q].row = account[req[q].user]
        /\ req[q].endpoint = "register" <=> account[req[q].user].password = None
    BY <1>4, <2>1 DEF Locking
  <2>3. req[q].user \in User
    BY <1>4, <2>1 DEF Addressed, Holding, Serving, Transacting
  <2>4. account'[req[q].user] = account[req[q].user]
    <3>1. CASE account' = account
      BY <3>1
    <3>2. CASE req[r].pc = "active"
               /\ \E row : account' = [account EXCEPT ![req[r].user] = row]
      <4>1. lock[req[r].user] = r
        BY <3>2 DEF Locking, Holding
      <4>2. req[r].user # req[q].user
        BY <2>1, <2>2, <4>1
      <4> QED BY <2>3, <3>2, <4>2 DEF TypeOK
    <3> QED BY <3>1, <3>2
  <2> QED BY <1>1, <2>1, <2>2, <2>3, <2>4
<1> QED BY <1>2, <1>3, <1>4 DEF Locking
-----------------------------------------------------------------------------
(* Types and locks                                                         *)

LEMMA InitBasic == Init => Basic
<1> SUFFICES ASSUME Init PROVE Basic
  OBVIOUS
<1>1. Earlier \in Origin /\ Earlier # None
  BY NoneIsApart DEF Origin
<1>2. {Unregistered, PasswordOnly, TwoFactor} \subseteq Account
  <2>1. Unregistered \in Account
    BY DEF Unregistered, Account
  <2>2. PasswordOnly \in Account /\ PasswordOnly.password = Earlier
    BY <1>1, <2>1 DEF PasswordOnly, Account
  <2>3. {Earlier} \X (1..CodeCount) \in SUBSET Code
    BY <1>1 DEF Code
  <2>4. TwoFactor \in Account
    <3>1. ASSUME NEW row \in Account, NEW codes \in SUBSET Code
          PROVE  [row EXCEPT !.secret = Earlier, !.last = 0, !.codes = codes] \in Account
      <4>1. [row EXCEPT !.secret = Earlier] \in Account
        BY <1>1 DEF Account
      <4>2. \A x \in Account : [x EXCEPT !.last = 0] \in Account
        BY DEF Account
      <4>3. \A x \in Account : [x EXCEPT !.codes = codes] \in Account
        BY DEF Account
      <4> QED BY <4>1, <4>2, <4>3
    <3> QED BY <2>2, <2>3, <3>1 DEF TwoFactor
  <2> QED BY <2>1, <2>2, <2>4
<1>3. account \in [User -> Account]
  BY <1>2 DEF Init
<1>4. sessions \subseteq Session
  <2>1. ASSUME NEW t \in OldToken, NEW u \in User, NEW v \in BOOLEAN
        PROVE  OldSession(t, u, v, account[u].secret) \in Session
    <3>1. account[u].secret \in Origin \cup {None}
      BY <1>3 DEF Account
    <3> QED BY <1>1, <3>1, NumbersAreNat DEF OldSession, Session, Token
  <2> QED BY <2>1 DEF Init
<1>5. Idle \in Work
  BY DEF Idle, Work
<1>6. rate \in [Key -> [attempts : Nat, until : Nat]]
  BY DEF Init
<1>7. TypeOK
  BY <1>3, <1>4, <1>5, <1>6 DEF Init, TypeOK
<1>8. Addressed
  BY DEF Init, Addressed, Idle, Serving, Transacting
<1>9. Locking
  BY DEF Init, Locking, Idle, Holding
<1> QED BY <1>7, <1>8, <1>9 DEF Basic

(* A charge to key k for user u.                                           *)
Charging(r, e, u, t, k) ==
  LET over == Charged(k).attempts > MaxCharges IN
  /\ e \in {"register", "login"} \/ \E s \in Alive(Of(u, sessions), now) : s.token = t
  /\ rate' = [rate EXCEPT ![k] = Charged(k)]
  /\ req' = [req EXCEPT ![r] =
       IF over THEN [Idle EXCEPT !.pc = "refused"]
       ELSE [Idle EXCEPT !.pc = "charged", !.endpoint = e, !.user = u, !.token = t]]
  /\ admitted' = [admitted EXCEPT ![r] =
       IF over THEN None ELSE <<k, Charged(k).until>>]

LEMMA ChargeShape ==
  ASSUME NEW r \in Request, Charge(r)
  PROVE  \E e \in Endpoint, u \in User, t \in {s.token : s \in sessions} \cup {None},
            k \in Key : Charging(r, e, u, t, k)
<1>1. PICK e \in Endpoint, u \in User, t \in {s.token : s \in sessions} \cup {None} :
        Charging(r, e, u, t,
                 <<u, IF e \in {"register", "login"} THEN "login" ELSE "security">>)
  BY DEF Charge, Charging
<1>2. <<u, IF e \in {"register", "login"} THEN "login" ELSE "security">> \in Key
  BY DEF Key
<1> QED BY <1>1, <1>2

LEMMA ChargeBasic ==
  ASSUME Basic, NEW r \in Request, Charge(r)
  PROVE  Basic'
<1> USE DEF Basic
<1>1. PICK e \in Endpoint, u \in User, t \in {s.token : s \in sessions} \cup {None},
           k \in Key : Charging(r, e, u, t, k)
  BY ChargeShape
<1> DEFINE over == Charged(k).attempts > MaxCharges
<1> USE DEF Charging
<1> HIDE DEF over
<1>2. t \in Token \cup {None}
  BY SessionIsRecord DEF TypeOK
<1>3. e \notin {"register", "login"} => t \in Token
  BY <1>1, SessionIsRecord DEF TypeOK, Alive, Of
<1>4. Charged(k) \in [attempts : Nat, until : Nat]
  BY NumbersAreNat DEF Charged, TypeOK
<1>5. req' \in [Request -> Work]
  <2>1. [Idle EXCEPT !.pc = "charged", !.endpoint = e, !.user = u, !.token = t] \in Work
    BY <1>2 DEF Idle, Work
  <2> QED BY <1>1, <2>1, IdleIsWork DEF TypeOK
<1>6. admitted' \in [Request -> (Key \X Nat) \cup {None}]
  BY <1>1, <1>4 DEF TypeOK
<1>7. rate' \in [Key -> [attempts : Nat, until : Nat]]
  BY <1>1, <1>4 DEF TypeOK
<1>8. TypeOK'
  BY <1>5, <1>6, <1>7 DEF Charge, TypeOK
<1>9. /\ req'[r].pc \notin Transacting /\ req[r].pc = "new"
      /\ \A q \in Request : q # r => req'[q] = req[q]
      /\ req'[r].pc = "charged" =>
           /\ req'[r].endpoint = e /\ req'[r].user = u /\ req'[r].token = t
  BY <1>1 DEF Charge, TypeOK, Idle, Transacting
<1>10. Addressed'
  BY <1>3, <1>9 DEF Addressed, Serving, Anonymous
<1>11. Locking'
  BY <1>9 DEF Locking, Holding, Transacting, Charge, TypeOK
<1> QED BY <1>8, <1>10, <1>11

(* What a request's record becomes as it goes on.                          *)
LEMMA WorkLocked ==
  ASSUME NEW w \in Work, NEW row \in Account
  PROVE  LET v == [w EXCEPT !.pc = "locked", !.row = row] IN
         /\ v \in Work /\ v.pc = "locked" /\ v.row = row
         /\ v.endpoint = w.endpoint /\ v.user = w.user /\ v.token = w.token
<1>1. [w EXCEPT !.pc = "locked"] \in Work
  BY DEF Work, Transacting
<1>2. \A x \in Work : [x EXCEPT !.row = row] \in Work
  BY DEF Work
<1> DEFINE v == [w EXCEPT !.pc = "locked", !.row = row]
<1>4. v \in Work
  BY <1>1, <1>2
<1> QED BY <1>4 DEF Work

LEMMA WorkActive ==
  ASSUME NEW w \in Work, NEW s \in Session
  PROVE  LET v == [w EXCEPT !.pc = "active", !.session = s] IN
         /\ v \in Work /\ v.pc = "active" /\ v.session = s /\ v.row = w.row
         /\ v.endpoint = w.endpoint /\ v.user = w.user /\ v.token = w.token
<1>1. [w EXCEPT !.pc = "active"] \in Work
  BY DEF Work, Transacting
<1>2. \A x \in Work : [x EXCEPT !.session = s] \in Work
  BY DEF Work
<1> DEFINE v == [w EXCEPT !.pc = "active", !.session = s]
<1>4. v \in Work
  BY <1>1, <1>2
<1> QED BY <1>4 DEF Work

(* A request goes on, and is otherwise what it was, like the other ones.   *)
Onward(r, from, to) ==
  /\ req' \in [Request -> Work] /\ req[r].pc = from /\ req'[r].pc = to
  /\ req'[r].endpoint = req[r].endpoint /\ req'[r].user = req[r].user
  /\ req'[r].token = req[r].token
  /\ \A q \in Request : q # r => req'[q] = req[q]

LEMMA BeginShape ==
  ASSUME Basic, NEW r \in Request, Begin(r)
  PROVE  Onward(r, "charged", "waiting")
<1> USE DEF Basic
<1>1. req[r].pc = "charged"
  BY DEF Begin
<1>2. /\ req' \in [Request -> Work] /\ req'[r].pc = "waiting"
      /\ req'[r].endpoint = req[r].endpoint /\ req'[r].user = req[r].user
      /\ req'[r].token = req[r].token
      /\ \A q \in Request : q # r => req'[q] = req[q]
  <2>1. CASE req' = [req EXCEPT ![r] = [@ EXCEPT !.pc = "waiting", !.begun = now]]
    <3> DEFINE v == [req[r] EXCEPT !.pc = "waiting", !.begun = now]
    <3>1. req[r] \in Work /\ [req[r] EXCEPT !.pc = "waiting"] \in Work
      BY DEF TypeOK, Work, Transacting
    <3>2. \A w \in Work : [w EXCEPT !.begun = now] \in Work
      BY DEF TypeOK, Work
    <3>3. v \in Work
      BY <3>1, <3>2
    <3>4. /\ v.pc = "waiting" /\ v.endpoint = req[r].endpoint
          /\ v.user = req[r].user /\ v.token = req[r].token
      BY <3>1 DEF Work
    <3>5. req' = [req EXCEPT ![r] = v]
      BY <2>1
    <3> HIDE DEF v
    <3> QED BY <3>3, <3>4, <3>5 DEF TypeOK
  <2>2. CASE \E s \in Alive(sessions, now) :
               req' = [req EXCEPT ![r] = [@ EXCEPT !.pc = "waiting", !.begun = now,
                                                   !.session = s]]
    <3>1. PICK s \in Session : req' = [req EXCEPT ![r] = [@ EXCEPT
            !.pc = "waiting", !.begun = now, !.session = s]]
      BY <2>2 DEF TypeOK, Alive
    <3> DEFINE v == [req[r] EXCEPT !.pc = "waiting", !.begun = now, !.session = s]
    <3>2. /\ v \in Work /\ v.pc = "waiting"
          /\ v.endpoint = req[r].endpoint /\ v.user = req[r].user /\ v.token = req[r].token
      <4>1. [req[r] EXCEPT !.pc = "waiting"] \in Work
        BY DEF TypeOK, Work, Transacting
      <4>2. \A w \in Work : [w EXCEPT !.begun = now] \in Work
        BY DEF TypeOK, Work
      <4>3. \A w \in Work : [w EXCEPT !.session = s] \in Work
        BY DEF Work
      <4>4. v \in Work
        BY <4>1, <4>2, <4>3
      <4>5. req[r] \in Work
        BY DEF TypeOK
      <4> QED BY <4>4, <4>5 DEF Work
    <3>3. req' = [req EXCEPT ![r] = v]
      BY <3>1
    <3> HIDE DEF v
    <3> QED BY <3>2, <3>3 DEF TypeOK
  <2> QED BY <2>1, <2>2 DEF Begin
<1> QED BY <1>1, <1>2 DEF Onward

LEMMA BeginBasic ==
  ASSUME Basic, NEW r \in Request, Begin(r)
  PROVE  Basic'
<1> USE DEF Basic
<1>2. Onward(r, "charged", "waiting")
  BY BeginShape
<1> USE DEF Onward
<1>3. TypeOK'
  BY <1>2 DEF Begin, TypeOK
<1>4. Addressed'
  BY <1>2 DEF Addressed, Serving, Anonymous, Begin
<1>5. req[r].pc \notin Holding
  BY DEF Begin, Holding
<1>6. Locking'
  <2>1. UNCHANGED <<lock, account>>
    BY DEF Begin
  <2>2. ASSUME NEW u \in User, lock[u] # None
        PROVE  lock[u] # r
    BY <1>5, <2>2 DEF Locking
  <2> QED BY <1>2, <2>1, <2>2 DEF Locking, Holding, TypeOK
<1> QED BY <1>2, <1>3, <1>4, <1>6

LEMMA LockShape ==
  ASSUME Basic, NEW r \in Request, Lock(r)
  PROVE  Onward(r, "waiting", "locked") /\ req'[r].row = account[req[r].user]
<1> USE DEF Basic
<1> DEFINE u == req[r].user
<1>1. /\ u \in User /\ req[r].pc = "waiting"
      /\ req' = [req EXCEPT ![r] = [@ EXCEPT !.pc = "locked", !.row = account[u]]]
  BY DEF Lock, Addressed, Serving, Transacting
<1>2. /\ req' \in [Request -> Work] /\ req'[r].pc = "locked"
      /\ req'[r].row = account[u]
      /\ req'[r].endpoint = req[r].endpoint /\ req'[r].user = u
      /\ req'[r].token = req[r].token
      /\ \A q \in Request : q # r => req'[q] = req[q]
  <2> DEFINE v == [req[r] EXCEPT !.pc = "locked", !.row = account[u]]
  <2>1. /\ v \in Work /\ v.pc = "locked" /\ v.row = account[u]
        /\ v.endpoint = req[r].endpoint /\ v.user = u /\ v.token = req[r].token
    BY <1>1, WorkLocked DEF TypeOK
  <2>2. req' = [req EXCEPT ![r] = v]
    BY <1>1
  <2> HIDE DEF v
  <2> QED BY <2>1, <2>2 DEF TypeOK
<1> QED BY <1>1, <1>2 DEF Onward

LEMMA LockBasic ==
  ASSUME Basic, NEW r \in Request, Lock(r)
  PROVE  Basic'
<1> USE DEF Basic
<1> DEFINE u == req[r].user
<1>1. /\ u \in User /\ lock[u] = None /\ req[r].pc = "waiting"
      /\ lock' = [lock EXCEPT ![u] = r]
      /\ req' = [req EXCEPT ![r] = [@ EXCEPT !.pc = "locked", !.row = account[u]]]
      /\ (req[r].endpoint = "register") = (account[u].password = None)
      /\ account' = account
  BY DEF Lock, Addressed, Serving, Transacting
<1>2. Onward(r, "waiting", "locked") /\ req'[r].row = account[u]
  BY LockShape
<1> USE DEF Onward
<1>3. TypeOK'
  BY <1>1, <1>2 DEF Lock, TypeOK
<1>4. Addressed'
  BY <1>1, <1>2 DEF Addressed, Serving, Transacting, Anonymous
<1>5. Locking'
  <2>1. ASSUME NEW v \in User, lock'[v] # None
        PROVE  req'[lock'[v]].pc \in Holding /\ req'[lock'[v]].user = v
    <3>1. CASE v = u
      BY <1>1, <1>2, <3>1 DEF Holding, TypeOK
    <3>2. CASE v # u
      <4>1. lock'[v] = lock[v]
        BY <1>1, <3>2 DEF TypeOK
      <4>2. lock[v] # r /\ lock[v] \in Request
        BY <1>1, <2>1, <4>1 DEF Locking, Holding, TypeOK
      <4> QED BY <1>2, <2>1, <4>1, <4>2 DEF Locking
    <3> QED BY <3>1, <3>2
  <2>2. ASSUME NEW q \in Request, req'[q].pc \in Holding
        PROVE  /\ lock'[req'[q].user] = q
               /\ req'[q].row = account'[req'[q].user]
               /\ req'[q].endpoint = "register" <=> account'[req'[q].user].password = None
    <3>1. CASE q = r
      BY <1>1, <1>2, <3>1 DEF TypeOK
    <3>2. CASE q # r
      <4>1. req'[q] = req[q] /\ req[q].pc \in Holding
        BY <1>2, <2>2, <3>2
      <4>2. req[q].user \in User /\ lock[req[q].user] = q
        BY <4>1 DEF Locking, Addressed, Holding, Serving, Transacting
      <4>3. req[q].user # u /\ q # None
        BY <1>1, <4>2, NoneIsApart
      <4> QED BY <1>1, <4>1, <4>2, <4>3 DEF Locking, TypeOK
    <3> QED BY <3>1, <3>2
  <2> QED BY <2>1, <2>2 DEF Locking
<1> QED BY <1>3, <1>4, <1>5

LEMMA RecheckShape ==
  ASSUME Basic, NEW r \in Request, Recheck(r)
  PROVE  /\ Onward(r, "locked", "active") /\ req'[r].row = req[r].row
         /\ ~Anonymous(r) => /\ req'[r].session \in sessions
                             /\ req'[r].session.token = req[r].token
<1> USE DEF Basic
<1>1. /\ req' \in [Request -> Work] /\ req[r].pc = "locked" /\ req'[r].pc = "active"
      /\ req'[r].row = req[r].row
      /\ req'[r].endpoint = req[r].endpoint /\ req'[r].user = req[r].user
      /\ req'[r].token = req[r].token
      /\ \A q \in Request : q # r => req'[q] = req[q]
      /\ ~Anonymous(r) => /\ req'[r].session \in sessions
                          /\ req'[r].session.token = req[r].token
  <2>1. req[r].pc = "locked"
    BY DEF Recheck
  <2>2. CASE Anonymous(r) /\ req' = [req EXCEPT ![r].pc = "active"]
    <3> DEFINE v == [req[r] EXCEPT !.pc = "active"]
    <3>1. req[r] \in Work
      BY DEF TypeOK
    <3>2. /\ v \in Work /\ v.pc = "active" /\ v.row = req[r].row
          /\ v.endpoint = req[r].endpoint /\ v.user = req[r].user /\ v.token = req[r].token
      BY <3>1 DEF Work, Transacting
    <3>3. req' = [req EXCEPT ![r] = v]
      BY <2>2
    <3> HIDE DEF v
    <3> QED BY <2>1, <2>2, <3>2, <3>3 DEF TypeOK
  <2>3. CASE \E s \in Alive(sessions, req[r].begun) :
               /\ s.token = req[r].token
               /\ req' = [req EXCEPT ![r] = [@ EXCEPT !.pc = "active", !.session = s]]
    <3>1. PICK s \in Session :
            /\ s \in sessions /\ s.token = req[r].token
            /\ req' = [req EXCEPT ![r] = [@ EXCEPT !.pc = "active", !.session = s]]
      BY <2>3 DEF TypeOK, Alive
    <3> DEFINE v == [req[r] EXCEPT !.pc = "active", !.session = s]
    <3>2. /\ v \in Work /\ v.pc = "active" /\ v.session = s /\ v.row = req[r].row
          /\ v.endpoint = req[r].endpoint /\ v.user = req[r].user /\ v.token = req[r].token
      <4>1. req[r] \in Work
        BY DEF TypeOK
      <4> QED BY <4>1, WorkActive, Zenon
    <3>3. req' = [req EXCEPT ![r] = v]
      BY <3>1
    <3> HIDE DEF v
    <3> QED BY <2>1, <3>1, <3>2, <3>3 DEF TypeOK
  <2> QED BY <2>2, <2>3 DEF Recheck
<1> QED BY <1>1 DEF Onward

LEMMA RecheckBasic ==
  ASSUME Basic, NEW r \in Request, Recheck(r)
  PROVE  Basic'
<1> USE DEF Basic
<1>1. Onward(r, "locked", "active") /\ req'[r].row = req[r].row
  BY RecheckShape
<1> USE DEF Onward
<1>2. TypeOK'
  BY <1>1 DEF Recheck, TypeOK
<1>3. Addressed'
  BY <1>1 DEF Addressed, Serving, Transacting, Anonymous
<1>4. Locking'
  <2>1. UNCHANGED <<lock, account>>
    BY DEF Recheck
  <2>2. ASSUME NEW u \in User, lock[u] # None
        PROVE  req'[lock[u]].pc \in Holding /\ req'[lock[u]].user = u
    <3>1. lock[u] \in Request /\ req[lock[u]].pc \in Holding /\ req[lock[u]].user = u
      BY <2>2 DEF Locking, TypeOK
    <3> QED BY <1>1, <3>1 DEF Holding
  <2>3. ASSUME NEW q \in Request, req'[q].pc \in Holding
        PROVE  /\ lock[req'[q].user] = q
               /\ req'[q].row = account[req'[q].user]
               /\ req'[q].endpoint = "register" <=> account[req'[q].user].password = None
    BY <1>1, <2>3 DEF Locking, Holding
  <2> QED BY <2>1, <2>2, <2>3 DEF Locking
<1> QED BY <1>2, <1>3, <1>4

(* A request that is served acts on a row, and on a session, of its user.  *)
LEMMA ActiveShape ==
  ASSUME Basic, NEW r \in Request, req[r].pc = "active"
  PROVE  /\ req[r].user \in User /\ lock[req[r].user] = r
         /\ req[r].row = account[req[r].user] /\ req[r].row \in Account
         /\ req[r].endpoint = "register" <=> account[req[r].user].password = None
         /\ req[r].endpoint # "register" => req[r].row.password \in Origin
<1>1. /\ req[r].user \in User /\ lock[req[r].user] = r
      /\ req[r].row = account[req[r].user]
      /\ req[r].endpoint = "register" <=> account[req[r].user].password = None
  BY DEF Basic, Locking, Addressed, Holding, Serving, Transacting
<1>2. req[r].row \in Account
  BY <1>1 DEF Basic, TypeOK
<1> QED BY <1>1, <1>2 DEF Account

Mark == Origin \X Int \X {"step", "recovery"}

LEMMA FactorTyped ==
  ASSUME NEW row \in Account, NEW f \in Factors(row)
  PROVE  f.used \in SUBSET Mark
BY FactorShape, NumbersAreNat DEF Mark, Account, Code

(* A transaction that writes is well-typed if what it writes is.           *)
LEMMA CommitBasic ==
  ASSUME Basic, NEW r \in Request, req[r].pc = "active", End(r, "done"),
         \/ account' = account
         \/ \E row \in Account : account' = [account EXCEPT ![req[r].user] = row],
         sessions' \subseteq Session,
         \/ spent' = spent
         \/ \E used \in SUBSET Mark : Spend(r, used),
         UNCHANGED <<rate, now, admitted>>
  PROVE  Basic'
<1>1. Addressed' /\ Locking'
  BY EndKeepsBasic
<1>2. account' \in [User -> Account]
  BY DEF Basic, TypeOK
<1>3. /\ req' \in [Request -> Work] /\ lock' \in [User -> Request \cup {None}]
      /\ taken' \in [Token -> Request \cup {None}]
  BY EndShape DEF Basic
<1>4. spent' \subseteq [user : User, code : Mark, by : Request]
  <2>1. CASE spent' = spent
    BY <2>1 DEF Basic, TypeOK, Mark
  <2>2. CASE \E used \in SUBSET Mark : Spend(r, used)
    <3>1. req[r].user \in User
      BY ActiveShape
    <3>2. spent \subseteq [user : User, code : Mark, by : Request]
      BY DEF Basic, TypeOK, Mark
    <3> QED BY <2>2, <3>1, <3>2 DEF Spend
  <2> QED BY <2>1, <2>2
<1> QED BY <1>1, <1>2, <1>3, <1>4 DEF Basic, TypeOK, Mark

LEMMA RegisterAdds ==
  ASSUME Basic, NEW r \in Request, Register(r)
  PROVE  Added(r, TRUE, r, None)
<1>1. r \in Origin /\ req[r].user \in User
  BY ActiveShape DEF Register, Origin
<1>2. NewSession(r, TRUE, r, None) /\ TypeOK /\ None \in Origin \cup {None} /\ TRUE \in BOOLEAN
  BY DEF Register, Basic
<1> QED BY <1>1, <1>2, NewSessionShape, Zenon

LEMMA LoginAdds ==
  ASSUME Basic, NEW r \in Request, Login(r)
  PROVE  Added(r, req[r].row.secret = None, req[r].row.password, req[r].row.secret)
<1> DEFINE verified == req[r].row.secret = None
<1>1. /\ req[r].user \in User /\ req[r].row.password \in Origin
      /\ req[r].row.secret \in Origin \cup {None}
  BY ActiveShape DEF Login, Account
<1>2. NewSession(r, verified, req[r].row.password, req[r].row.secret)
  BY DEF Login
<1>3. TypeOK /\ verified \in BOOLEAN
  BY DEF Basic
<1> HIDE DEF verified
<1>4. Added(r, verified, req[r].row.password, req[r].row.secret)
  BY <1>1, <1>2, <1>3, NewSessionShape, Zenon
<1> QED BY <1>4 DEF verified

LEMMA VerifyAdds ==
  ASSUME Basic, Snapshot, NEW r \in Request, Verify(r)
  PROVE  Added(r, TRUE, req[r].session.password, req[r].row.secret)
<1>1. /\ req[r].user \in User /\ req[r].row.secret \in Origin \cup {None}
  BY ActiveShape DEF Verify, Account
<1>2. req[r].session.password \in Origin
  BY SessionIsRecord DEF Verify, Snapshot, Anonymous
<1>3. NewSession(r, TRUE, req[r].session.password, req[r].row.secret)
  BY DEF Verify
<1>4. TypeOK /\ TRUE \in BOOLEAN
  BY DEF Basic
<1> QED BY <1>1, <1>2, <1>3, <1>4, NewSessionShape, Zenon

LEMMA RegisterBasic ==
  ASSUME Basic, NEW r \in Request, Register(r)
  PROVE  Basic'
<1>1. r \in Origin /\ req[r].user \in User
  BY ActiveShape DEF Register, Origin
<1>2. [Unregistered EXCEPT !.password = r] \in Account
  BY <1>1 DEF Unregistered, Account
<1>3. sessions' \subseteq Session
  BY RegisterAdds, AddedIsTyped DEF Basic
<1> QED BY <1>2, <1>3, CommitBasic DEF Register

LEMMA LoginBasic ==
  ASSUME Basic, NEW r \in Request, Login(r)
  PROVE  Basic'
<1>1. sessions' \subseteq Session
  BY LoginAdds, AddedIsTyped DEF Basic
<1> QED BY <1>1, CommitBasic DEF Login

LEMMA VerifyBasic ==
  ASSUME Basic, Snapshot, NEW r \in Request, Verify(r)
  PROVE  Basic'
<1>1. /\ req[r].user \in User /\ req[r].row \in Account
      /\ req[r].row.secret \in Origin \cup {None}
  BY ActiveShape DEF Verify, Account
<1>3. sessions' \subseteq Session
  BY VerifyAdds, AddedIsTyped DEF Basic
<1>4. PICK f \in Factors(req[r].row) :
        account' = [account EXCEPT ![req[r].user] = f.row] /\ Spend(r, f.used)
  BY DEF Verify
<1>5. f.row \in Account /\ f.used \in SUBSET Mark
  BY <1>1, FactorShape, FactorTyped
<1> QED BY <1>3, <1>4, <1>5, CommitBasic DEF Verify

LEMMA StartSetupBasic ==
  ASSUME Basic, NEW r \in Request, StartSetup(r)
  PROVE  Basic'
<1> DEFINE setup == [secret |-> r, until |-> req[r].begun + SetupLife,
                     session |-> req[r].token]
<1>1. setup \in Setup
  <2>1. req[r].token \in Token
    BY DEF StartSetup, Basic, Addressed, Anonymous, Serving, Transacting
  <2>2. req[r].begun \in Nat
    BY DEF Basic, TypeOK, Work
  <2> QED BY <2>1, <2>2, NumbersAreNat DEF Setup, Origin
<1>2. req[r].row \in Account
  BY ActiveShape DEF StartSetup
<1>3. [req[r].row EXCEPT !.setup = setup] \in Account
  BY <1>1, <1>2 DEF Account
<1>4. account' = [account EXCEPT ![req[r].user] = [req[r].row EXCEPT !.setup = setup]]
  BY DEF StartSetup
<1>5. sessions' \subseteq Session
  BY DEF StartSetup, Basic, TypeOK
<1> QED BY <1>3, <1>4, <1>5, CommitBasic DEF StartSetup

LEMMA EnableSetupShape ==
  ASSUME Basic, NEW r \in Request, EnableSetup(r)
  PROVE  LET old == req[r].row
             new == [old EXCEPT !.secret = old.setup.secret, !.setup = None,
                                !.codes = {r} \X (1..CodeCount)] IN
         /\ old.setup \in Setup /\ old.secret = None
         /\ old.password \in Origin
         /\ \E k \in Nat :
              /\ account' = [account EXCEPT ![req[r].user] = [new EXCEPT !.last = k]]
              /\ [new EXCEPT !.last = k] \in Account
              /\ Spend(r, {<<old.setup.secret, k, "step">>})
         /\ RevokeOthers(r, old.password, old.setup.secret)
<1> DEFINE old == req[r].row
           codes == {r} \X (1..CodeCount)
<1>1. old \in Account /\ old.password \in Origin
  BY ActiveShape DEF EnableSetup
<1>2. old.setup # None /\ old.secret = None
  BY DEF EnableSetup, SetupValid
<1>3. old.setup \in Setup
  BY <1>1, <1>2 DEF Account
<1>4. PICK k \in Matching(-1) :
        /\ account' = [account EXCEPT ![req[r].user] = [old EXCEPT
             !.secret = old.setup.secret, !.last = k, !.setup = None, !.codes = codes]]
        /\ Spend(r, {<<old.setup.secret, k, "step">>})
  BY DEF EnableSetup
<1>5. k \in Nat
  BY DEF Matching
<1>6. codes \in SUBSET Code
  <2>1. {r} \subseteq Origin
    BY DEF Origin
  <2> QED BY <2>1 DEF Code
<1>7. old.setup.secret \in Origin
  BY <1>3 DEF Setup
<1> HIDE DEF codes, old
<1> DEFINE new == [old EXCEPT !.secret = old.setup.secret, !.setup = None, !.codes = codes]
<1>8. new \in Account
  <2>1. [old EXCEPT !.secret = old.setup.secret] \in Account
    BY <1>1, <1>7 DEF Account
  <2>2. \A x \in Account : [x EXCEPT !.setup = None] \in Account
    BY DEF Account
  <2>3. \A x \in Account : [x EXCEPT !.codes = codes] \in Account
    BY <1>6 DEF Account
  <2> QED BY <2>1, <2>2, <2>3
<1>9. [new EXCEPT !.last = k] \in Account
  <2> HIDE DEF new
  <2> QED BY <1>5, <1>8 DEF Account
<1>10. [new EXCEPT !.last = k] =
       [old EXCEPT !.secret = old.setup.secret, !.last = k, !.setup = None, !.codes = codes]
  BY <1>1 DEF Account
<1>11. account' = [account EXCEPT ![req[r].user] = [new EXCEPT !.last = k]]
  BY <1>4, <1>10
<1>12. RevokeOthers(r, old.password, old.setup.secret)
  BY DEF EnableSetup, old
<1> QED BY <1>1, <1>2, <1>3, <1>4, <1>5, <1>9, <1>11, <1>12 DEF old, codes

LEMMA EnableSetupRevokes ==
  ASSUME Basic, NEW r \in Request, EnableSetup(r)
  PROVE  Revoked(r, req[r].row.password, req[r].row.setup.secret)
<1>1. /\ req[r].row.setup \in Setup /\ req[r].row.password \in Origin
      /\ RevokeOthers(r, req[r].row.password, req[r].row.setup.secret)
  BY EnableSetupShape
<1>2. req[r].row.setup.secret \in Origin \cup {None}
  BY <1>1 DEF Setup
<1>3. TypeOK /\ req[r].endpoint \in Sensitive \cup {"2fa-enable"}
  BY DEF Basic, EnableSetup
<1> QED BY <1>1, <1>2, <1>3, RevokeShape, Zenon

LEMMA EnableSetupBasic ==
  ASSUME Basic, NEW r \in Request, EnableSetup(r)
  PROVE  Basic'
<1> DEFINE old == req[r].row
<1>1. /\ old.setup \in Setup /\ old.password \in Origin
      /\ \E row \in Account : account' = [account EXCEPT ![req[r].user] = row]
      /\ \E k \in Nat : Spend(r, {<<old.setup.secret, k, "step">>})
  BY EnableSetupShape
<1>2. old.setup.secret \in Origin
  BY <1>1 DEF Setup
<1>3. sessions' \subseteq Session
  BY EnableSetupRevokes DEF Revoked
<1>4. \E used \in SUBSET Mark : Spend(r, used)
  <2>1. \A k \in Nat : {<<old.setup.secret, k, "step">>} \in SUBSET Mark
    BY <1>2 DEF Mark
  <2> QED BY <1>1, <2>1
<1> QED BY <1>1, <1>3, <1>4, CommitBasic DEF EnableSetup

(* What the other changes make of the row.                                 *)
LEMMA ChangedShape ==
  ASSUME NEW r \in Request, NEW row \in Account, row.password \in Origin
  PROVE  LET new == Changed(r, row) IN
         /\ new \in Account /\ new.password \in Origin
         /\ new.secret \in {None, row.secret}
         /\ new.setup \in {None, row.setup}
         /\ new.codes \in {{}, row.codes, {r} \X (1..CodeCount)}
         /\ new.secret # None => new.last = row.last
<1>1. r \in Origin
  BY DEF Origin
<1>2. {r} \X (1..CodeCount) \in SUBSET Code
  BY <1>1 DEF Code
<1>3. CASE req[r].endpoint = "2fa-disable"
  BY <1>3 DEF Changed, Unregistered, Account
<1>4. CASE req[r].endpoint = "recovery-codes"
  <2>1. Changed(r, row) = [row EXCEPT !.codes = {r} \X (1..CodeCount)]
    BY <1>4 DEF Changed
  <2> DEFINE codes == {r} \X (1..CodeCount)
  <2> HIDE DEF codes
  <2>2. [row EXCEPT !.codes = codes] \in Account
    BY <1>2 DEF Account, codes
  <2> QED BY <2>1, <2>2 DEF Account, codes
<1>5. CASE req[r].endpoint = "password"
  <2>1. Changed(r, row) = [row EXCEPT !.password = r, !.setup = None]
    BY <1>5 DEF Changed
  <2>2. [row EXCEPT !.password = r] \in Account
    BY <1>1 DEF Account
  <2>3. \A x \in Account : [x EXCEPT !.setup = None] \in Account
    BY DEF Account
  <2>4. [row EXCEPT !.password = r, !.setup = None] \in Account
    BY <2>2, <2>3
  <2> QED BY <1>1, <2>1, <2>4 DEF Account
<1>6. CASE req[r].endpoint \notin {"2fa-disable", "recovery-codes", "password"}
  BY <1>6 DEF Changed
<1> QED BY <1>3, <1>4, <1>5, <1>6

LEMMA ChangeShape ==
  ASSUME Basic, NEW r \in Request, Change(r)
  PROVE  /\ req[r].row \in Account /\ req[r].row.password \in Origin
         /\ \E f \in Factors(req[r].row) :
              /\ f.row \in Account /\ f.row.password \in Origin
              /\ Changed(r, f.row) \in Account
              /\ Changed(r, f.row).password \in Origin
              /\ account' = [account EXCEPT ![req[r].user] = Changed(r, f.row)]
              /\ Spend(r, f.used)
              /\ Revoked(r, Changed(r, f.row).password, Changed(r, f.row).secret)
<1>1. req[r].row \in Account /\ req[r].row.password \in Origin
  BY ActiveShape DEF Change, Sensitive
<1>2. PICK f \in Factors(req[r].row) :
        /\ account' = [account EXCEPT ![req[r].user] = Changed(r, f.row)]
        /\ Spend(r, f.used)
        /\ RevokeOthers(r, Changed(r, f.row).password, Changed(r, f.row).secret)
  BY DEF Change
<1>3. f.row \in Account /\ f.row.password \in Origin
  BY <1>1, FactorShape
<1>4. Changed(r, f.row) \in Account /\ Changed(r, f.row).password \in Origin
  BY <1>3, ChangedShape
<1>5. /\ Changed(r, f.row).secret \in Origin \cup {None} /\ TypeOK
      /\ req[r].endpoint \in Sensitive \cup {"2fa-enable"}
  BY <1>4 DEF Account, Basic, Change
<1>6. Revoked(r, Changed(r, f.row).password, Changed(r, f.row).secret)
  BY <1>2, <1>4, <1>5, RevokeShape, Zenon
<1> QED BY <1>1, <1>2, <1>3, <1>4, <1>6

LEMMA ChangeBasic ==
  ASSUME Basic, NEW r \in Request, Change(r)
  PROVE  Basic'
<1>1. PICK f \in Factors(req[r].row) :
        /\ Changed(r, f.row) \in Account
        /\ Changed(r, f.row).password \in Origin
        /\ account' = [account EXCEPT ![req[r].user] = Changed(r, f.row)]
        /\ Spend(r, f.used)
        /\ Revoked(r, Changed(r, f.row).password, Changed(r, f.row).secret)
  BY ChangeShape
<1>2. f.used \in SUBSET Mark
  BY ChangeShape, FactorTyped
<1>3. sessions' \subseteq Session
  BY <1>1 DEF Revoked
<1> QED BY <1>1, <1>2, <1>3, CommitBasic DEF Change

LEMMA AbortBasic ==
  ASSUME Basic, NEW r \in Request, Deny(r) \/ Refuse(r)
  PROVE  Basic'
<1>1. End(r, "refused") /\ UNCHANGED <<account, sessions, rate, now, spent, admitted>>
  BY DEF Deny, Refuse
<1>2. Addressed' /\ Locking'
  BY <1>1, EndKeepsBasic
<1>3. /\ req' \in [Request -> Work] /\ lock' \in [User -> Request \cup {None}]
      /\ taken' \in [Token -> Request \cup {None}]
  BY <1>1, EndShape DEF Basic
<1> QED BY <1>1, <1>2, <1>3 DEF Basic, TypeOK

LEMMA IdleStepBasic ==
  ASSUME Basic,
         (\E s \in sessions : Logout(s)) \/ (\E r \in Request : TakeSession(r))
             \/ Tick \/ UNCHANGED vars
  PROVE  Basic'
<1>1. /\ UNCHANGED <<account, lock, rate, req, spent, admitted>>
      /\ now' \in Nat /\ sessions' \subseteq sessions
      /\ taken' \in [Token -> Request \cup {None}]
  BY DEF Logout, TakeSession, Tick, vars, Basic, TypeOK
<1>2. TypeOK'
  BY <1>1 DEF Basic, TypeOK
<1>3. Addressed' /\ Locking'
  BY <1>1 DEF Basic, Addressed, Locking, Anonymous
<1> QED BY <1>2, <1>3 DEF Basic

LEMMA ChargedShape ==
  ASSUME Basic, NEW r \in Request, Charge(r)
  PROVE  /\ req[r].pc = "new" /\ req'[r].pc \in {"refused", "charged"}
         /\ \A q \in Request : q # r => req'[q] = req[q]
         /\ UNCHANGED <<account, sessions, lock, taken, now, spent>>
         /\ req'[r].pc = "charged" =>
              /\ req'[r].token # None => \E s \in sessions : s.token = req'[r].token
              /\ req'[r].endpoint \notin {"register", "login"} =>
                   \E s \in sessions : /\ s.token = req'[r].token
                                       /\ s.user = req'[r].user
<1>1. PICK e \in Endpoint, u \in User, t \in {s.token : s \in sessions} \cup {None},
           k \in Key : Charging(r, e, u, t, k)
  BY ChargeShape
<1> DEFINE over == Charged(k).attempts > MaxCharges
<1>2. req' = [req EXCEPT ![r] =
        IF over THEN [Idle EXCEPT !.pc = "refused"]
        ELSE [Idle EXCEPT !.pc = "charged", !.endpoint = e, !.user = u, !.token = t]]
  BY <1>1 DEF Charging
<1>3. e \notin {"register", "login"} =>
        \E s \in sessions : s.token = t /\ s.user = u
  BY <1>1 DEF Charging, Alive, Of
<1> HIDE DEF over
<1>4. CASE over
  BY <1>2, <1>4 DEF Charge, Basic, TypeOK, Idle
<1>5. CASE ~over
  <2>1. /\ req'[r].pc = "charged" /\ req'[r].endpoint = e /\ req'[r].user = u
        /\ req'[r].token = t
        /\ \A q \in Request : q # r => req'[q] = req[q]
    BY <1>2, <1>5 DEF Basic, TypeOK, Idle
  <2> QED BY <1>3, <2>1 DEF Charge
<1> QED BY <1>4, <1>5
-----------------------------------------------------------------------------
(* Tokens                                                                  *)

LEMMA InitTokens == Init => Tokens
<1> SUFFICES ASSUME Init PROVE Tokens
  OBVIOUS
<1>1. \A s \in sessions : s.token \in OldToken
  BY DEF Init, OldSession
<1>2. \A r \in Request : req[r].pc = "new"
  BY DEF Init, Idle
<1>3. \A s, t \in sessions : s.token = t.token => s = t
  BY DEF Init
<1> QED BY <1>1, <1>2, <1>3 DEF Tokens, Used, Serving, Transacting

(* A step of one request leaves tokens in order if the sessions are those  *)
(* there were, and one named after the request if it is done by now.       *)
LEMMA TokensStep ==
  ASSUME Tokens, NEW r \in Request, req[r].pc # "done",
         \A q \in Request : q # r => req'[q] = req[q],
         \A s \in sessions' :
           \/ \E x \in sessions : x.token = s.token /\ x.user = s.user
           \/ s.token = r /\ s.user = req[r].user /\ req'[r].pc = "done",
         req'[r].pc \in Serving =>
           /\ sessions' = sessions
           /\ req'[r].token # None => Used(req'[r].token)
           /\ req'[r].endpoint \notin {"register", "login"} =>
                \A s \in sessions : s.token = req'[r].token => s.user = req'[r].user
  PROVE  Tokens'
<1>1. \A t : Used(t) => Used(t)'
  BY DEF Used
<1>2. ~Used(r) /\ r # None
  BY AccountsAssumption, NoneIsApart DEF Used
<1>3. ASSUME NEW s \in sessions' PROVE Used(s.token)'
  <2>1. CASE \E x \in sessions : x.token = s.token /\ x.user = s.user
    BY <1>1, <2>1 DEF Tokens
  <2>2. CASE s.token = r /\ s.user = req[r].user /\ req'[r].pc = "done"
    BY <2>2 DEF Used
  <2> QED BY <2>1, <2>2
<1>4. ASSUME NEW s \in sessions', NEW t \in sessions', s.token = t.token
      PROVE  s.user = t.user
  <2>0. \A x \in sessions : x.token # r
    BY <1>2 DEF Tokens
  <2>1. CASE s.token = r
    <3>1. \A x \in sessions' : x.token = r => x.user = req[r].user
      BY <2>0
    <3> QED BY <1>4, <2>1, <3>1
  <2>2. CASE s.token # r
    <3>1. PICK x \in sessions : x.token = s.token /\ x.user = s.user
      BY <2>2
    <3>2. PICK y \in sessions : y.token = t.token /\ y.user = t.user
      BY <1>4, <2>2
    <3> QED BY <1>4, <3>1, <3>2 DEF Tokens
  <2> QED BY <2>1, <2>2
<1>5. ASSUME NEW q \in Request, req'[q].pc \in Serving
      PROVE  /\ req'[q].token # None => Used(req[q].token)'
             /\ req'[q].endpoint \notin {"register", "login"} =>
                  \A s \in sessions' : s.token = req'[q].token => s.user = req'[q].user
  <2>1. CASE q = r
    <3>1. sessions' = sessions /\ (req'[r].token # None => Used(req'[r].token))
      BY <1>5, <2>1
    <3>2. req'[r].token # None => Used(req[r].token)'
      BY <3>1 DEF Used
    <3> QED BY <1>5, <2>1, <3>1, <3>2
  <2>2. CASE q # r
    <3>1. req'[q] = req[q]
      BY <2>2
    <3>2. /\ req[q].token # None => Used(req[q].token)
          /\ req[q].endpoint \notin {"register", "login"} =>
               \A s \in sessions : s.token = req[q].token => s.user = req[q].user
      BY <1>5, <3>1 DEF Tokens, Anonymous
    <3>3. req[q].token # r
      BY <1>2, <3>2
    <3>4. req'[q].token # None => Used(req[q].token)'
      BY <3>1, <3>2 DEF Used
    <3>5. ASSUME req[q].endpoint \notin {"register", "login"},
                 NEW s \in sessions', s.token = req[q].token
          PROVE  s.user = req[q].user
      <4>1. PICK x \in sessions : x.token = s.token /\ x.user = s.user
        BY <3>3, <3>5
      <4> QED BY <3>2, <3>5, <4>1
    <3> QED BY <3>1, <3>4, <3>5
  <2> QED BY <2>1, <2>2
<1>6. \A q \in Request : req'[q].pc \in Serving /\ ~Anonymous(q)' =>
        req'[q].endpoint \notin {"register", "login"}
  BY DEF Anonymous
<1>7. Tokens'
  <2> SUFFICES /\ \A s \in sessions' : Used(s.token)'
               /\ \A s, t \in sessions' : s.token = t.token => s.user = t.user
               /\ \A q \in Request : req'[q].pc \in Serving =>
                    /\ req'[q].token # None => Used(req[q].token)'
                    /\ ~Anonymous(q)' =>
                         \A s \in sessions' :
                           s.token = req'[q].token => s.user = req'[q].user
    BY DEF Tokens
  <2> QED BY <1>3, <1>4, <1>5, <1>6
<1> QED BY <1>7

LEMMA AddedTokens ==
  ASSUME Tokens, TypeOK, NEW r \in Request, req[r].pc = "active", End(r, "done"),
         NEW verified, NEW password, NEW secret,
         Added(r, verified, password, secret)
  PROVE  Tokens'
<1>1. /\ req'[r].pc = "done"
      /\ \A q \in Request : q # r => req'[q] = req[q]
  BY EndShape
<1>2. \A s \in sessions' :
        \/ \E x \in sessions : x.token = s.token /\ x.user = s.user
        \/ s.token = r /\ s.user = req[r].user
  BY DEF Added, Rest
<1> QED BY <1>1, <1>2, TokensStep DEF Serving, Transacting

LEMMA OldTokens ==
  ASSUME Tokens, TypeOK, NEW r \in Request, req[r].pc # "done",
         NEW pc \in {"done", "refused"}, End(r, pc),
         \A s \in sessions' : \E x \in sessions : x.token = s.token /\ x.user = s.user
  PROVE  Tokens'
<1>1. /\ req'[r].pc = pc
      /\ \A q \in Request : q # r => req'[q] = req[q]
  BY EndShape
<1> QED BY <1>1, TokensStep DEF Serving, Transacting

LEMMA OnwardTokens ==
  ASSUME Tokens, NEW r \in Request, NEW from \in Serving, NEW to \in Serving,
         Onward(r, from, to), sessions' = sessions
  PROVE  Tokens'
<1>1. /\ req[r].pc \in Serving /\ req[r].pc # "done"
      /\ req'[r].token = req[r].token /\ req'[r].endpoint = req[r].endpoint
      /\ req'[r].user = req[r].user
      /\ \A q \in Request : q # r => req'[q] = req[q]
  BY DEF Onward, Serving, Transacting
<1>2. /\ req[r].token # None => Used(req[r].token)
      /\ req[r].endpoint \notin {"register", "login"} =>
           \A s \in sessions : s.token = req[r].token => s.user = req[r].user
  BY <1>1 DEF Tokens, Anonymous
<1> QED BY <1>1, <1>2, TokensStep

LEMMA StepTokens ==
  ASSUME Basic, Snapshot, Tokens, [Next]_vars
  PROVE  Tokens'
<1> USE DEF Basic
<1>1. ASSUME NEW r \in Request, Charge(r) PROVE Tokens'
  <2>1. /\ req[r].pc = "new" /\ req'[r].pc \in {"refused", "charged"}
        /\ \A q \in Request : q # r => req'[q] = req[q]
        /\ sessions' = sessions
        /\ req'[r].pc = "charged" =>
             /\ req'[r].token # None => \E s \in sessions : s.token = req'[r].token
             /\ req'[r].endpoint \notin {"register", "login"} =>
                  \E s \in sessions : s.token = req'[r].token /\ s.user = req'[r].user
    BY <1>1, ChargedShape
  <2>2. req'[r].pc \in Serving =>
          /\ req'[r].token # None => Used(req'[r].token)
          /\ req'[r].endpoint \notin {"register", "login"} =>
               \A s \in sessions : s.token = req'[r].token => s.user = req'[r].user
    BY <2>1 DEF Tokens, Serving, Transacting
  <2> QED BY <2>1, <2>2, TokensStep
<1>2. ASSUME NEW r \in Request, Begin(r) PROVE Tokens'
  BY <1>2, BeginShape, OnwardTokens DEF Begin, Serving, Transacting
<1>3. ASSUME NEW r \in Request, Lock(r) PROVE Tokens'
  BY <1>3, LockShape, OnwardTokens DEF Lock, Serving, Transacting
<1>4. ASSUME NEW r \in Request, Recheck(r) PROVE Tokens'
  BY <1>4, RecheckShape, OnwardTokens DEF Recheck, Serving, Transacting
<1>5. ASSUME NEW r \in Request, Deny(r) \/ Refuse(r) PROVE Tokens'
  BY <1>5, OldTokens DEF Deny, Denied, Refuse
<1>6. ASSUME NEW r \in Request, Register(r) PROVE Tokens'
  BY <1>6, RegisterAdds, AddedTokens DEF Register
<1>7. ASSUME NEW r \in Request, Login(r) PROVE Tokens'
  BY <1>7, LoginAdds, AddedTokens DEF Login
<1>8. ASSUME NEW r \in Request, Verify(r) PROVE Tokens'
  BY <1>8, VerifyAdds, AddedTokens DEF Verify
<1>9. ASSUME NEW r \in Request, StartSetup(r) PROVE Tokens'
  BY <1>9, OldTokens DEF StartSetup
<1>10. ASSUME NEW r \in Request, EnableSetup(r) PROVE Tokens'
  <2>1. \A s \in sessions' : \E x \in sessions : x.token = s.token /\ x.user = s.user
    BY <1>10, EnableSetupRevokes DEF Revoked
  <2> QED BY <1>10, <2>1, OldTokens DEF EnableSetup
<1>11. ASSUME NEW r \in Request, Change(r) PROVE Tokens'
  <2>1. PICK f \in Factors(req[r].row) :
          Revoked(r, Changed(r, f.row).password, Changed(r, f.row).secret)
    BY <1>11, ChangeShape
  <2>2. \A s \in sessions' : \E x \in sessions : x.token = s.token /\ x.user = s.user
    BY <2>1 DEF Revoked
  <2> QED BY <1>11, <2>2, OldTokens DEF Change
<1>12. ASSUME (\E s \in sessions : Logout(s)) \/ (\E r \in Request : TakeSession(r))
             \/ Tick \/ UNCHANGED vars PROVE Tokens'
  BY <1>12 DEF Logout, TakeSession, Tick, vars, Tokens, Used, Anonymous
<1> QED BY <1>1, <1>2, <1>3, <1>4, <1>5, <1>6, <1>7, <1>8, <1>9, <1>10, <1>11,
           <1>12 DEF Next, Serve

-----------------------------------------------------------------------------
(* Snapshots                                                               *)

LEMMA SnapshotStep ==
  ASSUME Basic, Snapshot, NEW r \in Request, req'[r].pc # "active",
         \A q \in Request : q # r => req'[q] = req[q],
         \/ account' = account
         \/ req[r].pc = "active"
            /\ \E row : account' = [account EXCEPT ![req[r].user] = row]
  PROVE  Snapshot'
<1> SUFFICES ASSUME NEW q \in Request, req'[q].pc = "active",
                    req'[q].endpoint \notin {"register", "login"}
             PROVE  /\ req'[q].session \in Session
                    /\ req'[q].session.user = req'[q].user
                    /\ req'[q].session.password = account'[req'[q].user].password
  BY DEF Snapshot, Anonymous
<1>1. q # r /\ req'[q] = req[q]
  OBVIOUS
<1>2. /\ req[q].session \in Session
      /\ req[q].session.user = req[q].user
      /\ req[q].session.password = account[req[q].user].password
  BY <1>1 DEF Snapshot, Anonymous
<1>3. req[q].user \in User /\ lock[req[q].user] = q
  BY <1>1, ActiveShape
<1>4. account'[req[q].user] = account[req[q].user]
  <2>1. CASE account' = account
    BY <2>1
  <2>2. CASE req[r].pc = "active"
             /\ \E row : account' = [account EXCEPT ![req[r].user] = row]
    <3>1. lock[req[r].user] = r
      BY <2>2, ActiveShape
    <3> QED BY <1>1, <1>3, <2>2, <3>1 DEF Basic, TypeOK
  <2> QED BY <2>1, <2>2
<1> QED BY <1>1, <1>2, <1>4

LEMMA EndSnapshot ==
  ASSUME Basic, Snapshot, NEW r \in Request, NEW pc \in {"done", "refused"}, End(r, pc),
         \/ account' = account
         \/ req[r].pc = "active"
            /\ \E row : account' = [account EXCEPT ![req[r].user] = row]
  PROVE  Snapshot'
<1>1. req'[r].pc # "active" /\ \A q \in Request : q # r => req'[q] = req[q]
  BY EndShape DEF Basic
<1> QED BY <1>1, SnapshotStep

LEMMA StepSnapshot ==
  ASSUME Basic, Snapshot, Tokens, SessionsCurrent, [Next]_vars
  PROVE  Snapshot'
<1>1. ASSUME NEW r \in Request, Charge(r) PROVE Snapshot'
  <2>1. /\ req'[r].pc # "active" /\ account' = account
        /\ \A q \in Request : q # r => req'[q] = req[q]
    BY <1>1, ChargedShape
  <2> QED BY <2>1, SnapshotStep
<1>2. ASSUME NEW r \in Request, Begin(r) PROVE Snapshot'
  <2>1. req'[r].pc # "active" /\ \A q \in Request : q # r => req'[q] = req[q]
    BY <1>2, BeginShape DEF Onward
  <2> QED BY <1>2, <2>1, SnapshotStep DEF Begin
<1>3. ASSUME NEW r \in Request, Lock(r) PROVE Snapshot'
  <2>1. req'[r].pc # "active" /\ \A q \in Request : q # r => req'[q] = req[q]
    BY <1>3, LockShape DEF Onward
  <2> QED BY <1>3, <2>1, SnapshotStep DEF Lock
<1>4. ASSUME NEW r \in Request, Recheck(r) PROVE Snapshot'
  <2>1. /\ req[r].pc = "locked" /\ req'[r].user = req[r].user
        /\ req'[r].endpoint = req[r].endpoint /\ account' = account
        /\ \A q \in Request : q # r => req'[q] = req[q]
        /\ ~Anonymous(r) => /\ req'[r].session \in sessions
                            /\ req'[r].session.token = req[r].token
    BY <1>4, RecheckShape DEF Onward, Recheck
  <2>2. ~Anonymous(r) =>
          /\ req'[r].session \in Session
          /\ req'[r].session.user = req[r].user
          /\ req'[r].session.password = account[req[r].user].password
    <3>1. sessions \subseteq Session
      BY DEF Basic, TypeOK
    <3>2. ~Anonymous(r) => req'[r].session.user = req[r].user
      BY <2>1 DEF Tokens, Serving, Transacting
    <3> QED BY <2>1, <3>1, <3>2 DEF SessionsCurrent
  <2> QED BY <2>1, <2>2 DEF Snapshot, Anonymous
<1>5. ASSUME NEW r \in Request, Deny(r) \/ Refuse(r) PROVE Snapshot'
  BY <1>5, EndSnapshot DEF Deny, Refuse
<1>6. ASSUME NEW r \in Request, Register(r) PROVE Snapshot'
  BY <1>6, EndSnapshot DEF Register
<1>7. ASSUME NEW r \in Request, Login(r) PROVE Snapshot'
  BY <1>7, EndSnapshot DEF Login
<1>8. ASSUME NEW r \in Request, Verify(r) PROVE Snapshot'
  BY <1>8, EndSnapshot DEF Verify
<1>9. ASSUME NEW r \in Request, StartSetup(r) PROVE Snapshot'
  BY <1>9, EndSnapshot DEF StartSetup
<1>10. ASSUME NEW r \in Request, EnableSetup(r) PROVE Snapshot'
  BY <1>10, EnableSetupShape, EndSnapshot DEF EnableSetup
<1>11. ASSUME NEW r \in Request, Change(r) PROVE Snapshot'
  BY <1>11, ChangeShape, EndSnapshot DEF Change
<1>12. ASSUME (\E s \in sessions : Logout(s)) \/ (\E r \in Request : TakeSession(r))
             \/ Tick \/ UNCHANGED vars PROVE Snapshot'
  BY <1>12 DEF Logout, TakeSession, Tick, vars, Snapshot, Anonymous
<1> QED BY <1>1, <1>2, <1>3, <1>4, <1>5, <1>6, <1>7, <1>8, <1>9, <1>10, <1>11,
           <1>12 DEF Next, Serve
-----------------------------------------------------------------------------
(* Sessions are of today's password and authenticator                      *)

LEMMA InitCurrent == Init => SessionsCurrent
<1> SUFFICES ASSUME Init PROVE SessionsCurrent
  OBVIOUS
<1>1. ASSUME NEW s \in sessions
      PROVE  /\ s.password = account[s.user].password
             /\ s.secret = account[s.user].secret
  <2>1. PICK t \in OldToken, u \in User, v \in BOOLEAN :
          s = OldSession(t, u, v, account[u].secret)
    BY DEF Init
  <2>2. s.user = u /\ s.password = Earlier /\ s.secret = account[u].secret
    BY <2>1 DEF OldSession
  <2>3. account[u] \in {Unregistered, PasswordOnly, TwoFactor}
        /\ account[u].password # None
    BY <2>2 DEF Init
  <2>4. Unregistered.password = None /\ PasswordOnly.password = Earlier
        /\ TwoFactor.password = Earlier
    BY DEF Unregistered, PasswordOnly, TwoFactor
  <2>5. account[u].password = Earlier
    <3>1. account[u] # Unregistered
      BY <2>3, <2>4
    <3> QED BY <2>3, <2>4, <3>1
  <2> QED BY <2>2, <2>5
<1> QED BY <1>1 DEF SessionsCurrent

(* The sessions that u has now are those of a row.                         *)
Fits(u, row) ==
  \A s \in sessions' :
    /\ s.user # u => s \in sessions
    /\ s.user = u => /\ s.password = row.password
                     /\ s.verified => s.secret = row.secret

LEMMA CurrentStep ==
  ASSUME Basic, SessionsCurrent, NEW u \in User, NEW row \in Account,
         account' = [account EXCEPT ![u] = row], Fits(u, row)
  PROVE  SessionsCurrent'
<1> USE DEF Fits
<1> SUFFICES ASSUME NEW s \in sessions'
             PROVE  /\ s.password = account'[s.user].password
                    /\ s.verified => s.secret = account'[s.user].secret
  BY DEF SessionsCurrent
<1>1. CASE s.user = u
  BY <1>1 DEF Basic, TypeOK
<1>2. CASE s.user # u
  <2>1. s \in sessions /\ s.user \in User
    BY <1>2, SessionIsRecord DEF Basic, TypeOK
  <2>2. account'[s.user] = account[s.user]
    BY <1>2, <2>1 DEF Basic, TypeOK
  <2> QED BY <2>1, <2>2 DEF SessionsCurrent
<1> QED BY <1>1, <1>2

LEMMA StepCurrent ==
  ASSUME Basic, Snapshot, SessionsCurrent, [Next]_vars
  PROVE  SessionsCurrent'
<1>1. ASSUME NEW r \in Request, Charge(r) \/ Begin(r) \/ Lock(r) \/ Recheck(r)
                                \/ Deny(r) \/ Refuse(r)
      PROVE  SessionsCurrent'
  BY <1>1 DEF Charge, Begin, Lock, Recheck, Deny, Refuse, SessionsCurrent
<1>2. ASSUME NEW r \in Request, Register(r) PROVE SessionsCurrent'
  <2> DEFINE row == [Unregistered EXCEPT !.password = r]
  <2>1. /\ req[r].user \in User /\ account[req[r].user].password = None
        /\ account' = [account EXCEPT ![req[r].user] = row]
    BY <1>2, ActiveShape DEF Register
  <2>2. row \in Account /\ row.password = r /\ row.secret = None
    BY DEF Unregistered, Account, Origin
  <2>3. \A s \in sessions : s.user # req[r].user
    BY <2>1, SessionIsRecord, NoneIsApart DEF SessionsCurrent, Basic, TypeOK
  <2>4. Added(r, TRUE, r, None)
    BY <1>2, RegisterAdds
  <2> HIDE DEF row
  <2>5. Fits(req[r].user, row)
    <3>1. PICK new \in Session :
            /\ sessions' \subseteq sessions \cup {new}
            /\ new.user = req[r].user /\ new.password = r /\ new.secret = None
      BY <2>4 DEF Added, Rest
    <3> QED BY <2>2, <2>3, <3>1 DEF Fits
  <2> QED BY <2>1, <2>2, <2>5, CurrentStep, Zenon
<1>3. ASSUME NEW r \in Request, Login(r) PROVE SessionsCurrent'
  <2>1. req[r].row = account[req[r].user] /\ account' = account
    BY <1>3, ActiveShape DEF Login
  <2>2. \A s \in sessions' : s \in sessions \/
          (s.user = req[r].user /\ s.password = req[r].row.password
            /\ s.secret = req[r].row.secret)
    BY <1>3, LoginAdds DEF Added, Rest
  <2> QED BY <2>1, <2>2 DEF SessionsCurrent
<1>4. ASSUME NEW r \in Request, Verify(r) PROVE SessionsCurrent'
  <2>1. /\ req[r].user \in User /\ req[r].row = account[req[r].user]
        /\ req[r].row \in Account
    BY <1>4, ActiveShape DEF Verify
  <2>2. PICK f \in Factors(req[r].row) : account' = [account EXCEPT ![req[r].user] = f.row]
    BY <1>4 DEF Verify
  <2>3. /\ f.row \in Account /\ f.row.password = req[r].row.password
        /\ f.row.secret = req[r].row.secret
    BY <2>1, FactorShape
  <2>4. Added(r, TRUE, req[r].session.password, req[r].row.secret)
    BY <1>4, VerifyAdds
  <2>5. req[r].session.password = req[r].row.password
    BY <1>4, <2>1 DEF Snapshot, Anonymous, Verify
  <2>6. req[r].row.secret # None
    BY <1>4 DEF Verify
  <2>7. Fits(req[r].user, f.row)
    <3>1. PICK new \in Session :
            /\ sessions' \subseteq sessions \cup {new} /\ new.user = req[r].user
            /\ new.password = req[r].session.password
            /\ new.secret = req[r].row.secret
      BY <2>4 DEF Added, Rest
    <3>2. \A s \in sessions : s.user = req[r].user =>
            /\ s.password = req[r].row.password
            /\ s.verified => s.secret = req[r].row.secret
      BY <2>1 DEF SessionsCurrent
    <3> QED BY <2>3, <2>5, <3>1, <3>2 DEF Fits
  <2> QED BY <2>1, <2>2, <2>3, <2>7, CurrentStep, Zenon
<1>5. ASSUME NEW r \in Request, StartSetup(r) PROVE SessionsCurrent'
  <2>1. req[r].user \in User /\ req[r].row = account[req[r].user] /\ req[r].row \in Account
    BY <1>5, ActiveShape DEF StartSetup
  <2>2. PICK setup : account' = [account EXCEPT ![req[r].user] =
                                   [req[r].row EXCEPT !.setup = setup]]
    BY <1>5 DEF StartSetup
  <2>3. /\ [req[r].row EXCEPT !.setup = setup].password = req[r].row.password
        /\ [req[r].row EXCEPT !.setup = setup].secret = req[r].row.secret
    BY <2>1 DEF Account
  <2>4. \A u \in User : /\ account'[u].password = account[u].password
                        /\ account'[u].secret = account[u].secret
    BY <2>1, <2>2, <2>3 DEF Basic, TypeOK
  <2>5. sessions' = sessions /\ \A s \in sessions : s.user \in User
    BY <1>5, SessionIsRecord DEF StartSetup, Basic, TypeOK
  <2> QED BY <2>4, <2>5 DEF SessionsCurrent
<1>6. ASSUME NEW r \in Request, EnableSetup(r) PROVE SessionsCurrent'
  <2> DEFINE old == req[r].row
             new == [old EXCEPT !.secret = old.setup.secret, !.setup = None,
                                !.codes = {r} \X (1..CodeCount)]
  <2>1. PICK k \in Nat : /\ account' = [account EXCEPT ![req[r].user] = [new EXCEPT !.last = k]]
                         /\ [new EXCEPT !.last = k] \in Account
    BY <1>6, EnableSetupShape
  <2>2. req[r].user \in User /\ old \in Account
    BY <1>6, ActiveShape DEF EnableSetup
  <2>3. /\ [new EXCEPT !.last = k].password = old.password
        /\ [new EXCEPT !.last = k].secret = old.setup.secret
    BY <2>2 DEF Account
  <2>4. Revoked(r, old.password, old.setup.secret)
    BY <1>6, EnableSetupRevokes
  <2> DEFINE row == [new EXCEPT !.last = k]
  <2>5. Fits(req[r].user, row)
    BY <2>3, <2>4 DEF Revoked, Fits
  <2>6. row \in Account /\ account' = [account EXCEPT ![req[r].user] = row]
    BY <2>1
  <2> HIDE DEF row
  <2> QED BY <2>2, <2>5, <2>6, CurrentStep, Zenon
<1>7. ASSUME NEW r \in Request, Change(r) PROVE SessionsCurrent'
  <2>1. PICK f \in Factors(req[r].row) :
          /\ Changed(r, f.row) \in Account
          /\ account' = [account EXCEPT ![req[r].user] = Changed(r, f.row)]
          /\ Revoked(r, Changed(r, f.row).password, Changed(r, f.row).secret)
    BY <1>7, ChangeShape
  <2>2. req[r].user \in User
    BY <1>7, ActiveShape DEF Change
  <2> DEFINE row == Changed(r, f.row)
  <2>3. row \in Account /\ account' = [account EXCEPT ![req[r].user] = row]
        /\ Revoked(r, row.password, row.secret)
    BY <2>1
  <2> HIDE DEF row
  <2>4. Fits(req[r].user, row)
    BY <2>3 DEF Revoked, Fits
  <2> QED BY <2>2, <2>3, <2>4, CurrentStep, Zenon
<1>8. ASSUME (\E s \in sessions : Logout(s)) \/ (\E r \in Request : TakeSession(r))
             \/ Tick \/ UNCHANGED vars
      PROVE  SessionsCurrent'
  BY <1>8 DEF Logout, TakeSession, Tick, vars, SessionsCurrent
<1> QED BY <1>1, <1>2, <1>3, <1>4, <1>5, <1>6, <1>7, <1>8 DEF Next, Serve
-----------------------------------------------------------------------------
(* The sessions that are kept                                              *)

(* A finite set can be put in order, the newest first; where the times are *)
(* the same, any numbering decides.                                        *)
LEMMA NewestFirst ==
  ASSUME NEW S, IsFiniteSet(S), NEW time, \A s \in S : time[s] \in Nat
  PROVE  \E rank \in Bijection(S, 1..Cardinality(S)) :
           \A s, t \in S : time[t] > time[s] => rank[t] <= rank[s]
<1> DEFINE n == Cardinality(S)
<1>1. n \in Nat /\ ExistsBijection(1..n, S)
  BY FS_CardinalityType
<1>2. PICK num : num \in Injection(S, Nat)
  <2>1. PICK f : f \in Bijection(1..n, S)
    BY <1>1 DEF ExistsBijection
  <2> DEFINE g == [s \in S |-> CHOOSE i \in 1..n : f[i] = s]
  <2>2. \A s \in S : g[s] \in 1..n /\ f[g[s]] = s
    BY <2>1 DEF Bijection, Surjection
  <2>3. \A s, t \in S : g[s] = g[t] => s = t
    BY <2>2
  <2>4. g \in [S -> Nat]
    BY <2>2
  <2> QED BY <2>3, <2>4 DEF Injection, IsInjective
<1> DEFINE First(t, s) == time[t] > time[s] \/ (time[t] = time[s] /\ num[t] <= num[s])
           Upto(s) == {t \in S : First(t, s)}
           rank == [s \in S |-> Cardinality(Upto(s))]
<1>3. /\ \A s \in S : num[s] \in Nat
      /\ \A s, t \in S : num[s] = num[t] => s = t
  BY <1>2 DEF Injection, IsInjective
<1>4. /\ \A s \in S : First(s, s)
      /\ \A s, t \in S : First(s, t) \/ First(t, s)
      /\ \A s, t \in S : First(s, t) /\ First(t, s) => s = t
      /\ \A s, t, u \in S : First(s, t) /\ First(t, u) => First(s, u)
      /\ \A s, t \in S : time[t] > time[s] => First(t, s)
  BY <1>3
<1> HIDE DEF First
<1>5. \A s \in S : IsFiniteSet(Upto(s)) /\ Cardinality(Upto(s)) \in 1..n
  <2> TAKE s \in S
  <2>1. IsFiniteSet(Upto(s)) /\ Cardinality(Upto(s)) <= n
    BY FS_Subset
  <2>2. s \in Upto(s)
    BY <1>4
  <2>3. Cardinality(Upto(s)) \in Nat /\ Cardinality(Upto(s)) # 0
    BY <2>1, <2>2, FS_CardinalityType, FS_EmptySet
  <2> QED BY <1>1, <2>1, <2>3
<1>6. \A s, t \in S : First(t, s) => Upto(t) \subseteq Upto(s)
  BY <1>4
<1>7. \A s, t \in S : First(t, s) => Cardinality(Upto(t)) <= Cardinality(Upto(s))
  BY <1>5, <1>6, FS_Subset
<1>8. ASSUME NEW s \in S, NEW t \in S, First(t, s),
             Cardinality(Upto(t)) = Cardinality(Upto(s))
      PROVE  s = t
  <2>1. Upto(t) = Upto(s)
    BY <1>5, <1>6, <1>8, FS_Subset
  <2>2. First(s, t)
    BY <1>4, <2>1
  <2> QED BY <1>4, <1>8, <2>2
<1>9. rank \in Injection(S, 1..n)
  <2>1. rank \in [S -> 1..n]
    BY <1>5
  <2>2. \A s, t \in S : rank[s] = rank[t] => s = t
    <3> HIDE DEF Upto
    <3> QED BY <1>4, <1>8
  <2> QED BY <2>1, <2>2 DEF Injection, IsInjective
<1>10. rank \in Surjection(S, 1..n)
  BY <1>1, <1>9, FS_Interval, FS_Injection
<1>11. rank \in Bijection(S, 1..n)
  BY <1>9, <1>10 DEF Bijection
<1>12. \A s, t \in S : time[t] > time[s] => rank[t] <= rank[s]
  BY <1>4, <1>7
<1> HIDE DEF rank, n
<1>13. \E x \in Bijection(S, 1..n) : \A s, t \in S : time[t] > time[s] => x[t] <= x[s]
  BY <1>11, <1>12
<1> QED BY <1>13 DEF n

(* Whatever sessions a user has, there is a choice of those to keep.       *)
LEMMA NewestExist ==
  ASSUME NEW S, IsFiniteSet(S), \A s \in S : s.created \in Nat
  PROVE  Newest(S) # {}
<1> DEFINE n == Cardinality(S)
           most == MaxSessions - 1
           time == [s \in S |-> s.created]
<1>1. n \in Nat /\ most \in Nat
  BY FS_CardinalityType, NumbersAreNat
<1>2. \A s \in S : time[s] \in Nat
  OBVIOUS
<1>3. PICK rank \in Bijection(S, 1..n) :
        \A s, t \in S : time[t] > time[s] => rank[t] <= rank[s]
  <2> HIDE DEF time
  <2> QED BY <1>2, NewestFirst
<1>4. /\ \A s \in S : rank[s] \in 1..n
      /\ \A i \in 1..n : \E s \in S : rank[s] = i
      /\ \A s, t \in S : rank[s] = rank[t] => s = t
  BY <1>3 DEF Bijection, Injection, IsInjective, Surjection
<1> DEFINE K == {s \in S : rank[s] <= most}
           m == IF n <= most THEN n ELSE most
           r == [s \in K |-> rank[s]]
<1>5. K \in SUBSET S /\ IsFiniteSet(K) /\ Cardinality(K) \in Nat
  BY FS_Subset, FS_CardinalityType
<1>6. Cardinality(K) = m
  <2>1. m \in Nat /\ IsFiniteSet(1..m) /\ Cardinality(1..m) = m
    <3>1. m \in Nat
      BY <1>1
    <3> HIDE DEF m
    <3> QED BY <3>1, FS_Interval
  <2>2. r \in [K -> 1..m]
    BY <1>1, <1>4
  <2>3. \A s, t \in K : r[s] = r[t] => s = t
    BY <1>4
  <2>4. \A i \in 1..m : \E s \in K : r[s] = i
    BY <1>1, <1>4
  <2> HIDE DEF r, K, m
  <2>5. r \in Injection(K, 1..m) /\ r \in Surjection(K, 1..m)
    BY <2>2, <2>3, <2>4 DEF Injection, IsInjective, Surjection
  <2> QED BY <2>1, <2>5, FS_Injection
<1>7. K # S => Cardinality(K) = most
  BY <1>1, <1>4, <1>6
<1>8. \A kept \in K, dropped \in S \ K : dropped.created <= kept.created
  <2> SUFFICES ASSUME NEW a \in K, NEW b \in S \ K, b.created > a.created
               PROVE  FALSE
    BY <1>2
  <2>1. rank[b] <= rank[a]
    BY <1>3
  <2> QED BY <1>1, <1>4, <2>1
<1> HIDE DEF K
<1> QED BY <1>1, <1>5, <1>6, <1>7, <1>8 DEF Newest
-----------------------------------------------------------------------------
(* The number of sessions                                                  *)

Few(u, S) == IsFiniteSet(Of(u, S)) /\ Cardinality(Of(u, S)) <= MaxSessions

Bounded == \A u \in User : Few(u, sessions)

LEMMA FewerStillFew ==
  ASSUME NEW u \in User, NEW S, NEW T, Few(u, S), Of(u, T) \subseteq Of(u, S)
  PROVE  Few(u, T)
<1>1. /\ IsFiniteSet(Of(u, T)) /\ Cardinality(Of(u, T)) <= Cardinality(Of(u, S))
  BY FS_Subset DEF Few
<1>2. /\ Cardinality(Of(u, T)) \in Nat /\ Cardinality(Of(u, S)) \in Nat
  BY <1>1, FS_CardinalityType DEF Few
<1> QED BY <1>1, <1>2, NumbersAreNat DEF Few

LEMMA InitBounded == Init => Bounded
<1> SUFFICES ASSUME Init, NEW u \in User PROVE Few(u, sessions)
  BY DEF Bounded
<1>1. ASSUME NEW v \in BOOLEAN
      PROVE  IsFiniteSet({OldSession(t, u, v, account[u].secret) : t \in OldToken})
  <2> DEFINE T == {OldSession(t, u, v, account[u].secret) : t \in OldToken}
             f == [t \in OldToken |-> OldSession(t, u, v, account[u].secret)]
  <2>1. f \in Surjection(OldToken, T)
    BY DEF Surjection
  <2> HIDE DEF f
  <2> QED BY <2>1, AccountsAssumption, FS_Surjection
<1> DEFINE A == {OldSession(t, u, TRUE, account[u].secret) : t \in OldToken}
           B == {OldSession(t, u, FALSE, account[u].secret) : t \in OldToken}
<1>2. IsFiniteSet(A \cup B)
  BY <1>1, FS_Union
<1>3. Of(u, sessions) \subseteq A \cup B
  <2> SUFFICES ASSUME NEW s \in sessions, s.user = u PROVE s \in A \cup B
    BY DEF Of
  <2>1. PICK t \in OldToken, w \in User, v \in BOOLEAN :
          s = OldSession(t, w, v, account[w].secret)
    BY DEF Init
  <2>2. w = u
    BY <2>1 DEF OldSession
  <2> QED BY <2>1, <2>2
<1>4. IsFiniteSet(Of(u, sessions))
  BY <1>2, <1>3, FS_Subset
<1> QED BY <1>4 DEF Init, Few, Of

(* What one element does to a number.                                      *)
LEMMA OneMore ==
  ASSUME NEW S, NEW e, IsFiniteSet(S)
  PROVE  IsFiniteSet(S \cup {e}) /\ Cardinality(S \cup {e}) <= Cardinality(S) + 1
<1>1. Cardinality(S) \in Nat
  BY FS_CardinalityType
<1> QED BY <1>1, FS_AddElement

LEMMA AddedBounded ==
  ASSUME TypeOK, Bounded, NEW r \in Request, req[r].user \in User,
         NEW verified, NEW password, NEW secret,
         Added(r, verified, password, secret),
         Cardinality(Of(req[r].user, Rest(r))) <= MaxSessions - 1
  PROVE  Bounded'
<1>1. PICK new \in Session :
        sessions' = Rest(r) \cup {new} /\ new.user = req[r].user /\ Rest(r) \subseteq sessions
  BY DEF Added, Rest
<1> SUFFICES ASSUME NEW u \in User PROVE Few(u, sessions')
  BY DEF Bounded, Few, Of
<1>2. Few(u, sessions)
  BY DEF Bounded
<1>3. CASE u # req[r].user
  <2>1. Of(u, sessions') \subseteq Of(u, sessions)
    BY <1>1, <1>3 DEF Of
  <2> QED BY <1>2, <2>1, FewerStillFew
<1>4. CASE u = req[r].user
  <2> DEFINE K == Of(u, Rest(r))
  <2>1. K \subseteq Of(u, sessions)
    BY <1>1 DEF Of
  <2>2. IsFiniteSet(K)
    BY <1>2, <2>1, FS_Subset DEF Few
  <2>3. Of(u, sessions') = K \cup {new}
    BY <1>1, <1>4 DEF Of
  <2>4. Cardinality(K) <= MaxSessions - 1
    BY <1>4
  <2> HIDE DEF K
  <2>5. Cardinality(K) \in Nat
    BY <2>2, FS_CardinalityType
  <2>6. /\ IsFiniteSet(K \cup {new})
        /\ Cardinality(K \cup {new}) <= Cardinality(K) + 1
    BY <2>2, OneMore
  <2>7. Cardinality(K \cup {new}) \in Nat
    BY <2>6, FS_CardinalityType
  <2>8. Cardinality(K \cup {new}) <= MaxSessions
    BY <2>4, <2>5, <2>6, <2>7, NumbersAreNat
  <2> QED BY <2>3, <2>6, <2>8 DEF Few
<1> QED BY <1>3, <1>4

(* What its DELETE statements leave of the user's sessions leaves room for *)
(* a new one.                                                              *)
LEMMA RoomMade ==
  ASSUME TypeOK, Bounded, NEW r \in Request, req[r].user \in User,
         req[r].endpoint \in {"register", "login", "verify"}, Doomed(r) = {}
  PROVE  Cardinality(Of(req[r].user, Rest(r))) <= MaxSessions - 1
<1> DEFINE S == Of(req[r].user, Rest(r))
<1>1. Surplus(S) = {}
  BY DEF Doomed, Sensitive
<1>2. S \subseteq Of(req[r].user, sessions) /\ S \subseteq Session
  BY DEF Of, Rest, TypeOK
<1>3. IsFiniteSet(S) /\ \A s \in S : s.created \in Nat
  BY <1>2, FS_Subset, SessionIsRecord DEF Bounded, Few
<1> HIDE DEF S
<1>4. PICK K \in Newest(S) : TRUE
  BY <1>3, NewestExist
<1>5. S \ K = {} /\ K \subseteq S /\ Cardinality(K) <= MaxSessions - 1
  BY <1>1, <1>4 DEF Surplus, Newest
<1>6. K = S
  BY <1>5
<1> QED BY <1>5, <1>6 DEF S

LEMMA RevokedBounded ==
  ASSUME TypeOK, Bounded, NEW r \in Request, NEW password, NEW secret,
         Revoked(r, password, secret)
  PROVE  Bounded'
<1> SUFFICES ASSUME NEW u \in User PROVE Few(u, sessions')
  BY DEF Bounded, Few, Of
<1>1. Few(u, sessions)
  BY DEF Bounded
<1>2. CASE u # req[r].user
  <2>1. Of(u, sessions') \subseteq Of(u, sessions)
    BY <1>2 DEF Of, Revoked
  <2> QED BY <1>1, <2>1, FewerStillFew
<1>3. CASE u = req[r].user
  <2> DEFINE S == Of(u, sessions)
             f == [x \in S |-> [x EXCEPT !.password = password, !.secret = secret]]
             T == {f[x] : x \in S}
  <2>1. f \in Surjection(S, T)
    BY DEF Surjection
  <2>2. ASSUME NEW s \in Of(u, sessions') PROVE s \in T
    <3>1. s \in sessions' /\ s.user = req[r].user
      BY <1>3 DEF Of
    <3>2. PICK x \in sessions : x.user = s.user /\ s = [x EXCEPT !.password = password,
                                                           !.secret = secret]
      BY <3>1 DEF Revoked
    <3>3. x \in S
      BY <1>3, <3>1, <3>2 DEF Of
    <3>4. f[x] = [x EXCEPT !.password = password, !.secret = secret]
      BY <3>3, Zenon
    <3> HIDE DEF f, S
    <3> QED BY <3>2, <3>3, <3>4
  <2>3. IsFiniteSet(S) /\ Cardinality(S) <= MaxSessions
    BY <1>1 DEF Few
  <2> HIDE DEF S, f, T
  <2>4. IsFiniteSet(T) /\ Cardinality(T) <= Cardinality(S)
    BY <2>1, <2>3, FS_Surjection
  <2>5. IsFiniteSet(Of(u, sessions')) /\ Cardinality(Of(u, sessions')) <= Cardinality(T)
    BY <2>2, <2>4, FS_Subset
  <2>6. /\ Cardinality(S) \in Nat /\ Cardinality(T) \in Nat
        /\ Cardinality(Of(u, sessions')) \in Nat
    BY <2>3, <2>4, <2>5, FS_CardinalityType
  <2> QED BY <2>3, <2>4, <2>5, <2>6, NumbersAreNat DEF Few
<1> QED BY <1>2, <1>3

LEMMA StepBounded ==
  ASSUME Basic, Snapshot, Bounded, [Next]_vars
  PROVE  Bounded'
<1> USE DEF Basic
<1>1. ASSUME sessions' \subseteq sessions PROVE Bounded'
  <2> SUFFICES ASSUME NEW u \in User PROVE Few(u, sessions')
    BY DEF Bounded, Few, Of
  <2>1. Few(u, sessions) /\ Of(u, sessions') \subseteq Of(u, sessions)
    BY <1>1 DEF Bounded, Of
  <2> QED BY <2>1, FewerStillFew
<1>2. ASSUME NEW r \in Request,
             \/ Charge(r) \/ Begin(r) \/ Lock(r) \/ Recheck(r) \/ Deny(r)
             \/ Refuse(r) \/ StartSetup(r)
      PROVE  Bounded'
  BY <1>1, <1>2 DEF Charge, Begin, Lock, Recheck, Deny, Refuse, StartSetup
<1>3. ASSUME NEW r \in Request, Register(r) PROVE Bounded'
  <2>1. req[r].user \in User /\ Cardinality(Of(req[r].user, Rest(r))) <= MaxSessions - 1
    BY <1>3, ActiveShape, RoomMade DEF Register, NewSession
  <2> QED BY <1>3, <2>1, RegisterAdds, AddedBounded
<1>4. ASSUME NEW r \in Request, Login(r) PROVE Bounded'
  <2>1. req[r].user \in User /\ Cardinality(Of(req[r].user, Rest(r))) <= MaxSessions - 1
    BY <1>4, ActiveShape, RoomMade DEF Login, NewSession
  <2> QED BY <1>4, <2>1, LoginAdds, AddedBounded
<1>5. ASSUME NEW r \in Request, Verify(r) PROVE Bounded'
  <2>1. req[r].user \in User /\ Cardinality(Of(req[r].user, Rest(r))) <= MaxSessions - 1
    BY <1>5, ActiveShape, RoomMade DEF Verify, NewSession
  <2> QED BY <1>5, <2>1, VerifyAdds, AddedBounded
<1>6. ASSUME NEW r \in Request, EnableSetup(r) PROVE Bounded'
  BY <1>6, EnableSetupRevokes, RevokedBounded
<1>7. ASSUME NEW r \in Request, Change(r) PROVE Bounded'
  BY <1>7, ChangeShape, RevokedBounded
<1>8. ASSUME (\E s \in sessions : Logout(s)) \/ (\E r \in Request : TakeSession(r))
             \/ Tick \/ UNCHANGED vars
      PROVE  Bounded'
  BY <1>1, <1>8 DEF Logout, TakeSession, Tick, vars
<1> QED BY <1>2, <1>3, <1>4, <1>5, <1>6, <1>7, <1>8 DEF Next, Serve
-----------------------------------------------------------------------------
(* Codes                                                                   *)

(* What exists was created in the beginning or by a request that is done.  *)
Done == {Earlier} \cup {r \in Request : req[r].pc = "done"}

SpentCode == [user : User, code : Origin \X Int \X {"step", "recovery"}, by : Request]

(* What the row of u would still accept has not been spent from S, and     *)
(* what it holds has its origin in D.                                      *)
Clean(u, row, S, D) ==
  /\ row.secret # None => row.secret \in D
  /\ row.setup # None => row.secret = None /\ row.setup.secret \in D
  /\ \A c \in row.codes : c[1] \in D
  /\ \A e \in S : e.user = u =>
       /\ e.code[3] = "step" /\ row.setup # None => e.code[1] # row.setup.secret
       /\ e.code[3] = "step" /\ e.code[1] = row.secret => e.code[2] <= row.last
       /\ e.code[3] = "recovery" => <<e.code[1], e.code[2]>> \notin row.codes

Fresh ==
  /\ \A u \in User : Clean(u, account[u], spent, Done)
  /\ \A e \in spent : e.code[1] \in Done /\ e.by \in Done
  /\ CodesOnce

(* The codes that r spends.                                                *)
SpentBy(by, u, used) == {[user |-> u, code |-> c, by |-> by] : c \in used}
Spending(r, used) == SpentBy(r, req[r].user, used)

LEMMA CleanLater ==
  ASSUME NEW u, NEW row, NEW S, NEW D, NEW E, Clean(u, row, S, D), D \subseteq E
  PROVE  Clean(u, row, S, E)
BY DEF Clean

LEMMA CleanApart ==
  ASSUME NEW u, NEW row, NEW S, NEW T, NEW D, Clean(u, row, S, D),
         \A e \in T : e \in S \/ e.user # u
  PROVE  Clean(u, row, T, D)
BY DEF Clean

(* A row with neither secret, set-up nor codes.                            *)
LEMMA CleanBare ==
  ASSUME NEW u, NEW row, NEW S \in SUBSET SpentCode, NEW D,
         row.secret = None, row.setup = None, row.codes = {}
  PROVE  Clean(u, row, S, D)
BY NoneIsApart DEF Clean, SpentCode

LEMMA FreshStays ==
  ASSUME Fresh, account' = account, spent' = spent, Done \subseteq Done'
  PROVE  Fresh'
<1>1. \A u \in User : Clean(u, account[u], spent, Done')
  BY CleanLater DEF Fresh
<1>2. CodesOnce'
  BY DEF Fresh, CodesOnce
<1>3. \A u \in User : Clean(u, account'[u], spent', Done')
  BY <1>1
<1>4. \A e \in spent' : e.code[1] \in Done' /\ e.by \in Done'
  BY DEF Fresh
<1> HIDE DEF Done
<1> QED BY <1>2, <1>3, <1>4 DEF Fresh

LEMMA FreshCommit ==
  ASSUME Basic, Fresh, NEW r \in Request, r \notin Done, Done' = Done \cup {r},
         req[r].user \in User, NEW row \in Account, NEW used,
         account' = [account EXCEPT ![req[r].user] = row],
         spent' = spent \cup Spending(r, used),
         \A c \in used : /\ c[1] \in Done
                         /\ \A e \in spent : e.user = req[r].user => e.code # c,
         Clean(req[r].user, row, spent', Done')
  PROVE  Fresh'
<1> DEFINE u == req[r].user
           D == Done'
<1>1. ASSUME NEW v \in User PROVE Clean(v, account'[v], spent', D)
  <2>1. CASE v = u
    <3>1. account'[v] = row
      BY <2>1 DEF Basic, TypeOK
    <3> QED BY <2>1, <3>1
  <2>2. CASE v # u
    <3>1. account'[v] = account[v]
      BY <2>2 DEF Basic, TypeOK
    <3>2. Clean(v, account[v], spent, D)
      BY CleanLater DEF Fresh
    <3>3. \A e \in spent' : e \in spent \/ e.user # v
      BY <2>2 DEF Spending, SpentBy
    <3> QED BY <3>1, <3>2, <3>3, CleanApart
  <2> QED BY <2>1, <2>2
<1>2. \A e \in spent' : e.code[1] \in D /\ e.by \in D
  BY DEF Fresh, Spending, SpentBy
<1>3. ASSUME NEW a \in spent', NEW b \in spent', a.user = b.user, a.code = b.code
      PROVE  a.by = b.by
  BY <1>3 DEF Fresh, CodesOnce, Spending, SpentBy
<1>4. CodesOnce'
  BY <1>3 DEF CodesOnce
<1> HIDE DEF Done
<1> QED BY <1>1, <1>2, <1>4 DEF Fresh

(* A second factor is good once, and leaves the row clean.                 *)
UsedOnce(u, used, S, D) ==
  \A c \in used : c[1] \in D /\ \A e \in S : e.user = u => e.code # c

LEMMA FactorFresh ==
  ASSUME NEW u \in User, NEW row \in Account, NEW f \in Factors(row),
         NEW S \in SUBSET SpentCode, NEW D, NEW by, Clean(u, row, S, D)
  PROVE  /\ UsedOnce(u, f.used, S, D)
         /\ Clean(u, f.row, S \cup SpentBy(by, u, f.used), D)
<1> USE DEF UsedOnce, SpentBy
<1>1. /\ f.row \in Account /\ f.row.secret = row.secret /\ f.row.setup = row.setup
      /\ \/ f.row = row /\ f.used = {} /\ row.secret = None
         \/ \E k \in Nat : /\ k > row.last /\ f.row.last = k /\ f.row.codes = row.codes
                           /\ row.secret # None
                           /\ f.used = {<<row.secret, k, "step">>}
         \/ \E c \in row.codes : /\ f.row.last = row.last
                                 /\ row.secret # None
                                 /\ f.row.codes = row.codes \ {c}
                                 /\ f.used = {<<c[1], c[2], "recovery">>}
  BY FactorShape
<1>2. CASE f.row = row /\ f.used = {}
  BY <1>2
<1>3. CASE \E k \in Nat : /\ k > row.last /\ f.row.last = k /\ f.row.codes = row.codes
                          /\ row.secret # None
                          /\ f.used = {<<row.secret, k, "step">>}
  <2>1. PICK k \in Nat : /\ k > row.last /\ f.row.last = k /\ f.row.codes = row.codes
                         /\ row.secret # None
                         /\ f.used = {<<row.secret, k, "step">>}
    BY <1>3
  <2>2. row.last \in Int /\ row.setup = None /\ row.secret \in D
    BY <2>1 DEF Account, Clean
  <2>3. ASSUME NEW e \in S, e.user = u
        PROVE  e.code # <<row.secret, k, "step">>
    <3>1. SUFFICES ASSUME e.code = <<row.secret, k, "step">> PROVE FALSE
      OBVIOUS
    <3>2. e.code[1] = row.secret /\ e.code[2] = k /\ e.code[3] = "step"
      BY <3>1
    <3>3. k <= row.last
      BY <2>3, <3>2 DEF Clean
    <3> QED BY <2>1, <2>2, <3>3
  <2>4. ASSUME NEW e \in S, e.user = u, e.code[3] = "step", e.code[1] = row.secret
        PROVE  e.code[2] <= k
    <3>1. e.code[2] <= row.last /\ e.code[2] \in Int
      BY <2>4 DEF Clean, SpentCode
    <3> QED BY <2>1, <2>2, <3>1
  <2>5. Clean(u, f.row, S \cup {[user |-> u, code |-> c, by |-> by] : c \in f.used}, D)
    BY <1>1, <2>1, <2>2, <2>4 DEF Clean
  <2> QED BY <2>1, <2>2, <2>3, <2>5
<1>4. CASE \E c \in row.codes : /\ f.row.last = row.last
                                /\ row.secret # None
                                /\ f.row.codes = row.codes \ {c}
                                /\ f.used = {<<c[1], c[2], "recovery">>}
  <2>1. PICK c \in row.codes : /\ f.row.last = row.last
                               /\ row.secret # None
                               /\ f.row.codes = row.codes \ {c}
                               /\ f.used = {<<c[1], c[2], "recovery">>}
    BY <1>4
  <2>2. c = <<c[1], c[2]>> /\ c[1] \in D
    BY DEF Account, Code, Clean
  <2>3. \A e \in S : e.user = u => e.code # <<c[1], c[2], "recovery">>
    BY <2>2 DEF Clean
  <2>4. Clean(u, f.row, S \cup {[user |-> u, code |-> x, by |-> by] : x \in f.used}, D)
    BY <1>1, <2>1, <2>2 DEF Clean
  <2> QED BY <2>1, <2>2, <2>3, <2>4
<1> QED BY <1>1, <1>2, <1>3, <1>4

LEMMA SpendingFresh ==
  ASSUME NEW r \in Request, req[r].user \in User, NEW row \in Account,
         NEW f \in Factors(row), NEW S \in SUBSET SpentCode, NEW D, NEW T,
         T = S \cup Spending(r, f.used), Clean(req[r].user, row, S, D)
  PROVE  UsedOnce(req[r].user, f.used, S, D) /\ Clean(req[r].user, f.row, T, D)
<1> DEFINE u == req[r].user
<1>1. T = S \cup SpentBy(r, u, f.used)
  BY DEF Spending
<1>2. u \in User /\ Clean(u, row, S, D)
  OBVIOUS
<1> HIDE DEF u
<1>3. UsedOnce(u, f.used, S, D) /\ Clean(u, f.row, S \cup SpentBy(r, u, f.used), D)
  BY <1>2, FactorFresh
<1> QED BY <1>1, <1>3 DEF u

(* So do the other changes: the codes they hand out are new.               *)
LEMMA ChangedClean ==
  ASSUME NEW u, NEW r \in Request, NEW row \in Account, row.password \in Origin,
         NEW S \in SUBSET SpentCode, NEW D, Clean(u, row, S, D),
         \A e \in S : e.code[1] \in D, r \notin D
  PROVE  Clean(u, Changed(r, row), S, D \cup {r})
<1> DEFINE new == Changed(r, row)
<1>1. /\ new.secret \in {None, row.secret}
      /\ new.setup \in {None, row.setup}
      /\ new.codes \in {{}, row.codes, {r} \X (1..CodeCount)}
      /\ new.secret # None => new.last = row.last
  BY ChangedShape
<1> HIDE DEF new
<1>2. \A e \in S : e.code[1] \in Origin /\ e.code[1] # None
  BY NoneIsApart DEF SpentCode
<1>3. new.secret # None => new.secret \in D \cup {r}
  BY <1>1 DEF Clean
<1>4. new.setup # None => new.secret = None /\ new.setup.secret \in D \cup {r}
  BY <1>1 DEF Clean
<1>5. \A c \in new.codes : c[1] \in D \cup {r}
  BY <1>1 DEF Clean
<1>6. ASSUME NEW e \in S, e.user = u
      PROVE  /\ e.code[3] = "step" /\ new.setup # None => e.code[1] # new.setup.secret
             /\ e.code[3] = "step" /\ e.code[1] = new.secret => e.code[2] <= new.last
             /\ e.code[3] = "recovery" => <<e.code[1], e.code[2]>> \notin new.codes
  <2>1. e.code[3] = "step" /\ new.setup # None => e.code[1] # new.setup.secret
    BY <1>1, <1>6 DEF Clean
  <2>2. e.code[3] = "step" /\ e.code[1] = new.secret => e.code[2] <= new.last
    BY <1>1, <1>2, <1>6 DEF Clean
  <2>3. e.code[3] = "recovery" => <<e.code[1], e.code[2]>> \notin new.codes
    BY <1>1, <1>6 DEF Clean
  <2> QED BY <2>1, <2>2, <2>3
<1>7. Clean(u, new, S, D \cup {r})
  BY <1>3, <1>4, <1>5, <1>6 DEF Clean
<1> QED BY <1>7 DEF new

LEMMA EndDone ==
  ASSUME TypeOK, NEW r \in Request, End(r, "done"), req[r].pc = "active"
  PROVE  r \notin Done /\ Done' = Done \cup {r}
<1>1. req'[r].pc = "done" /\ \A q \in Request : q # r => req'[q] = req[q]
  BY EndShape
<1>2. r # Earlier
  BY AccountsAssumption
<1> QED BY <1>1, <1>2 DEF Done

LEMMA InitFresh == Init => Fresh
<1> SUFFICES ASSUME Init PROVE Fresh
  OBVIOUS
<1>1. ASSUME NEW u \in User PROVE Clean(u, account[u], {}, Done)
  <2>1. account[u] \in {Unregistered, PasswordOnly, TwoFactor}
    BY DEF Init
  <2>2. /\ Unregistered.secret = None /\ Unregistered.setup = None
        /\ Unregistered.codes = {}
        /\ PasswordOnly.secret = None /\ PasswordOnly.setup = None
        /\ PasswordOnly.codes = {}
        /\ TwoFactor.secret = Earlier /\ TwoFactor.setup = None
        /\ TwoFactor.codes = {Earlier} \X (1..CodeCount)
    BY DEF Unregistered, PasswordOnly, TwoFactor
  <2>3. Earlier \in Done
    BY DEF Done
  <2> HIDE DEF Done
  <2> QED BY <2>1, <2>2, <2>3 DEF Clean
<1>2. spent = {} /\ CodesOnce
  BY DEF Init, CodesOnce
<1> HIDE DEF Done
<1> QED BY <1>1, <1>2 DEF Fresh

LEMMA StepFresh ==
  ASSUME Basic, Fresh, [Next]_vars
  PROVE  Fresh'
<1> USE DEF Basic
<1>0. /\ spent \in SUBSET SpentCode
      /\ \A e \in spent : e.code[1] \in Done
  BY DEF TypeOK, SpentCode, Fresh
<1>1. ASSUME NEW r \in Request, NEW pc \in {"done", "refused"}, End(r, pc),
             req[r].pc # "done", UNCHANGED <<account, spent>>
      PROVE  Fresh'
  <2>1. \A q \in Request : q # r => req'[q] = req[q]
    BY <1>1, EndShape
  <2>2. Done \subseteq Done'
    BY <1>1, <2>1 DEF Done
  <2> QED BY <1>1, <2>2, FreshStays
<1>2. ASSUME NEW r \in Request, Charge(r) PROVE Fresh'
  <2>1. req[r].pc = "new" /\ \A q \in Request : q # r => req'[q] = req[q]
    BY <1>2, ChargedShape
  <2>2. Done \subseteq Done'
    BY <2>1 DEF Done
  <2> QED BY <1>2, <2>2, FreshStays DEF Charge
<1>3. ASSUME NEW r \in Request, Begin(r) \/ Lock(r) \/ Recheck(r) PROVE Fresh'
  <2>1. req[r].pc # "done" /\ \A q \in Request : q # r => req'[q] = req[q]
    BY <1>3, BeginShape, LockShape, RecheckShape DEF Onward
  <2>2. Done \subseteq Done'
    BY <2>1 DEF Done
  <2> QED BY <1>3, <2>2, FreshStays DEF Begin, Lock, Recheck
<1>4. ASSUME NEW r \in Request, Deny(r) \/ Refuse(r) \/ Login(r) PROVE Fresh'
  <2>1. req[r].pc # "done"
    BY <1>4 DEF Deny, Denied, Refuse, Login
  <2> QED BY <1>1, <1>4, <2>1 DEF Deny, Refuse, Login
<1>5. ASSUME NEW r \in Request, Register(r) PROVE Fresh'
  <2> DEFINE row == [Unregistered EXCEPT !.password = r]
  <2>1. /\ req[r].user \in User /\ End(r, "done") /\ req[r].pc = "active"
        /\ account' = [account EXCEPT ![req[r].user] = row] /\ spent' = spent
    BY <1>5, ActiveShape DEF Register
  <2>2. /\ row \in Account /\ row.secret = None /\ row.setup = None /\ row.codes = {}
    BY DEF Unregistered, Account, Origin
  <2>3. r \notin Done /\ Done' = Done \cup {r}
    BY <2>1, EndDone
  <2>4. spent' = spent \cup Spending(r, {})
    BY <2>1 DEF Spending, SpentBy
  <2> HIDE DEF row
  <2>5. Clean(req[r].user, row, spent', Done')
    BY <1>0, <2>1, <2>2, CleanBare
  <2> QED BY <2>1, <2>2, <2>3, <2>4, <2>5, FreshCommit
<1>6. ASSUME NEW r \in Request, Verify(r) PROVE Fresh'
  <2>1. /\ req[r].user \in User /\ req[r].row = account[req[r].user]
        /\ req[r].row \in Account /\ End(r, "done") /\ req[r].pc = "active"
    BY <1>6, ActiveShape DEF Verify
  <2>2. PICK f \in Factors(req[r].row) :
          account' = [account EXCEPT ![req[r].user] = f.row] /\ Spend(r, f.used)
    BY <1>6 DEF Verify
  <2>3. r \notin Done /\ Done' = Done \cup {r}
    BY <2>1, EndDone
  <2>4. f.row \in Account
    BY <2>1, FactorShape
  <2>5. spent' = spent \cup Spending(r, f.used)
    BY <2>2 DEF Spend, Spending, SpentBy
  <2>6. Clean(req[r].user, req[r].row, spent, Done)
    BY <2>1 DEF Fresh
  <2>7. /\ UsedOnce(req[r].user, f.used, spent, Done)
        /\ Clean(req[r].user, f.row, spent', Done)
    BY <1>0, <2>1, <2>5, <2>6, SpendingFresh, Zenon
  <2>8. Clean(req[r].user, f.row, spent', Done')
    BY <2>3, <2>7, CleanLater
  <2> QED BY <2>1, <2>2, <2>3, <2>4, <2>5, <2>7, <2>8, FreshCommit DEF UsedOnce
<1>7. ASSUME NEW r \in Request, Change(r) PROVE Fresh'
  <2>1. /\ req[r].user \in User /\ req[r].row = account[req[r].user]
        /\ req[r].row \in Account /\ End(r, "done") /\ req[r].pc = "active"
    BY <1>7, ActiveShape DEF Change
  <2>2. PICK f \in Factors(req[r].row) :
          /\ f.row \in Account /\ f.row.password \in Origin
          /\ Changed(r, f.row) \in Account
          /\ account' = [account EXCEPT ![req[r].user] = Changed(r, f.row)]
          /\ Spend(r, f.used)
    BY <1>7, ChangeShape
  <2>3. r \notin Done /\ Done' = Done \cup {r}
    BY <2>1, EndDone
  <2>4. spent' = spent \cup Spending(r, f.used)
    BY <2>2 DEF Spend, Spending, SpentBy
  <2>5. Clean(req[r].user, req[r].row, spent, Done)
    BY <2>1 DEF Fresh
  <2>6. /\ UsedOnce(req[r].user, f.used, spent, Done)
        /\ Clean(req[r].user, f.row, spent', Done)
    BY <1>0, <2>1, <2>4, <2>5, SpendingFresh, Zenon
  <2>7. spent' \in SUBSET SpentCode
    BY <1>7, ChangeBasic DEF TypeOK, SpentCode
  <2>8. \A e \in spent' : e.code[1] \in Done
    BY <1>0, <2>4, <2>6 DEF Spending, SpentBy, UsedOnce
  <2>9. Clean(req[r].user, Changed(r, f.row), spent', Done')
    BY <2>2, <2>3, <2>6, <2>7, <2>8, ChangedClean
  <2> QED BY <2>1, <2>2, <2>3, <2>4, <2>6, <2>9, FreshCommit DEF UsedOnce
<1>8. ASSUME NEW r \in Request, StartSetup(r) PROVE Fresh'
  <2> DEFINE setup == [secret |-> r, until |-> req[r].begun + SetupLife,
                       session |-> req[r].token]
             row == [req[r].row EXCEPT !.setup = setup]
  <2>1. /\ req[r].user \in User /\ req[r].row = account[req[r].user]
        /\ req[r].row \in Account /\ End(r, "done") /\ req[r].pc = "active"
        /\ req[r].row.secret = None /\ spent' = spent
        /\ account' = [account EXCEPT ![req[r].user] = row]
    BY <1>8, ActiveShape DEF StartSetup
  <2>2. r \notin Done /\ Done' = Done \cup {r}
    BY <2>1, EndDone
  <2>3. /\ row.secret = None /\ row.setup.secret = r
        /\ row.codes = req[r].row.codes
    BY <2>1 DEF Account
  <2>4. row \in Account
    <3>1. account'[req[r].user] = row
      BY <2>1 DEF TypeOK
    <3>2. account' \in [User -> Account]
      BY <1>8, StartSetupBasic DEF TypeOK
    <3> QED BY <2>1, <3>1, <3>2
  <2>5. Clean(req[r].user, req[r].row, spent, Done)
    BY <2>1 DEF Fresh
  <2> DEFINE used == {}
  <2>6. spent' = spent \cup Spending(r, used)
    BY <2>1 DEF Spending, SpentBy
  <2> HIDE DEF row
  <2>7. \A e \in spent : e.code[1] # None
    BY NoneIsApart DEF TypeOK
  <2>8. ASSUME NEW e \in spent, e.user = req[r].user
        PROVE  /\ e.code[1] # row.setup.secret
               /\ e.code[1] # row.secret
               /\ e.code[3] = "recovery" => <<e.code[1], e.code[2]>> \notin row.codes
    BY <1>0, <2>2, <2>3, <2>5, <2>7, <2>8 DEF Clean
  <2>9. \A c \in row.codes : c[1] \in Done'
    BY <2>2, <2>3, <2>5 DEF Clean
  <2>10. row.setup.secret \in Done'
    BY <2>2, <2>3
  <2> HIDE DEF setup
  <2>11. Clean(req[r].user, row, spent, Done')
    BY <2>3, <2>8, <2>9, <2>10 DEF Clean
  <2>12. Clean(req[r].user, row, spent', Done')
    BY <2>1, <2>11
  <2>13. \A c \in used : /\ c[1] \in Done
                          /\ \A e \in spent : e.user = req[r].user => e.code # c
    OBVIOUS
  <2> HIDE DEF used, row, setup
  <2> QED BY <2>1, <2>2, <2>4, <2>6, <2>12, <2>13, FreshCommit
<1>9. ASSUME NEW r \in Request, EnableSetup(r) PROVE Fresh'
  <2> DEFINE old == req[r].row
             secret == old.setup.secret
             new == [old EXCEPT !.secret = old.setup.secret, !.setup = None,
                                !.codes = {r} \X (1..CodeCount)]
  <2>1. /\ req[r].user \in User /\ old = account[req[r].user]
        /\ old \in Account /\ End(r, "done") /\ req[r].pc = "active"
    BY <1>9, ActiveShape DEF EnableSetup
  <2>2. PICK k \in Nat : /\ account' = [account EXCEPT ![req[r].user] = [new EXCEPT !.last = k]]
                         /\ [new EXCEPT !.last = k] \in Account
                         /\ Spend(r, {<<secret, k, "step">>})
    BY <1>9, EnableSetupShape
  <2>3. old.setup \in Setup /\ old.setup # None
    BY <1>9, EnableSetupShape DEF EnableSetup, SetupValid
  <2> DEFINE row == [new EXCEPT !.last = k]
             used == {<<secret, k, "step">>}
  <2>4. /\ row.secret = secret /\ row.setup = None /\ row.last = k
        /\ row.codes = {r} \X (1..CodeCount)
    BY <2>1 DEF Account
  <2>5. row \in Account /\ account' = [account EXCEPT ![req[r].user] = row]
    BY <2>2
  <2>6. r \notin Done /\ Done' = Done \cup {r}
    BY <2>1, EndDone
  <2>7. Clean(req[r].user, old, spent, Done)
    BY <2>1 DEF Fresh
  <2>8. /\ secret \in Done
        /\ \A e \in spent : e.user = req[r].user /\ e.code[3] = "step" =>
                              e.code[1] # secret
    BY <2>3, <2>7 DEF Clean
  <2>9. spent' = spent \cup Spending(r, used)
    BY <2>2 DEF Spend, Spending, SpentBy
  <2>10. \A e \in spent' \ spent : e.code = <<secret, k, "step">>
    BY <2>9 DEF Spending, SpentBy
  <2> HIDE DEF row, used, old, new, secret
  <2>11. Clean(req[r].user, row, spent', Done')
    <3>1. ASSUME NEW e \in spent', e.user = req[r].user
          PROVE  /\ e.code[3] = "step" /\ e.code[1] = row.secret => e.code[2] <= row.last
                 /\ e.code[3] = "recovery" => <<e.code[1], e.code[2]>> \notin row.codes
      <4>1. CASE e \in spent
        BY <1>0, <2>4, <2>6, <2>8, <3>1, <4>1
      <4>2. CASE e.code = <<secret, k, "step">>
        BY <2>4, <4>2
      <4> QED BY <2>10, <4>1, <4>2
    <3>2. \A c \in row.codes : c[1] \in Done'
      BY <2>4, <2>6
    <3>3. row.secret \in Done' /\ row.setup = None
      BY <2>4, <2>6, <2>8
    <3> QED BY <3>1, <3>2, <3>3 DEF Clean
  <2>12. \A c \in used : /\ c[1] \in Done
                         /\ \A e \in spent : e.user = req[r].user => e.code # c
    BY <2>8 DEF used
  <2> QED BY <2>1, <2>5, <2>6, <2>9, <2>11, <2>12, FreshCommit
<1>10. ASSUME (\E s \in sessions : Logout(s)) \/ (\E r \in Request : TakeSession(r))
             \/ Tick \/ UNCHANGED vars PROVE Fresh'
  <2>1. UNCHANGED <<account, spent, req>>
    BY <1>10 DEF Logout, TakeSession, Tick, vars
  <2>2. Done' = Done
    BY <2>1 DEF Done
  <2> QED BY <2>1, <2>2, FreshStays
<1> QED BY <1>2, <1>3, <1>4, <1>5, <1>6, <1>7, <1>8, <1>9, <1>10 DEF Next, Serve
-----------------------------------------------------------------------------
(* The theorems                                                            *)

LEMMA StepBasic ==
  ASSUME Basic, Snapshot, [Next]_vars
  PROVE  Basic'
BY ChargeBasic, BeginBasic, LockBasic, RecheckBasic, AbortBasic, RegisterBasic,
   LoginBasic, VerifyBasic, StartSetupBasic, EnableSetupBasic, ChangeBasic,
   IdleStepBasic DEF Next, Serve

IInv == Basic /\ Tokens /\ Snapshot /\ SessionsCurrent /\ Bounded /\ Fresh

LEMMA IInvInductive == Spec => []IInv
<1>1. Init => IInv
  BY InitBasic, InitTokens, InitCurrent, InitBounded, InitFresh DEF IInv, Init, Snapshot, Idle
<1>2. IInv /\ [Next]_vars => IInv'
  BY StepBasic, StepTokens, StepSnapshot, StepCurrent, StepBounded,
     StepFresh DEF IInv
<1> QED BY <1>1, <1>2, PTL DEF Spec

(* Every value stays what its column and its field may hold.               *)
THEOREM AccountsTyped == Spec => []TypeOK
<1>1. IInv => TypeOK
  BY DEF IInv, Basic
<1> QED BY <1>1, IInvInductive, PTL

(* Whatever the requests do to each other, no session survives a change of *)
(* its user's password or authenticator, except the one that made it.      *)
THEOREM NoStaleSession == Spec => []SessionsCurrent
<1>1. IInv => SessionsCurrent
  BY DEF IInv
<1> QED BY <1>1, IInvInductive, PTL

(* However many logins run at once, a user keeps at most MaxSessions.      *)
THEOREM SessionsStayBounded == Spec => []SessionsBounded
<1>1. IInv => SessionsBounded
  BY DEF IInv, Bounded, Few, SessionsBounded
<1> QED BY <1>1, IInvInductive, PTL

(* No code - of a step, or for recovery - is accepted from two requests of *)
(* its user, even if they present it at the same time.                     *)
THEOREM CodesAreGoodOnce == Spec => []CodesOnce
<1>1. IInv => CodesOnce
  BY DEF IInv, Fresh
<1> QED BY <1>1, IInvInductive, PTL
-----------------------------------------------------------------------------
(* The rate limit                                                          *)

ChargedTo(k, w) == {q \in Request : admitted[q] = <<k, w>>}

(* Nobody is charged to a window that is still to come, and no more to the *)
(* present one than its counter says.                                      *)
Billed ==
  \A k \in Key, w \in Nat : <<k, w>> # None =>
    /\ Cardinality(ChargedTo(k, w)) <= MaxCharges
    /\ w > rate[k].until => ChargedTo(k, w) = {}
    /\ w = rate[k].until => Cardinality(ChargedTo(k, w)) <= rate[k].attempts

LEMMA ChargedFinite ==
  \A k, w : /\ IsFiniteSet(ChargedTo(k, w)) /\ Cardinality(ChargedTo(k, w)) \in Nat
            /\ IsFiniteSet(ChargedTo(k, w)') /\ Cardinality(ChargedTo(k, w)') \in Nat
<1>1. \A k, w : ChargedTo(k, w) \subseteq Request /\ ChargedTo(k, w)' \subseteq Request
  BY DEF ChargedTo
<1> QED BY <1>1, AccountsAssumption, FS_Subset, FS_CardinalityType

LEMMA ChargeBilled ==
  ASSUME TypeOK, Billed, NEW r \in Request, Charge(r)
  PROVE  Billed'
<1>1. PICK k \in Key :
        /\ rate' = [rate EXCEPT ![k] = Charged(k)]
        /\ admitted' = [admitted EXCEPT ![r] =
             IF Charged(k).attempts > MaxCharges THEN None ELSE <<k, Charged(k).until>>]
  BY DEF Charge, Key
<1>2. /\ rate \in [Key -> [attempts : Nat, until : Nat]] /\ now \in Nat
      /\ admitted \in [Request -> (Key \X Nat) \cup {None}]
      /\ MaxCharges \in Nat \ {0} /\ ChargeWindow \in Nat \ {0}
  BY NumbersAreNat DEF TypeOK
<1>3. /\ rate'[k] = Charged(k)
      /\ \A j \in Key : j # k => rate'[j] = rate[j]
      /\ \A q \in Request : q # r => admitted'[q] = admitted[q]
      /\ admitted'[r] = IF Charged(k).attempts > MaxCharges THEN None
                        ELSE <<k, Charged(k).until>>
  BY <1>1, <1>2
<1>4. SUFFICES ASSUME NEW j \in Key, NEW w \in Nat, <<j, w>> # None
               PROVE  /\ Cardinality(ChargedTo(j, w)') <= MaxCharges
                      /\ w > rate'[j].until => ChargedTo(j, w)' = {}
                      /\ w = rate'[j].until =>
                           Cardinality(ChargedTo(j, w)') <= rate'[j].attempts
  BY DEF Billed
<1>5. /\ rate[j].attempts \in Nat /\ rate[j].until \in Nat
      /\ rate[k].attempts \in Nat /\ rate[k].until \in Nat
  BY <1>2
<1>6. /\ Cardinality(ChargedTo(j, w)) <= MaxCharges
      /\ w > rate[j].until => ChargedTo(j, w) = {}
      /\ w = rate[j].until => Cardinality(ChargedTo(j, w)) <= rate[j].attempts
  BY <1>4 DEF Billed
<1>7. \/ /\ rate[k].until <= now
         /\ Charged(k).attempts = 1 /\ Charged(k).until = now + ChargeWindow
      \/ /\ ~(rate[k].until <= now)
         /\ Charged(k).attempts = rate[k].attempts + 1
         /\ Charged(k).until = rate[k].until
  BY <1>2 DEF Charged
<1>8. /\ rate'[k].until >= rate[k].until
      /\ rate'[k].until = rate[k].until => rate'[k].attempts = rate[k].attempts + 1
      /\ rate'[k].until # rate[k].until => rate'[k].attempts = 1
      /\ rate'[k].until \in Nat /\ rate'[k].attempts \in Nat
  BY <1>2, <1>3, <1>5, <1>7
<1>9. CASE admitted'[r] = <<j, w>>
  <2>1. /\ j = k /\ w = Charged(k).until /\ Charged(k).attempts <= MaxCharges
    <3>1. ~(Charged(k).attempts > MaxCharges)
      BY <1>3, <1>4, <1>9
    <3> QED BY <1>2, <1>3, <1>8, <1>9, <3>1
  <2>2. ChargedTo(j, w)' \subseteq ChargedTo(j, w) \cup {r}
    BY <1>3 DEF ChargedTo
  <2>3. Cardinality(ChargedTo(j, w)') <= Cardinality(ChargedTo(j, w)) + 1
    <3>1. /\ IsFiniteSet(ChargedTo(j, w) \cup {r})
          /\ Cardinality(ChargedTo(j, w) \cup {r}) <= Cardinality(ChargedTo(j, w)) + 1
      <4>1. /\ IsFiniteSet(ChargedTo(j, w)) /\ Cardinality(ChargedTo(j, w)) \in Nat
        BY ChargedFinite
      <4> HIDE DEF ChargedTo
      <4> QED BY <4>1, FS_AddElement
    <3>2. Cardinality(ChargedTo(j, w)') <= Cardinality(ChargedTo(j, w) \cup {r})
      BY <2>2, <3>1, FS_Subset
    <3> QED BY <3>1, <3>2, ChargedFinite, FS_CardinalityType
  <2>4. CASE rate'[k].until = rate[k].until
    BY <1>2, <1>3, <1>5, <1>6, <1>8, <2>1, <2>3, <2>4, ChargedFinite
  <2>5. CASE rate'[k].until # rate[k].until
    <3>1. Cardinality(ChargedTo(j, w)) = 0
      <4>1. w > rate[j].until
        BY <1>3, <1>5, <1>8, <2>1, <2>5
      <4> QED BY <1>6, <4>1, FS_EmptySet
    <3> QED BY <1>2, <1>3, <1>5, <1>8, <2>1, <2>3, <2>5, <3>1, ChargedFinite
  <2> QED BY <2>4, <2>5
<1>10. CASE admitted'[r] # <<j, w>>
  <2>1. ChargedTo(j, w)' \subseteq ChargedTo(j, w)
    BY <1>3, <1>10 DEF ChargedTo
  <2>2. Cardinality(ChargedTo(j, w)') <= Cardinality(ChargedTo(j, w))
    BY <2>1, ChargedFinite, FS_Subset
  <2>3. CASE j # k
    BY <1>2, <1>3, <1>5, <1>6, <2>1, <2>2, <2>3, ChargedFinite
  <2>4. CASE j = k /\ rate'[k].until = rate[k].until
    BY <1>2, <1>5, <1>6, <1>8, <2>1, <2>2, <2>4, ChargedFinite
  <2>5. CASE j = k /\ rate'[k].until # rate[k].until
    <3>1. w >= rate'[k].until => ChargedTo(j, w) = {}
      BY <1>5, <1>6, <1>8, <2>5
    <3>2. w >= rate'[k].until =>
            ChargedTo(j, w)' = {} /\ Cardinality(ChargedTo(j, w)') = 0
      BY <2>1, <3>1, FS_EmptySet
    <3> QED BY <1>2, <1>6, <1>8, <2>2, <2>5, <3>2, ChargedFinite
  <2> QED BY <2>3, <2>4, <2>5
<1> QED BY <1>9, <1>10

LEMMA StepBilled ==
  ASSUME TypeOK, Billed, [Next]_vars
  PROVE  Billed'
<1>1. CASE UNCHANGED <<rate, admitted>>
  BY <1>1 DEF Billed, ChargedTo
<1>2. ASSUME NEW r \in Request, Serve(r) \/ Refuse(r) PROVE UNCHANGED <<rate, admitted>>
  BY <1>2 DEF Serve, Begin, Lock, Recheck, Deny, TakeSession, Register, Login, Verify, StartSetup,
              EnableSetup, Change, Refuse
<1>3. ASSUME Tick \/ UNCHANGED vars \/ \E s \in sessions : Logout(s)
      PROVE  UNCHANGED <<rate, admitted>>
  BY <1>3 DEF Tick, vars, Logout
<1> QED BY <1>1, <1>2, <1>3, ChargeBilled DEF Next

(* However many requests of one user run at once and however they end, no  *)
(* window admits more of them than the limit: rollbacks give nothing back. *)
THEOREM AttemptsStayBounded == Spec => []AttemptsBounded
<1>1. Init => Billed
  <2> SUFFICES ASSUME Init, NEW k \in Key, NEW w \in Nat, <<k, w>> # None
               PROVE  /\ ChargedTo(k, w) = {} /\ rate[k].attempts = 0
    BY NumbersAreNat, FS_EmptySet DEF Billed
  <2>1. \A q \in Request : admitted[q] # <<k, w>>
    BY DEF Init
  <2> QED BY <2>1 DEF Init, ChargedTo
<1>2. TypeOK /\ Billed /\ [Next]_vars => Billed'
  BY StepBilled
<1>3. TypeOK /\ Billed => AttemptsBounded
  <2> SUFFICES ASSUME TypeOK, Billed, NEW r \in Request, admitted[r] # None
               PROVE  Cardinality({q \in Request : admitted[q] = admitted[r]}) <= MaxCharges
    BY DEF AttemptsBounded
  <2>1. PICK k \in Key, w \in Nat : admitted[r] = <<k, w>>
    BY DEF TypeOK
  <2> QED BY <2>1 DEF Billed, ChargedTo
<1> QED BY <1>1, <1>2, <1>3, AccountsTyped, PTL DEF Spec
-----------------------------------------------------------------------------
(* Who can go on                                                           *)

(* The guards of what Serve lets a transaction do, each with the choices   *)
(* its action has to make.                                                 *)
CanLock(r) ==
  /\ req[r].pc = "waiting" /\ lock[req[r].user] = None
  /\ (req[r].endpoint = "register") = (account[req[r].user].password = None)

CanRecheck(r) ==
  /\ req[r].pc = "locked"
  /\ Anonymous(r) \/ \E s \in Alive(sessions, req[r].begun) : s.token = req[r].token

CanTake(r) ==
  req[r].pc = "active" /\ ~Denied(r) /\ \E s \in Doomed(r) : taken[s.token] = None

CanRegister(r) == req[r].pc = "active" /\ req[r].endpoint = "register" /\ Doomed(r) = {}

CanLogin(r) == req[r].pc = "active" /\ req[r].endpoint = "login" /\ Doomed(r) = {}

CanVerify(r) ==
  /\ req[r].pc = "active" /\ req[r].endpoint = "verify"
  /\ ~req[r].session.verified /\ req[r].row.secret # None
  /\ Factors(req[r].row) # {} /\ Doomed(r) = {}

CanStartSetup(r) ==
  /\ req[r].pc = "active" /\ req[r].endpoint = "2fa-start"
  /\ req[r].session.verified /\ req[r].row.secret = None

CanEnableSetup(r) ==
  /\ req[r].pc = "active" /\ req[r].endpoint = "2fa-enable"
  /\ req[r].session.verified /\ req[r].row.secret = None
  /\ SetupValid(r) /\ Matching(-1) # {} /\ Doomed(r) = {}

CanChange(r) ==
  /\ req[r].pc = "active" /\ req[r].endpoint \in Sensitive
  /\ req[r].session.verified
  /\ req[r].endpoint = "recovery-codes" => req[r].row.secret # None
  /\ Factors(req[r].row) # {} /\ Doomed(r) = {}

CanGoOn(r) ==
  \/ CanLock(r) \/ CanRecheck(r) \/ Denied(r) \/ CanTake(r)
  \/ CanRegister(r) \/ CanLogin(r) \/ CanVerify(r)
  \/ CanStartSetup(r) \/ CanEnableSetup(r) \/ CanChange(r)

(* Rows of sessions are with transactions that hold their user's row.      *)
Taking == \A t \in Token : taken[t] # None => req[taken[t]].pc = "active"

LEMMA TakingStep ==
  ASSUME TypeOK, Taking, NEW r \in Request, \A q \in Request : q # r => req'[q] = req[q],
         \A t \in Token : taken'[t] \in {None, taken[t]},
         \A t \in Token : taken'[t] = r => req'[r].pc = "active"
  PROVE  Taking'
<1> SUFFICES ASSUME NEW t \in Token, taken'[t] # None PROVE req'[taken'[t]].pc = "active"
  BY DEF Taking
<1>1. taken'[t] = taken[t] /\ taken[t] \in Request /\ req[taken[t]].pc = "active"
  BY DEF Taking, TypeOK
<1> QED BY <1>1

LEMMA StepTaking ==
  ASSUME Basic, Taking, [Next]_vars
  PROVE  Taking'
<1> USE DEF Basic
<1>1. ASSUME NEW r \in Request, NEW pc \in {"done", "refused"}, End(r, pc) PROVE Taking'
  <2>1. /\ \A q \in Request : q # r => req'[q] = req[q]
        /\ \A t \in Token : taken'[t] = IF taken[t] = r THEN None ELSE taken[t]
    BY <1>1, EndShape
  <2>2. r # None
    BY NoneIsApart
  <2> QED BY <2>1, <2>2, TakingStep
<1>2. ASSUME NEW r \in Request, req[r].pc # "active", taken' = taken,
             \A q \in Request : q # r => req'[q] = req[q]
      PROVE  Taking'
  <2>1. \A t \in Token : taken[t] # r
    BY <1>2, NoneIsApart DEF Taking
  <2> QED BY <1>2, <2>1, TakingStep
<1>3. ASSUME NEW r \in Request, Charge(r) PROVE Taking'
  BY <1>2, <1>3, ChargedShape
<1>4. ASSUME NEW r \in Request, Begin(r) PROVE Taking'
  BY <1>2, <1>4, BeginShape DEF Onward, Begin
<1>5. ASSUME NEW r \in Request, Lock(r) PROVE Taking'
  BY <1>2, <1>5, LockShape DEF Onward, Lock
<1>6. ASSUME NEW r \in Request, Recheck(r) PROVE Taking'
  BY <1>2, <1>6, RecheckShape DEF Onward, Recheck
<1>7. ASSUME NEW r \in Request, TakeSession(r) PROVE Taking'
  <2>1. PICK s \in Doomed(r) : taken' = [taken EXCEPT ![s.token] = r]
    BY <1>7 DEF TakeSession
  <2>2. req[r].pc = "active" /\ req' = req
    BY <1>7 DEF TakeSession
  <2> QED BY <2>1, <2>2 DEF Taking, TypeOK
<1>8. ASSUME NEW r \in Request,
             \/ Deny(r) \/ Refuse(r) \/ Register(r) \/ Login(r) \/ Verify(r)
             \/ StartSetup(r) \/ EnableSetup(r) \/ Change(r)
      PROVE  Taking'
  BY <1>1, <1>8 DEF Deny, Refuse, Register, Login, Verify, StartSetup, EnableSetup, Change
<1>9. ASSUME (\E s \in sessions : Logout(s)) \/ Tick \/ UNCHANGED vars PROVE Taking'
  BY <1>9 DEF Logout, Tick, vars, Taking
<1> QED BY <1>3, <1>4, <1>5, <1>6, <1>7, <1>8, <1>9 DEF Next, Serve

LEMMA AlwaysTaking == Spec => []Taking
<1>1. Init => Taking
  BY DEF Init, Taking
<1>2. IInv /\ Taking /\ [Next]_vars => Taking'
  BY StepTaking DEF IInv
<1> QED BY <1>1, <1>2, IInvInductive, PTL DEF Spec

(* A transaction that has read all it needs can finish, or delete the next *)
(* session, unless another one has deleted that.                           *)
LEMMA DeleterGoesOn ==
  ASSUME IInv, NEW r \in Request, req[r].pc = "active", ~Denied(r), Doomed(r) # {}
  PROVE  CanTake(r) \/ \E q \in Request : WaitsFor(r, q)
<1>1. PICK s \in Doomed(r) : TRUE
  OBVIOUS
<1>2. s \in sessions
  BY DEF Doomed, Surplus, Newest, Of, Rest, Alive
<1>3. s.token \in Token /\ taken[s.token] \in Request \cup {None}
  BY <1>2, SessionIsRecord DEF IInv, Basic, TypeOK
<1> QED BY <1>1, <1>3 DEF CanTake, WaitsFor

(* A transaction that holds its user's row has something to do, whatever   *)
(* became of its session and of its user's authenticator, or waits for a   *)
(* session that another transaction has deleted.                           *)
LEMMA HolderGoesOn ==
  ASSUME IInv, NEW r \in Request, req[r].pc \in Holding
  PROVE  CanGoOn(r) \/ (req[r].pc = "active" /\ \E q \in Request : WaitsFor(r, q))
<1>1. Basic /\ Snapshot /\ TypeOK
  BY DEF IInv, Basic
<1>2. req[r].endpoint \in Endpoint /\ req[r].user \in User
  BY <1>1 DEF Basic, Addressed, Serving, Transacting, Holding
<1>3. CASE req[r].pc = "locked"
  BY <1>3 DEF CanGoOn, CanRecheck, Denied
<1>4. CASE req[r].pc = "active" /\ ~Denied(r) /\ Doomed(r) # {}
  BY <1>4, DeleterGoesOn DEF CanGoOn
<1>5. CASE req[r].pc = "active" /\ ~Denied(r) /\ Doomed(r) = {} /\ Anonymous(r)
  BY <1>5 DEF CanGoOn, CanRegister, CanLogin, Anonymous
<1>6. CASE req[r].pc = "active" /\ ~Denied(r) /\ Doomed(r) = {} /\ ~Anonymous(r)
  <2> DEFINE w == req[r]
  <2>1. w.session \in Session /\ w.session.verified \in BOOLEAN
    BY <1>1, <1>6, SessionIsRecord DEF Snapshot
  <2>2. /\ w.session.verified # (w.endpoint = "verify")
        /\ w.endpoint = "verify" => w.row.secret # None
        /\ w.endpoint \in {"2fa-start", "2fa-enable"} => w.row.secret = None
        /\ w.endpoint = "2fa-enable" => SetupValid(r)
        /\ w.endpoint = "recovery-codes" => w.row.secret # None
        /\ w.endpoint \in Sensitive \cup {"verify"} => Factors(w.row) # {}
    BY <1>6 DEF Denied
  <2>3. CASE w.endpoint = "verify"
    BY <1>6, <2>1, <2>2, <2>3 DEF CanGoOn, CanVerify
  <2>4. CASE w.endpoint = "2fa-start"
    BY <1>6, <2>1, <2>2, <2>4 DEF CanGoOn, CanStartSetup
  <2>5. CASE w.endpoint = "2fa-enable"
    <3>1. now \in Matching(-1)
      BY <1>1 DEF Matching, TypeOK
    <3> QED BY <1>6, <2>1, <2>2, <2>5, <3>1 DEF CanGoOn, CanEnableSetup
  <2>6. CASE w.endpoint \in Sensitive
    BY <1>6, <2>1, <2>2, <2>6 DEF CanGoOn, CanChange, Sensitive
  <2> QED BY <1>2, <1>6, <2>3, <2>4, <2>5, <2>6 DEF Endpoint, Anonymous
<1> QED BY <1>3, <1>4, <1>5, <1>6 DEF Holding, CanGoOn

(* Before that, only the lock of its user's row keeps it waiting, and the  *)
(* lock is with one that waits for no such lock, nor for a connection.     *)
LEMMA WaiterGoesOn ==
  ASSUME IInv, NEW r \in Request, req[r].pc = "waiting"
  PROVE  CanGoOn(r) \/ \E q \in Request : req[q].pc \in Holding
<1>1. Basic /\ TypeOK /\ req[r].user \in User
  BY DEF IInv, Basic, Addressed, Serving, Transacting
<1>2. CASE lock[req[r].user] = None
  BY <1>2 DEF CanGoOn, CanLock, Denied
<1>3. CASE lock[req[r].user] # None
  BY <1>1, <1>3 DEF TypeOK, Basic, Locking
<1> QED BY <1>2, <1>3

Open == {r \in Request : req[r].pc \in Transacting}

SomeoneGoesOn ==
  Open # {} => (\E r \in Open : CanGoOn(r)) \/ \E D \in SUBSET Open : Ring(D)

(* However many transactions are open, of whatever users, and however few  *)
(* connections the pool has: one of them can go on, or some of them go     *)
(* round in a ring, each about to delete a session that the next one has   *)
(* deleted.  No transaction waits for a connection, and no ring goes over  *)
(* a user's row (mod.rs:512), so Postgres can tell a ring and ends it.     *)
THEOREM SomeoneCanGoOn == Spec => []SomeoneGoesOn
<1> DEFINE D == {r \in Request : req[r].pc = "active"}
<1>1. ASSUME IInv, Taking, Open # {}, \A r \in Open : ~CanGoOn(r)
      PROVE  D \in SUBSET Open /\ Ring(D)
  <2>1. PICK h \in Request : req[h].pc \in Holding
    BY <1>1, WaiterGoesOn DEF Open, Transacting, Holding
  <2>2. \A r \in Request : req[r].pc \in Holding =>
          req[r].pc = "active" /\ \E q \in Request : WaitsFor(r, q)
    BY <1>1, HolderGoesOn DEF Open, Transacting, Holding
  <2>3. h \in D
    BY <2>1, <2>2
  <2>4. ASSUME NEW r \in D PROVE \E q \in D : WaitsFor(r, q)
    <3>1. PICK q \in Request : WaitsFor(r, q)
      BY <2>2 DEF Holding
    <3>2. PICK s \in Doomed(r) : taken[s.token] = q
      BY <3>1 DEF WaitsFor
    <3>3. s.token \in Token
      <4>1. s \in sessions
        BY DEF Doomed, Surplus, Newest, Of, Rest, Alive
      <4> QED BY <1>1, <4>1, SessionIsRecord DEF IInv, Basic, TypeOK
    <3>4. req[q].pc = "active"
      BY <1>1, <3>2, <3>3, NoneIsApart DEF Taking
    <3> QED BY <3>1, <3>4
  <2> QED BY <2>3, <2>4 DEF Ring, Open, Transacting
<1>2. IInv /\ Taking => SomeoneGoesOn
  BY <1>1, Zenon DEF SomeoneGoesOn
<1> QED BY <1>2, AlwaysTaking, IInvInductive, PTL
-----------------------------------------------------------------------------
(* The second factor                                                       *)

(* The sessions that are let in where an authenticator is set up.          *)
FullyIn == {s \in sessions : s.verified /\ s.secret # None}

(* The request that created the session spent a code of its own for it: of *)
(* the authenticator, or a recovery code.  What was there in the beginning *)
(* did so earlier.                                                         *)
Paid(s) ==
  \/ s.token \in OldToken /\ s.secret = Earlier
  \/ \E x \in spent : /\ x.user = s.user /\ x.by = s.token
                      /\ x.code[1] = s.secret \/ x.code[3] = "recovery"

(* A code of the session's authenticator was spent at all.                 *)
Proven(s) ==
  \E x \in spent : x.user = s.user /\ x.code[1] = s.secret /\ x.code[3] = "step"

(* Nobody gets past an authenticator without a code, and two sessions do   *)
(* not share one: the only full session of a user that spent none of its   *)
(* own is the one that set the authenticator up and proved it.             *)
SecondFactor ==
  /\ \A s \in FullyIn : Paid(s) \/ Proven(s)
  /\ \A s, t \in FullyIn : s.user = t.user /\ ~Paid(s) /\ ~Paid(t) => s = t

OneSession == \A s, t \in sessions : s.token = t.token => s = t

LEMMA PaidForGood ==
  ASSUME spent \subseteq spent', NEW s
  PROVE  (Paid(s) => Paid(s)') /\ (Proven(s) => Proven(s)')
BY DEF Paid, Proven

LEMMA InitFactor == Init => OneSession /\ SecondFactor
<1> SUFFICES ASSUME Init PROVE OneSession /\ SecondFactor OBVIOUS
<1>1. OneSession BY DEF Init, OneSession
<1>2. ASSUME NEW s \in FullyIn PROVE Paid(s)
  <2>1. PICK t \in OldToken, u \in User, v \in BOOLEAN :
          s = OldSession(t, u, v, account[u].secret)
    BY DEF Init, FullyIn
  <2>2. s.token = t /\ s.secret = account[u].secret /\ s.secret # None
    BY <2>1 DEF OldSession, FullyIn
  <2>3. account[u] \in {Unregistered, PasswordOnly, TwoFactor} BY DEF Init
  <2>4. Unregistered.secret = None /\ PasswordOnly.secret = None /\ TwoFactor.secret = Earlier
    BY DEF Unregistered, PasswordOnly, TwoFactor
  <2>5. account[u].secret = Earlier BY <2>2, <2>3, <2>4
  <2> QED BY <2>2, <2>5 DEF Paid
<1> QED BY <1>1, <1>2 DEF SecondFactor

(* Sessions that only go.                                                  *)
LEMMA FewerFactor ==
  ASSUME OneSession, SecondFactor, sessions' \subseteq sessions, spent \subseteq spent'
  PROVE  OneSession' /\ SecondFactor'
<1>1. FullyIn' \subseteq FullyIn BY DEF FullyIn
<1> QED BY <1>1, PaidForGood DEF OneSession, SecondFactor

(* A new session spends a code, or none is asked of it.                    *)
LEMMA AddedFactor ==
  ASSUME Tokens, OneSession, SecondFactor, NEW r \in Request, req[r].pc = "active",
         NEW verified, NEW password, NEW secret,
         Added(r, verified, password, secret), spent \subseteq spent',
         verified /\ secret # None =>
           \E x \in spent' : /\ x.user = req[r].user /\ x.by = r
                             /\ x.code[1] = secret \/ x.code[3] = "recovery"
  PROVE  OneSession' /\ SecondFactor'
<1> DEFINE keep == Rest(r)
<1>1. PICK new \in Session :
        /\ sessions' = keep \cup {new}
        /\ new.token = r /\ new.user = req[r].user
        /\ new.verified = verified /\ new.secret = secret
  BY DEF Added
<1>2. \A s \in keep : s \in sessions /\ s.token # r
  <2>1. ~Used(r) BY AccountsAssumption DEF Used
  <2> QED BY <2>1 DEF Tokens, Rest
<1> HIDE DEF keep
<1>3. OneSession' BY <1>1, <1>2 DEF OneSession
<1>4. ASSUME NEW s \in FullyIn' PROVE s \in FullyIn \/ Paid(s)'
  <2>1. s \in keep \/ s = new BY <1>1 DEF FullyIn
  <2>2. CASE s \in keep BY <1>2, <2>2 DEF FullyIn
  <2>3. CASE s = new
    <3>1. verified /\ secret # None BY <1>1, <2>3 DEF FullyIn
    <3>2. s.token = r /\ s.user = req[r].user /\ s.secret = secret BY <1>1, <2>3
    <3>3. \E x \in spent' : /\ x.user = s.user /\ x.by = s.token
                            /\ x.code[1] = s.secret \/ x.code[3] = "recovery"
      BY <3>1, <3>2
    <3> QED BY <3>3 DEF Paid
  <2> QED BY <2>1, <2>2, <2>3
<1>5. SecondFactor' BY <1>4, PaidForGood DEF SecondFactor
<1> QED BY <1>3, <1>5

(* One session of the user is left, which had the authenticator or set it  *)
(* up just now.                                                            *)
LEMMA RevokedFactor ==
  ASSUME OneSession, SecondFactor, NEW r \in Request, NEW password, NEW secret,
         TypeOK, Revoked(r, password, secret), spent \subseteq spent',
         \/ secret = None
         \/ \A x \in sessions : x.user = req[r].user /\ x.verified => x.secret = secret
         \/ \E x \in spent' : /\ x.user = req[r].user
                              /\ x.code[1] = secret /\ x.code[3] = "step"
  PROVE  OneSession' /\ SecondFactor'
<1> DEFINE Mine(s) ==
      /\ s.user = req[r].user /\ s.token = req[r].token /\ s.secret = secret
      /\ \E x \in sessions : /\ x.user = s.user /\ x.token = s.token
                             /\ x.verified = s.verified
                             /\ s = [x EXCEPT !.password = password, !.secret = secret]
<1>1. ASSUME NEW s \in sessions'
      PROVE  (s \in sessions /\ s.user # req[r].user) \/ Mine(s)
  <2>1. CASE s \in sessions /\ s.user # req[r].user BY <2>1
  <2>2. CASE ~(s \in sessions /\ s.user # req[r].user)
    <3>1. /\ s.user = req[r].user /\ s.token = req[r].token /\ s.secret = secret
          /\ \E x \in sessions : /\ x.user = s.user /\ x.token = s.token
                                 /\ s = [x EXCEPT !.password = password, !.secret = secret]
      BY <2>2 DEF Revoked
    <3>2. PICK x \in sessions : /\ x.user = s.user /\ x.token = s.token
                               /\ s = [x EXCEPT !.password = password, !.secret = secret]
      BY <3>1
    <3>3. x.verified = s.verified BY <3>2 DEF TypeOK, Session
    <3> QED BY <3>1, <3>2, <3>3
  <2> QED BY <2>1, <2>2
<1>2. OneSession'
  <2> SUFFICES ASSUME NEW s \in sessions', NEW t \in sessions', s.token = t.token
               PROVE  s = t
    BY DEF OneSession
  <2>1. CASE s \in sessions /\ t \in sessions BY <2>1 DEF OneSession
  <2>2. CASE Mine(s) /\ Mine(t)
    <3>1. PICK x \in sessions : /\ x.token = s.token
                               /\ s = [x EXCEPT !.password = password, !.secret = secret]
      BY <2>2
    <3>2. PICK y \in sessions : /\ y.token = t.token
                               /\ t = [y EXCEPT !.password = password, !.secret = secret]
      BY <2>2
    <3>3. x = y BY <3>1, <3>2 DEF OneSession
    <3> QED BY <3>1, <3>2, <3>3
  <2>3. CASE Mine(s) /\ t \in sessions /\ t.user # req[r].user BY <2>3 DEF OneSession
  <2>4. CASE Mine(t) /\ s \in sessions /\ s.user # req[r].user BY <2>4 DEF OneSession
  <2> HIDE DEF Mine
  <2> QED BY <1>1, <2>1, <2>2, <2>3, <2>4
<1>3. ASSUME NEW s \in FullyIn', Mine(s) PROVE Paid(s)' \/ Proven(s)'
  <2>1. s.verified /\ secret # None BY <1>3 DEF FullyIn
  <2>2. CASE \E x \in spent' : /\ x.user = req[r].user
                               /\ x.code[1] = secret /\ x.code[3] = "step"
    BY <1>3, <2>2 DEF Proven
  <2>3. CASE \A x \in sessions : x.user = req[r].user /\ x.verified => x.secret = secret
    <3>1. PICK x \in sessions : x.user = s.user /\ x.token = s.token /\ x.verified = s.verified
      BY <1>3
    <3>2. x.secret = s.secret BY <1>3, <2>1, <2>3, <3>1
    <3>3. x \in FullyIn BY <1>3, <2>1, <3>1, <3>2 DEF FullyIn
    <3>4. Paid(x) \/ Proven(x) BY <3>3 DEF SecondFactor
    <3>5. Paid(s) \/ Proven(s) BY <3>1, <3>2, <3>4 DEF Paid, Proven
    <3> QED BY <3>5, PaidForGood
  <2> QED BY <2>1, <2>2, <2>3
<1>4. ASSUME NEW s \in FullyIn', s \in sessions, s.user # req[r].user
      PROVE  s \in FullyIn
  BY <1>4 DEF FullyIn
<1>5. FullyIn' \subseteq sessions' BY DEF FullyIn
<1>6. \A s \in FullyIn' : Paid(s)' \/ Proven(s)'
  <2> HIDE DEF Mine
  <2> QED BY <1>1, <1>3, <1>4, <1>5, PaidForGood DEF SecondFactor
<1>7. ASSUME NEW s \in FullyIn', NEW t \in FullyIn',
             s.user = t.user, ~Paid(s)', ~Paid(t)'
      PROVE  s = t
  <2>1. CASE Mine(s) /\ Mine(t)
    <3>1. s.token = t.token BY <2>1
    <3> QED BY <1>2, <1>5, <3>1 DEF OneSession
  <2>2. CASE ~(Mine(s) /\ Mine(t))
    <3>1. s \in sessions /\ s.user # req[r].user /\ t \in sessions
      BY <1>1, <1>5, <1>7, <2>2
    <3>2. s \in FullyIn /\ t \in FullyIn BY <1>4, <1>7, <3>1
    <3>3. ~Paid(s) /\ ~Paid(t) BY <1>7, PaidForGood
    <3> QED BY <1>7, <3>2, <3>3 DEF SecondFactor
  <2> QED BY <2>1, <2>2
<1> QED BY <1>2, <1>6, <1>7 DEF SecondFactor

LEMMA StepFactor ==
  ASSUME Basic, Snapshot, Tokens, SessionsCurrent, OneSession, SecondFactor, [Next]_vars
  PROVE  OneSession' /\ SecondFactor'
<1>1. ASSUME sessions' \subseteq sessions, spent' = spent
      PROVE  OneSession' /\ SecondFactor'
  BY <1>1, FewerFactor
<1>2. ASSUME NEW r \in Request,
             \/ Charge(r) \/ Begin(r) \/ Lock(r) \/ Recheck(r) \/ Deny(r)
             \/ Refuse(r) \/ StartSetup(r)
      PROVE  OneSession' /\ SecondFactor'
  BY <1>1, <1>2 DEF Charge, Begin, Lock, Recheck, Deny, Refuse, StartSetup
<1>3. ASSUME NEW r \in Request, Register(r) PROVE OneSession' /\ SecondFactor'
  <2>1. /\ req[r].pc = "active" /\ spent' = spent
        /\ Added(r, TRUE, r, None)
    BY <1>3, RegisterAdds DEF Register
  <2> QED BY <2>1, AddedFactor
<1>4. ASSUME NEW r \in Request, Login(r) PROVE OneSession' /\ SecondFactor'
  <2>1. /\ req[r].pc = "active" /\ spent' = spent
        /\ Added(r, req[r].row.secret = None, req[r].row.password, req[r].row.secret)
    BY <1>4, LoginAdds DEF Login
  <2> QED BY <2>1, AddedFactor
<1>5. ASSUME NEW r \in Request, Verify(r) PROVE OneSession' /\ SecondFactor'
  <2>1. /\ req[r].pc = "active" /\ req[r].row.secret # None
        /\ Added(r, TRUE, req[r].session.password, req[r].row.secret)
    BY <1>5, VerifyAdds DEF Verify
  <2>2. PICK f \in Factors(req[r].row) : Spend(r, f.used)
    BY <1>5 DEF Verify
  <2>3. req[r].row \in Account BY <1>5, ActiveShape DEF Verify
  <2>4. \E c \in f.used : c[1] = req[r].row.secret \/ c[3] = "recovery"
    <3>1. \/ \E k \in Nat : f.used = {<<req[r].row.secret, k, "step">>}
          \/ \E c \in req[r].row.codes : f.used = {<<c[1], c[2], "recovery">>}
      BY <2>1, <2>3, FactorShape
    <3>2. CASE \E k \in Nat : f.used = {<<req[r].row.secret, k, "step">>}
      BY <3>2
    <3>3. CASE \E c \in req[r].row.codes : f.used = {<<c[1], c[2], "recovery">>}
      BY <3>3
    <3> QED BY <3>1, <3>2, <3>3
  <2>5. \E x \in spent' : /\ x.user = req[r].user /\ x.by = r
                          /\ x.code[1] = req[r].row.secret \/ x.code[3] = "recovery"
    <3>1. PICK c \in f.used : c[1] = req[r].row.secret \/ c[3] = "recovery" BY <2>4
    <3>2. [user |-> req[r].user, code |-> c, by |-> r] \in spent' BY <2>2 DEF Spend
    <3> QED BY <3>1, <3>2
  <2>6. spent \subseteq spent' BY <2>2 DEF Spend
  <2> QED BY <2>1, <2>5, <2>6, AddedFactor
<1>6. ASSUME NEW r \in Request, EnableSetup(r) PROVE OneSession' /\ SecondFactor'
  <2> DEFINE secret == req[r].row.setup.secret
  <2>1. Revoked(r, req[r].row.password, secret) BY <1>6, EnableSetupRevokes
  <2>2. PICK k \in Nat : Spend(r, {<<secret, k, "step">>}) BY <1>6, EnableSetupShape
  <2> HIDE DEF secret
  <2>3. [user |-> req[r].user, code |-> <<secret, k, "step">>, by |-> r] \in spent'
    BY <2>2 DEF Spend
  <2>4. \E x \in spent' : /\ x.user = req[r].user
                          /\ x.code[1] = secret /\ x.code[3] = "step"
    BY <2>3
  <2>5. spent \subseteq spent' /\ TypeOK BY <2>2 DEF Spend, Basic
  <2> QED BY <2>1, <2>4, <2>5, RevokedFactor
<1>7. ASSUME NEW r \in Request, Change(r) PROVE OneSession' /\ SecondFactor'
  <2>1. PICK f \in Factors(req[r].row) :
          /\ f.row \in Account /\ f.row.password \in Origin
          /\ Spend(r, f.used)
          /\ Revoked(r, Changed(r, f.row).password, Changed(r, f.row).secret)
    BY <1>7, ChangeShape
  <2> DEFINE secret == Changed(r, f.row).secret
  <2>2. secret \in {None, f.row.secret} BY <2>1, ChangedShape
  <2>3. req[r].row \in Account /\ req[r].row = account[req[r].user]
    BY <1>7, ActiveShape DEF Change
  <2>4. f.row.secret = account[req[r].user].secret BY <2>3, FactorShape
  <2>5. \A x \in sessions : x.user = req[r].user /\ x.verified => x.secret = f.row.secret
    BY <2>4 DEF SessionsCurrent
  <2>6. spent \subseteq spent' /\ TypeOK BY <2>1 DEF Spend, Basic
  <2>7. Revoked(r, Changed(r, f.row).password, secret) BY <2>1
  <2> HIDE DEF secret
  <2>8. CASE secret = None BY <2>6, <2>7, <2>8, RevokedFactor
  <2>9. CASE secret = f.row.secret BY <2>5, <2>6, <2>7, <2>9, RevokedFactor
  <2> QED BY <2>2, <2>8, <2>9
<1>8. ASSUME (\E s \in sessions : Logout(s)) \/ (\E r \in Request : TakeSession(r))
             \/ Tick \/ UNCHANGED vars
      PROVE  OneSession' /\ SecondFactor'
  BY <1>1, <1>8 DEF Logout, TakeSession, Tick, vars
<1> QED BY <1>2, <1>3, <1>4, <1>5, <1>6, <1>7, <1>8 DEF Next, Serve

(* However requests overlap - logins that wait for the row while the       *)
(* authenticator is set up, changed or removed, second factors presented   *)
(* at once - no session of a user with an authenticator is let in without  *)
(* a code of its own, the one that set it up apart (account/mod.rs:336).   *)
THEOREM NobodySkipsTheFactor == Spec => []SecondFactor
<1>1. IInv /\ OneSession /\ SecondFactor /\ [Next]_vars => OneSession' /\ SecondFactor'
  BY StepFactor DEF IInv
<1> QED BY <1>1, InitFactor, IInvInductive, PTL DEF Spec
=============================================================================
