------------------------------- MODULE Accounts -------------------------------
(***************************************************************************)
(* AuthService behind its guards: registration, login and logout, password *)
(* reset, e-mail verification, TOTP enrolment, MFA challenge and step-up,  *)
(* and the administrator's operations on accounts and API keys.  A request *)
(* reads in one step and writes in a later one; it may die at any of them. *)
(***************************************************************************)
EXTENDS Naturals, Sequences, FiniteSets

CONSTANTS
  Requests,    \* HTTP requests, each handled once
  Calls,       \* what a request may ask: [op, browser, user, pw, realm, code, form]
  Users,       \* normalised e-mail addresses
  Admins,      \* those whose roles hold ADMIN or SUPER_ADMIN
  Existing,    \* those with an account from the start
  Browsers, Desk, \* Desk: the browser where an administrator is logged in
  Codes,       \* the recovery codes of one answer (8 in the code)
  Seed,        \* generation of the codes there from the start
  OldPassword, \* of every existing account
  Nobody,
  MfaRequired  \* ADMIN_MFA_REQUIRED

VARIABLES
  account,  \* identity.users with its PASSWORD credential, by e-mail
  sessions, \* identity.sessions
  tokens,   \* email_verification_tokens and password_reset_tokens
  factors,  \* identity.mfa_factors: [user, verified], in the order of creation
  codes,    \* identity.mfa_recovery_codes: [user, gen, code, used]
  keys,     \* identity.api_keys, in the order of creation
  jar,      \* the cookies of each browser; 0 is none
  req,      \* where each request is and what it has read
  spent,    \* the challenges a recovery code satisfied: [user, gen, code, req, raced]
  lifted    \* the accounts that became ACTIVE again without an administrator

vars == <<account, sessions, tokens, factors, codes, keys, jar, req, spent, lifted>>

Disabled == {"SUSPENDED", "LOCKED", "DEACTIVATED"}
Open(u, realm, pw, mfa, raced) ==
  [user |-> u, realm |-> realm, revoked |-> FALSE, expired |-> FALSE,
   mfa |-> mfa, stepped |-> FALSE, pw |-> pw, raced |-> raced]
Token(u, kind) == [user |-> u, kind |-> kind, used |-> FALSE, expired |-> FALSE, mailed |-> FALSE]
NewCodes(u, gen) == [user : {u}, gen : {gen}, code : Codes, used : {FALSE}]

NoPrincipal == [session |-> 0, user |-> Nobody, realm |-> "CUSTOMER", mfa |-> FALSE]
NoCall == [op |-> "none", browser |-> Nobody, user |-> Nobody, pw |-> Nobody,
           realm |-> "CUSTOMER", code |-> Nobody, form |-> "ours"]
Idle == [pc |-> "new", call |-> NoCall, cookie |-> 0, who |-> NoPrincipal,
         row |-> 0, rows |-> {}, raced |-> FALSE]
Final == {"answered", "refused"}   \* refused: any error answer, or none

\* An administrator with a verified factor and its codes, who may have answered the challenge.
Init ==
  /\ account = [u \in Users |-> IF u \in Existing THEN [status |-> "ACTIVE", pw |-> OldPassword]
                                ELSE [status |-> "none", pw |-> Nobody]]
  /\ LET a == CHOOSE u \in Admins : TRUE IN
       /\ \E mfa \in BOOLEAN : sessions = <<Open(a, "ADMIN", OldPassword, mfa, FALSE)>>
       /\ factors = <<[user |-> a, verified |-> TRUE]>>
       /\ codes = NewCodes(a, Seed)
  /\ tokens = <<>> /\ keys = <<>>
  /\ jar = [b \in Browsers |-> [csrf |-> TRUE, customer |-> 0,
                               admin |-> IF b = Desk THEN 1 ELSE 0]]
  /\ req = [r \in Requests |-> Idle]
  /\ spent = {} /\ lifted = {}

Goto(r, pc) == req' = [req EXCEPT ![r] = IF pc \in Final THEN [Idle EXCEPT !.pc = pc]
                                         ELSE [@ EXCEPT !.pc = pc]]
Rows == <<account, sessions, tokens, factors, codes, keys, spent, lifted>>
-----------------------------------------------------------------------------
(* The guards. *)

Public == {"csrf", "register", "login", "logout", "forgot", "reset", "verify"}
AdminOnly == {"suspend", "restore", "createKey", "revokeKey"}
ASSUME AccountsAssumption ==
  /\ Admins \subseteq Existing /\ Existing \subseteq Users /\ Admins # {}
  /\ Seed \notin Requests
  /\ \A call \in Calls :
       /\ call.op \in Public \cup AdminOnly \cup {"me", "enroll", "confirm", "challenge", "stepUp"}
       /\ call.browser \in Browsers /\ call.user \in Users
       /\ call.realm \in {"CUSTOMER", "ADMIN"}

\* The administrator's cookie is preferred when both are there.
SessionCookie(cookies) == IF cookies.admin # 0 THEN cookies.admin ELSE cookies.customer
\* A form comes from a page of an allowed origin ("ours") or from a script that sends no
\* Origin, both with the token of the csrf cookie; or it is "foreign", without them.
CsrfAllows(call, cookies) ==
  \/ call.op \in {"csrf", "me"}
  \/ /\ cookies.csrf /\ call.form # "foreign"
     /\ call.form = "script" => call.op \in Public \/ SessionCookie(cookies) = 0
Live(s) == ~sessions[s].revoked /\ ~sessions[s].expired
Principal(s) == [session |-> s, user |-> sessions[s].user,
                 realm |-> sessions[s].realm, mfa |-> sessions[s].mfa]
Entitled(who, op) ==
  /\ op \in AdminOnly \cup {"enroll"} => who.realm = "ADMIN"
  /\ op \in AdminOnly => (MfaRequired => who.mfa) /\ who.user \in Admins

Send(r, call) ==
  /\ req[r].pc = "new"
  /\ LET cookies == jar[call.browser]
     IN IF CsrfAllows(call, cookies)
        THEN req' = [req EXCEPT ![r] = [Idle EXCEPT
               !.pc = IF call.op \in Public THEN call.op ELSE "guard",
               !.call = call, !.cookie = SessionCookie(cookies)]]
        ELSE Goto(r, "refused")
  /\ UNCHANGED <<Rows, jar>>

Admit(r) ==
  /\ req[r].pc = "guard"
  /\ LET s == req[r].cookie
     IN IF s # 0 /\ Live(s) /\ Entitled(Principal(s), req[r].call.op)
        THEN req' = [req EXCEPT ![r].pc = req[r].call.op, ![r].who = Principal(s)]
        ELSE Goto(r, "refused")
  /\ UNCHANGED <<Rows, jar>>
-----------------------------------------------------------------------------
(* Accounts and sessions. *)

At(r, pc) == req[r].pc = pc
Asked(r) == req[r].call
Me(r) == req[r].who.user
Cookies(r, cookies) == jar' = [jar EXCEPT ![Asked(r).browser] = cookies]

Csrf(r) ==
  /\ At(r, "csrf")
  /\ Cookies(r, [jar[Asked(r).browser] EXCEPT !.csrf = TRUE])
  /\ Goto(r, "answered") /\ UNCHANGED Rows

ShowMe(r) ==
  /\ At(r, "me") /\ Goto(r, "answered") /\ UNCHANGED <<Rows, jar>>

FindUser(r) ==
  /\ At(r, "register")
  /\ Goto(r, IF account[Asked(r).user].status = "none" THEN "create" ELSE "refused")
  /\ UNCHANGED <<Rows, jar>>

\* One transaction; emailNormalized is unique, so the later of two registrations fails.
CreateUser(r) ==
  /\ At(r, "create")
  /\ IF account[Asked(r).user].status # "none"
     THEN Goto(r, "refused") /\ UNCHANGED <<account, tokens>>
     ELSE /\ account' = [account EXCEPT ![Asked(r).user] =
                           [status |-> "PENDING_VERIFICATION", pw |-> Asked(r).pw]]
          /\ tokens' = Append(tokens, Token(Asked(r).user, "verify"))
          /\ req' = [req EXCEPT ![r].pc = "mail", ![r].row = Len(tokens) + 1]
  /\ UNCHANGED <<sessions, factors, codes, keys, jar, spent, lifted>>

Mail(r) ==
  /\ At(r, "mail")
  /\ tokens' = [tokens EXCEPT ![req[r].row].mailed = TRUE]
  /\ IF Asked(r).op = "register"
     THEN Cookies(r, [jar[Asked(r).browser] EXCEPT !.csrf = TRUE])
     ELSE UNCHANGED jar
  /\ Goto(r, "answered")
  /\ UNCHANGED <<account, sessions, factors, codes, keys, spent, lifted>>

\* The row login reads holds the password hash, the status and the roles it decides on.
MayLogIn(call) ==
  /\ account[call.user].status \notin Disabled \cup {"none"}
  /\ account[call.user].pw = call.pw
  /\ call.realm = "ADMIN" => call.user \in Admins

LoginRead(r) ==
  /\ At(r, "login")
  /\ Goto(r, IF MayLogIn(Asked(r)) THEN "session" ELSE "refused")
  /\ UNCHANGED <<Rows, jar>>

LoginCreate(r) ==
  LET call == Asked(r)  s == Len(sessions) + 1
      mfa == ~(call.realm = "ADMIN" /\ MfaRequired) IN
  /\ At(r, "session")
  /\ sessions' = Append(sessions, Open(call.user, call.realm, call.pw, mfa, req[r].raced))
  /\ Cookies(r, [csrf |-> TRUE, customer |-> IF call.realm = "ADMIN" THEN 0 ELSE s,
                                admin |-> IF call.realm = "ADMIN" THEN s ELSE 0])
  /\ Goto(r, "answered")
  /\ UNCHANGED <<account, tokens, factors, codes, keys, spent, lifted>>

Logout(r) ==
  /\ At(r, "logout")
  /\ sessions' = [s \in DOMAIN sessions |->
                    IF s = req[r].cookie THEN [sessions[s] EXCEPT !.revoked = TRUE] ELSE sessions[s]]
  /\ Cookies(r, [jar[Asked(r).browser] EXCEPT !.customer = 0, !.admin = 0])
  /\ Goto(r, "answered")
  /\ UNCHANGED <<account, tokens, factors, codes, keys, spent, lifted>>
-----------------------------------------------------------------------------
(* Mailed tokens. *)

Forgot(r) ==
  /\ At(r, "forgot")
  /\ IF account[Asked(r).user].status = "none"
     THEN Goto(r, "answered") /\ UNCHANGED tokens
     ELSE /\ tokens' = Append(tokens, Token(Asked(r).user, "reset"))
          /\ req' = [req EXCEPT ![r].pc = "mail", ![r].row = Len(tokens) + 1]
  /\ UNCHANGED <<account, sessions, factors, codes, keys, jar, spent, lifted>>

\* reset and verify find the token of the link the user followed.
FindToken(r, kind, pc) ==
  /\ At(r, kind)
  /\ \E t \in DOMAIN tokens :
       /\ tokens[t].kind = kind /\ tokens[t].mailed
       /\ IF tokens[t].used \/ tokens[t].expired THEN Goto(r, "refused")
          ELSE req' = [req EXCEPT ![r].pc = pc, ![r].row = t]
  /\ UNCHANGED <<Rows, jar>>

Of(r) == tokens[req[r].row].user
LiveOf(u) == {s \in DOMAIN sessions : sessions[s].user = u /\ ~sessions[s].revoked}

\* The transaction of resetPassword: it holds the credential's row until it commits, and
\* revokes the sessions that are there when its updateMany runs.
ResetWrite(r) ==
  /\ At(r, "resetting")
  /\ \A q \in Requests : At(q, "resetCommit") => Of(q) # Of(r)
  /\ req' = [req EXCEPT ![r].pc = "resetCommit", ![r].rows = LiveOf(Of(r))]
  /\ UNCHANGED <<Rows, jar>>

Revoked_Forgotten(r) == sessions   \* the updateMany on the sessions is missing
Revoked(r) ==
  [s \in DOMAIN sessions |->
     IF s \in req[r].rows THEN [sessions[s] EXCEPT !.revoked = TRUE]
     ELSE IF sessions[s].user = Of(r) THEN [sessions[s] EXCEPT !.raced = TRUE]
     ELSE sessions[s]]

ResetCommit(r) ==
  /\ At(r, "resetCommit")
  /\ tokens' = [tokens EXCEPT ![req[r].row].used = TRUE]
  /\ account' = [account EXCEPT ![Of(r)].pw = Asked(r).pw]
  /\ sessions' = Revoked(r)
  /\ req' = [q \in Requests |->
       IF q = r THEN [Idle EXCEPT !.pc = "answered"]
       ELSE IF At(q, "session") /\ Asked(q).user = Of(r) THEN [req[q] EXCEPT !.raced = TRUE]
       ELSE req[q]]
  /\ UNCHANGED <<factors, codes, keys, jar, spent, lifted>>

Verify(r) ==
  /\ At(r, "verifying")
  /\ tokens' = [tokens EXCEPT ![req[r].row].used = TRUE]
  /\ account' = [account EXCEPT ![Of(r)].status = "ACTIVE"]
  /\ lifted' = IF account[Of(r)].status \in Disabled THEN lifted \cup {Of(r)} ELSE lifted
  /\ Goto(r, "answered")
  /\ UNCHANGED <<sessions, factors, codes, keys, jar, spent>>
-----------------------------------------------------------------------------
(* Second factors. *)

Enroll(r) ==
  /\ At(r, "enroll")
  /\ factors' = Append(factors, [user |-> Me(r), verified |-> FALSE])
  /\ Goto(r, "answered")
  /\ UNCHANGED <<account, sessions, tokens, codes, keys, jar, spent, lifted>>

Pending(u) == {f \in DOMAIN factors : factors[f].user = u /\ ~factors[f].verified}
FindFactor(r) ==
  /\ At(r, "confirm")
  /\ IF Pending(Me(r)) = {} \/ Asked(r).code # "totp" THEN Goto(r, "refused")
     ELSE \E f \in Pending(Me(r)) :
            /\ \A g \in Pending(Me(r)) : g <= f
            /\ req' = [req EXCEPT ![r].pc = "confirming", ![r].row = f]
  /\ UNCHANGED <<Rows, jar>>

\* The transaction holds the factor's row, then deletes the codes it can see.
ConfirmWrite(r) ==
  /\ At(r, "confirming")
  /\ \A q \in Requests : At(q, "confirmCommit") => req[q].row # req[r].row
  /\ req' = [req EXCEPT ![r].pc = "confirmCommit",
                        ![r].rows = {c \in codes : c.user = Me(r)}]
  /\ UNCHANGED <<Rows, jar>>

\* A code another request marked used meanwhile is deleted all the same.
Replaced(r) ==
  {c \in codes : \A d \in req[r].rows : [d EXCEPT !.used = c.used] # c}
    \cup NewCodes(Me(r), r)

ConfirmCommit(r) ==
  /\ At(r, "confirmCommit")
  /\ factors' = [factors EXCEPT ![req[r].row].verified = TRUE]
  /\ codes' = Replaced(r)
  /\ Goto(r, "answered")
  /\ UNCHANGED <<account, sessions, tokens, keys, jar, spent, lifted>>

HasFactor(u) == \E f \in DOMAIN factors : factors[f].user = u /\ factors[f].verified

Recovery_Any(r) ==   \* usedAt: null is missing
  {c \in codes : c.user = Me(r) /\ c.code = Asked(r).code}
Recovery(r) == {c \in codes : c.user = Me(r) /\ ~c.used /\ c.code = Asked(r).code}

\* A code of the authenticator is tried first, then the unused recovery codes.
Challenge(r) ==
  /\ At(r, "challenge")
  /\ IF Asked(r).code = "totp" /\ HasFactor(Me(r)) THEN Goto(r, "satisfy")
     ELSE IF Recovery(r) = {} THEN Goto(r, "refused")
     ELSE \E c \in Recovery(r) : req' = [req EXCEPT ![r].pc = "redeem", ![r].rows = {c}]
  /\ UNCHANGED <<Rows, jar>>

SameCode(c, d) == [c EXCEPT !.used = d.used] = d
\* q has read the row of c and not marked it yet.
Holds(q, c) == At(q, "redeem") /\ \E d \in req[q].rows : SameCode(d, c)
Marked(c) == [c EXCEPT !.used = TRUE]
\* update ... where id: it marks the row whatever it holds by now, and fails only if it is gone.
\* The ghost raced is set for the others that hold the row, not for one that reads it later.
Redeem(r) ==
  /\ At(r, "redeem")
  /\ \E c \in req[r].rows :
       LET same == {d \in codes : SameCode(d, c)}
       IN IF same = {} THEN Goto(r, "refused") /\ UNCHANGED <<codes, spent>>
          ELSE /\ codes' = (codes \ same) \cup {Marked(c)}
               /\ spent' = spent \cup {[user |-> c.user, gen |-> c.gen, code |-> c.code,
                                        req |-> r, raced |-> req[r].raced]}
               /\ req' = [q \in Requests |->
                    IF q = r THEN [req[q] EXCEPT !.pc = "satisfy"]
                    ELSE [req[q] EXCEPT !.raced = @ \/ Holds(q, c)]]
  /\ UNCHANGED <<account, sessions, tokens, factors, keys, jar, lifted>>

Satisfy(r) ==
  /\ At(r, "satisfy")
  /\ sessions' = [sessions EXCEPT ![req[r].who.session].mfa = TRUE]
  /\ Goto(r, "answered")
  /\ UNCHANGED <<account, tokens, factors, codes, keys, jar, spent, lifted>>

StepUp(r) ==
  /\ At(r, "stepUp")
  /\ Goto(r, IF \/ Asked(r).pw = account[Me(r)].pw
                \/ Asked(r).code = "totp" /\ HasFactor(Me(r))
             THEN "stepped" ELSE "refused")
  /\ UNCHANGED <<Rows, jar>>

Stepped(r) ==
  /\ At(r, "stepped")
  /\ sessions' = [sessions EXCEPT ![req[r].who.session].stepped = TRUE]
  /\ Goto(r, "answered")
  /\ UNCHANGED <<account, tokens, factors, codes, keys, jar, spent, lifted>>
-----------------------------------------------------------------------------
(* What administrators do, and time. *)

SetStatus(r) ==
  /\ At(r, "suspend") \/ At(r, "restore")
  /\ IF account[Asked(r).user].status = "none" THEN UNCHANGED account
     ELSE account' = [account EXCEPT ![Asked(r).user].status =
                        IF At(r, "suspend") THEN "SUSPENDED" ELSE "ACTIVE"]
  /\ Goto(r, IF account[Asked(r).user].status = "none" THEN "refused" ELSE "answered")
  /\ UNCHANGED <<sessions, tokens, factors, codes, keys, jar, spent, lifted>>

CreateKey(r) ==
  /\ At(r, "createKey")
  /\ keys' = Append(keys, [by |-> Me(r), revoked |-> FALSE])
  /\ Goto(r, "answered")
  /\ UNCHANGED <<account, sessions, tokens, factors, codes, jar, spent, lifted>>

RevokeKey(r) ==
  /\ At(r, "revokeKey")
  /\ IF keys = <<>> THEN Goto(r, "refused") /\ UNCHANGED keys
     ELSE Goto(r, "answered") /\ \E k \in DOMAIN keys : keys' = [keys EXCEPT ![k].revoked = TRUE]
  /\ UNCHANGED <<account, sessions, tokens, factors, codes, jar, spent, lifted>>

\* expiresAt or absoluteExpiresAt of a session passes, or its step-up lapses.
Expire(s) ==
  /\ Live(s)
  /\ sessions' = [sessions EXCEPT ![s].expired = TRUE, ![s].stepped = FALSE]
  /\ UNCHANGED <<account, tokens, factors, codes, keys, jar, req, spent, lifted>>
ExpireToken(t) ==
  /\ ~tokens[t].expired
  /\ tokens' = [tokens EXCEPT ![t].expired = TRUE]
  /\ UNCHANGED <<account, sessions, factors, codes, keys, jar, req, spent, lifted>>

\* The process dies, or the database refuses a statement: an open transaction is rolled back.
Die(r) ==
  /\ req[r].pc \notin Final \cup {"new"}
  /\ Goto(r, "refused") /\ UNCHANGED <<Rows, jar>>
-----------------------------------------------------------------------------
Handle(r) ==
  \/ Admit(r) \/ Csrf(r) \/ ShowMe(r) \/ FindUser(r) \/ CreateUser(r) \/ Mail(r)
  \/ LoginRead(r) \/ LoginCreate(r) \/ Logout(r) \/ Forgot(r)
  \/ FindToken(r, "reset", "resetting") \/ ResetWrite(r) \/ ResetCommit(r)
  \/ FindToken(r, "verify", "verifying") \/ Verify(r)
  \/ Enroll(r) \/ FindFactor(r) \/ ConfirmWrite(r) \/ ConfirmCommit(r)
  \/ Challenge(r) \/ Redeem(r) \/ Satisfy(r) \/ StepUp(r) \/ Stepped(r)
  \/ SetStatus(r) \/ CreateKey(r) \/ RevokeKey(r)
Next ==
  \/ \E r \in Requests : (\E call \in Calls : Send(r, call)) \/ Handle(r) \/ Die(r)
  \/ \E s \in DOMAIN sessions : Expire(s)
  \/ \E t \in DOMAIN tokens : ExpireToken(t)
Spec == Init /\ [][Next]_vars
-----------------------------------------------------------------------------
TypeOK ==
  /\ account \in [Users -> [status : Disabled \cup {"none", "ACTIVE", "PENDING_VERIFICATION"},
                            pw : {c.pw : c \in Calls} \cup {OldPassword, Nobody}]]
  /\ \A s \in DOMAIN sessions : account[sessions[s].user].status # "none"
  /\ \A t \in DOMAIN tokens : account[tokens[t].user].status # "none"
  /\ codes \subseteq [user : Admins, gen : Requests \cup {Seed}, code : Codes, used : BOOLEAN]
  /\ \A b \in Browsers : jar[b].customer = 0 \/ jar[b].admin = 0

\* A password reset ends the sessions opened with an earlier password.  The one exception is a
\* login that had read the old password and had not stored its session (auth.service.ts:205-265).
LiveSessionsKnowThePassword ==
  \A s \in DOMAIN sessions :
    ~sessions[s].revoked /\ ~sessions[s].raced => sessions[s].pw = account[sessions[s].user].pw

\* Without the exception: what the revocation in resetPassword is for (auth.service.ts:396).
OnlyTheNewPasswordOpens ==
  \A s \in DOMAIN sessions : ~sessions[s].revoked => sessions[s].pw = account[sessions[s].user].pw

\* The recovery codes of a user are those of one answer of confirmTotp, the one he was last
\* shown, however many confirmations ran at once (auth.service.ts:542-562).
OneSetOfCodes ==
  \A c, d \in codes : c.user = d.user => c.gen = d.gen

\* A recovery code satisfies one challenge.  The one exception is a challenge that had read the
\* unused row before another one marked it: the code is looked up and marked in two statements
\* (auth.service.ts:600-615), and the update asks for the id alone.
CodeSpentOnce ==
  \A x, y \in spent : x # y /\ ~x.raced /\ ~y.raced => [x EXCEPT !.req = y.req] # y

\* An account an administrator disabled becomes active again only by an administrator
\* (patchCustomerStatus); verifyEmail sets ACTIVE without looking at the status.
DisabledUntilRestored == lifted = {}
===============================================================================
