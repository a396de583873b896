----------------------------- MODULE AccessProofs -----------------------------
(***************************************************************************)
(* Proofs about who gets in: Accounts for any number of requests, users    *)
(* and browsers, and RateLimiter for any number of requests, processes and *)
(* any limits.                                                             *)
(***************************************************************************)
EXTENDS Accounts, RateLimiter, FiniteSetTheorems, SequenceTheorems, TLAPS

Passwords == {c.pw : c \in Calls} \cup {OldPassword, Nobody}
Realms == {"CUSTOMER", "ADMIN"}
AccountRow == [status : Disabled \cup {"none", "ACTIVE", "PENDING_VERIFICATION"}, pw : Passwords]
Session == [user : Users, realm : Realms, revoked : BOOLEAN, expired : BOOLEAN, mfa : BOOLEAN,
            stepped : BOOLEAN, pw : Passwords, raced : BOOLEAN]
TokenRow == [user : Users, kind : {"reset", "verify"}, used : BOOLEAN, expired : BOOLEAN,
             mailed : BOOLEAN]
Factor == [user : Admins, verified : BOOLEAN]
Code == [user : Admins, gen : Requests \cup {Seed}, code : Codes, used : BOOLEAN]
Use == [user : Admins, gen : Requests \cup {Seed}, code : Codes, req : Requests, raced : BOOLEAN]
Cookie == [csrf : BOOLEAN, customer : Nat, admin : Nat]
Who == [session : Nat, user : Users \cup {Nobody}, realm : Realms, mfa : BOOLEAN]
PCs == {"new", "guard", "answered", "refused", "csrf", "register", "login", "logout", "forgot",
        "reset", "verify", "suspend", "restore", "createKey", "revokeKey", "me", "enroll",
        "confirm", "challenge", "stepUp", "create", "mail", "session", "resetting", "resetCommit",
        "verifying", "confirming", "confirmCommit", "redeem", "satisfy", "stepped"}
Place == [pc : PCs, call : Calls \cup {NoCall}, cookie : Nat, who : Who,
          row : Nat, rows : SUBSET (Nat \cup Code), raced : BOOLEAN]

Shapes ==
  /\ account \in [Users -> AccountRow]
  /\ sessions \in Seq(Session) /\ tokens \in Seq(TokenRow) /\ factors \in Seq(Factor)
  /\ codes \subseteq Code /\ spent \subseteq Use
  /\ jar \in [Browsers -> Cookie]
  /\ req \in [Requests -> Place]

\* The sets of codes there have been: those of the start and of every finished request.
Generations == {Seed} \cup {q \in Requests : req[q].pc \in Final}
Exists(u) == account[u].status # "none"

Names(x, c) == x.user = c.user /\ x.gen = c.gen /\ x.code = c.code

\* What a request has read and still holds of it: the code of a challenge was unused when it was
\* read, and nobody has spent it since unless the challenge is marked as raced.
PlaceOK(p) ==
  /\ p.pc \notin Final \cup {"new"} => p.call \in Calls
  /\ p.cookie \in 0..Len(sessions) /\ p.who.session \in 0..Len(sessions)
  /\ p.pc \in {"resetting", "resetCommit", "verifying"} => p.row \in DOMAIN tokens
  /\ p.pc = "session" =>
       /\ Exists(p.call.user)
       /\ p.call.realm = "ADMIN" => p.call.user \in Admins
       /\ ~p.raced => account[p.call.user].pw = p.call.pw
  /\ p.pc \in {"enroll", "confirming", "confirmCommit"} => p.who.user \in Admins
  /\ p.pc = "redeem" => \A c \in p.rows : c \in Code /\ ~c.used /\ c.gen \in Generations
  /\ p.pc = "redeem" /\ ~p.raced => \A c \in p.rows, x \in spent : ~Names(x, c)

PlacesOK == \A r \in Requests : PlaceOK(req[r])
SessionOK(s) ==
  /\ Exists(s.user)
  /\ s.realm = "ADMIN" => s.user \in Admins
  /\ ~s.revoked /\ ~s.raced => s.pw = account[s.user].pw
SessionsOK == \A s \in DOMAIN sessions : SessionOK(sessions[s])
TokensOK == \A t \in DOMAIN tokens : Exists(tokens[t].user)
JarOK ==
  \A b \in Browsers :
    /\ jar[b].customer \in 0..Len(sessions) /\ jar[b].admin \in 0..Len(sessions)
    /\ jar[b].customer = 0 \/ jar[b].admin = 0

\* A code that was spent is marked or gone, and never comes back: a set of codes is written once.
CodesOK ==
  /\ \A c \in codes : c.gen \in Generations
  /\ \A x \in spent : x.gen \in Generations
  /\ \A x \in spent, c \in codes : Names(x, c) => c.used
  /\ \A x, y \in spent : ~x.raced /\ ~y.raced /\ Names(x, y) => x = y

IInv == Shapes /\ PlacesOK /\ SessionsOK /\ TokensOK /\ JarOK /\ CodesOK

-----------------------------------------------------------------------------
LEMMA Appended ==
  ASSUME NEW S, NEW s \in Seq(S), NEW e \in S
  PROVE  /\ Append(s, e) \in Seq(S) /\ Len(s) \in Nat /\ Len(Append(s, e)) = Len(s) + 1
         /\ DOMAIN Append(s, e) = DOMAIN s \cup {Len(s) + 1}
         /\ Len(s) + 1 \notin DOMAIN s
         /\ \A i \in DOMAIN s : Append(s, e)[i] = s[i]
         /\ Append(s, e)[Len(s) + 1] = e
<1>1. DOMAIN s = 1..Len(s) /\ Len(s) \in Nat
  BY LenProperties
<1>2. /\ Append(s, e) \in Seq(S) /\ Len(Append(s, e)) = Len(s) + 1
      /\ Append(s, e)[Len(s) + 1] = e
      /\ \A i \in 1..Len(s) : Append(s, e)[i] = s[i]
  BY AppendProperties
<1>3. DOMAIN Append(s, e) = 1..(Len(s) + 1)
  BY <1>2, LenProperties
<1> QED
  BY <1>1, <1>2, <1>3

LEMMA Mapped ==
  ASSUME NEW S, NEW s \in Seq(S), NEW t \in [DOMAIN s -> S]
  PROVE  t \in Seq(S) /\ Len(t) = Len(s) /\ DOMAIN t = DOMAIN s
<1>1. DOMAIN s = 1..Len(s) /\ Len(s) \in Nat
  BY LenProperties
<1>2. t \in Seq(S)
  BY <1>1, SeqDef
<1>3. DOMAIN t = 1..Len(t) /\ Len(t) \in Nat
  BY <1>2, LenProperties
<1> QED
  BY <1>1, <1>2, <1>3

LEMMA Elements ==
  ASSUME Shapes
  PROVE  /\ \A s \in DOMAIN sessions : s \in Nat /\ sessions[s] \in Session
         /\ \A t \in DOMAIN tokens : t \in Nat /\ tokens[t] \in TokenRow
         /\ \A f \in DOMAIN factors : f \in Nat /\ factors[f] \in Factor
         /\ Len(sessions) \in Nat /\ DOMAIN sessions = 1..Len(sessions)
         /\ Len(tokens) \in Nat /\ DOMAIN tokens = 1..Len(tokens)
<1>1. ASSUME NEW S, NEW s \in Seq(S)
      PROVE  /\ Len(s) \in Nat /\ DOMAIN s = 1..Len(s)
             /\ \A i \in DOMAIN s : i \in Nat /\ s[i] \in S
  BY LenProperties, ElementOfSeq
<1> QED
  BY <1>1 DEF Shapes

\* The call of a request that is under way.
LEMMA Called ==
  ASSUME IInv, NEW r \in Requests, req[r].pc \notin Final \cup {"new"}
  PROVE  /\ Asked(r) \in Calls /\ Asked(r).user \in Users /\ Asked(r).browser \in Browsers
         /\ Asked(r).realm \in Realms /\ Asked(r).pw \in Passwords
         /\ req[r] \in Place /\ Me(r) \in Users \cup {Nobody}
<1>1. PlaceOK(req[r]) /\ req[r] \in Place
  BY DEF IInv, PlacesOK, Shapes
<1>2. req[r].call \in Calls /\ req[r].who \in Who
  BY <1>1 DEF PlaceOK, Place
<1> QED
  BY <1>1, <1>2, AccountsAssumption DEF Asked, Realms, Passwords, Me, Who

-----------------------------------------------------------------------------
(* What a step keeps of the rows for the other requests. *)

Kept ==
  /\ \A u \in Users : Exists(u) => Exists(u)' /\ account'[u].pw = account[u].pw
  /\ Len(sessions) <= Len(sessions')
  /\ \A t \in DOMAIN tokens : t \in DOMAIN tokens' /\ tokens'[t].user = tokens[t].user
  /\ Generations \subseteq Generations'
  /\ spent' \subseteq spent

LEMMA PlaceStays ==
  ASSUME Shapes, Shapes', Kept, NEW p \in Place, PlaceOK(p)
  PROVE  PlaceOK(p)'
<1>1. Len(sessions) \in Nat /\ Len(sessions') \in Nat /\ Len(sessions) <= Len(sessions')
  BY LenProperties DEF Shapes, Kept
<1>2. p.pc = "session" => p.call.user \in Users
  BY AccountsAssumption DEF PlaceOK, Final
<1> QED
  BY <1>1, <1>2 DEF PlaceOK, Kept, Place, Who

LEMMA GenerationsGrow ==
  ASSUME NEW r \in Requests, req \in [Requests -> Place], NEW p, req[r].pc \notin Final,
         req' = [req EXCEPT ![r] = p]
  PROVE  Generations \subseteq Generations'
BY DEF Generations

\* One request moves to a place that is right; the others stay.
LEMMA OthersStay ==
  ASSUME IInv, Shapes', Kept, NEW r \in Requests, NEW p, PlaceOK(p)',
         req' = [req EXCEPT ![r] = p]
  PROVE  PlacesOK'
<1>1. ASSUME NEW q \in Requests PROVE PlaceOK(req[q])'
  <2>1. CASE q = r
    <3>1. req'[q] = p
      BY <2>1 DEF IInv, Shapes
    <3> QED
      BY <3>1 DEF PlaceOK, Exists, Generations
  <2>2. CASE q # r
    <3>1. req'[q] = req[q] /\ req[q] \in Place /\ PlaceOK(req[q])
      BY <2>2 DEF IInv, Shapes, PlacesOK
    <3>2. PICK k : k = req[q]
      OBVIOUS
    <3>3. PlaceOK(k)'
      BY <3>1, <3>2, PlaceStays DEF IInv
    <3> QED
      BY <3>1, <3>2, <3>3 DEF PlaceOK, Exists, Generations
  <2> QED
    BY <2>1, <2>2
<1> QED
  BY <1>1 DEF PlacesOK
-----------------------------------------------------------------------------
(* Steps of one request. *)

Moves(r) == \E p \in Place : PlaceOK(p) /\ req' = [req EXCEPT ![r] = p]

LEMMA Moved ==
  ASSUME IInv, NEW r \in Requests, req[r].pc \notin Final, Moves(r)
  PROVE  req' \in [Requests -> Place] /\ Generations \subseteq Generations'
<1>1. PICK p \in Place : PlaceOK(p) /\ req' = [req EXCEPT ![r] = p]
  BY DEF Moves
<1>2. req \in [Requests -> Place]
  BY DEF IInv, Shapes
<1> QED
  BY <1>1, <1>2, GenerationsGrow

LEMMA Frame ==
  ASSUME IInv, Shapes', Kept
  PROVE  /\ sessions' = sessions => SessionsOK'
         /\ tokens' = tokens => TokensOK'
         /\ jar' = jar => JarOK'
         /\ UNCHANGED <<codes, spent>> => CodesOK'
<1>1. /\ \A s \in DOMAIN sessions : sessions[s].user \in Users
      /\ \A t \in DOMAIN tokens : tokens[t].user \in Users
  BY Elements DEF IInv, Session, TokenRow
<1>2. Len(sessions) \in Nat /\ Len(sessions') \in Nat /\ Len(sessions) <= Len(sessions')
  BY LenProperties DEF IInv, Shapes, Kept
<1>3. ASSUME sessions' = sessions PROVE SessionsOK'
  BY <1>1, <1>3 DEF IInv, SessionsOK, SessionOK, Kept, Exists
<1>4. ASSUME tokens' = tokens PROVE TokensOK'
  BY <1>1, <1>4 DEF IInv, TokensOK, Kept, Exists
<1>5. ASSUME jar' = jar PROVE JarOK'
  BY <1>2, <1>5 DEF IInv, JarOK, Shapes, Cookie
<1>6. ASSUME UNCHANGED <<codes, spent>> PROVE CodesOK'
  BY <1>6 DEF IInv, CodesOK, Kept
<1> QED
  BY <1>3, <1>4, <1>5, <1>6

LEMMA PlacesStay ==
  ASSUME IInv, Shapes', Kept, NEW r \in Requests, Moves(r)
  PROVE  PlacesOK'
<1>1. PICK p \in Place : PlaceOK(p) /\ req' = [req EXCEPT ![r] = p]
  BY DEF Moves
<1>2. PlaceOK(p)'
  BY <1>1, PlaceStays DEF IInv
<1> QED
  BY <1>1, <1>2, OthersStay

\* Where a step ends that ends the request or only names the next statement.
LEMMA Going ==
  ASSUME IInv, NEW r \in Requests, NEW pc \in PCs, Goto(r, pc),
         pc \notin Final => PlaceOK([req[r] EXCEPT !.pc = pc])
  PROVE  Moves(r)
<1>1. req[r] \in Place
  BY DEF IInv, Shapes
<1>2. CASE pc \in Final
  <2>1. [Idle EXCEPT !.pc = pc] \in Place
    BY DEF Place, Idle, Who, NoPrincipal, Realms
  <2>2. Len(sessions) \in Nat
    BY LenProperties DEF IInv, Shapes
  <2>3. PlaceOK([Idle EXCEPT !.pc = pc])
    BY <1>2, <2>2 DEF PlaceOK, Idle, NoPrincipal, Final
  <2> QED
    BY <1>2, <2>1, <2>3 DEF Moves, Goto
<1>3. CASE pc \notin Final
  <2>1. [req[r] EXCEPT !.pc = pc] \in Place
    BY <1>1 DEF Place
  <2>2. req' = [req EXCEPT ![r] = [req[r] EXCEPT !.pc = pc]]
    BY <1>3 DEF Goto
  <2> QED
    BY <1>3, <2>1, <2>2 DEF Moves
<1> QED
  BY <1>2, <1>3

\* A step that only reads.
LEMMA Reading ==
  ASSUME IInv, NEW r \in Requests, req[r].pc \notin Final, Moves(r), UNCHANGED <<Rows, jar>>
  PROVE  IInv'
<1>1. req' \in [Requests -> Place] /\ Generations \subseteq Generations'
  BY Moved
<1>2. Shapes'
  BY <1>1 DEF IInv, Shapes, Rows
<1>3. Kept
  <2>1. Len(sessions) \in Nat
    BY LenProperties DEF IInv, Shapes
  <2> QED
    BY <1>1, <2>1 DEF Kept, Rows, Exists
<1> QED
  BY <1>2, <1>3, Frame, PlacesStay DEF IInv, Rows

\* The same place with another name.
LEMMA Renamed ==
  ASSUME IInv, NEW r \in Requests, req[r].pc \notin Final \cup {"new"}, NEW pc \in PCs,
         pc \notin {"resetting", "resetCommit", "verifying", "session", "enroll", "confirming",
                   "confirmCommit", "redeem"}
  PROVE  PlaceOK([req[r] EXCEPT !.pc = pc])
<1>1. PlaceOK(req[r]) /\ req[r] \in Place
  BY DEF IInv, PlacesOK, Shapes
<1> QED
  BY <1>1 DEF PlaceOK, Place

LEMMA Ending ==
  ASSUME IInv, NEW r \in Requests, NEW pc \in Final, Goto(r, pc)
  PROVE  Moves(r)
<1>1. pc \in PCs
  BY DEF Final, PCs
<1> QED
  BY <1>1, Going

LEMMA SendStep ==
  ASSUME IInv, NEW r \in Requests, NEW call \in Calls, Send(r, call)
  PROVE  IInv'
<1> DEFINE cookies == jar[call.browser]
<1>1. req[r].pc = "new" /\ UNCHANGED <<Rows, jar>>
  BY DEF Send
<1>2. /\ call.browser \in Browsers /\ call.op \in PCs /\ "guard" \in PCs
      /\ call.op \notin {"resetting", "resetCommit", "verifying", "session", "confirming",
                        "confirmCommit", "redeem"}
      /\ call.op \in Public => call.op # "enroll"
  BY AccountsAssumption DEF Public, AdminOnly, PCs
<1>3. SessionCookie(cookies) \in 0..Len(sessions) /\ Len(sessions) \in Nat
  <2>1. cookies.customer \in 0..Len(sessions) /\ cookies.admin \in 0..Len(sessions)
    BY <1>2 DEF IInv, JarOK
  <2> QED
    BY <2>1, LenProperties DEF IInv, Shapes, SessionCookie
<1>4. CASE CsrfAllows(call, cookies)
  <2> DEFINE p == [Idle EXCEPT !.pc = IF call.op \in Public THEN call.op ELSE "guard",
                               !.call = call, !.cookie = SessionCookie(cookies)]
  <2>1. req' = [req EXCEPT ![r] = p]
    BY <1>4 DEF Send
  <2>2. p \in Place
    <3>1. Idle \in Place
      BY DEF Place, Idle, Who, NoPrincipal, Realms, PCs
    <3>2. SessionCookie(cookies) \in Nat
      BY <1>3
    <3> QED
      BY <1>2, <3>1, <3>2 DEF Place
  <2>3. /\ p.pc = IF call.op \in Public THEN call.op ELSE "guard"
        /\ p.call = call /\ p.cookie = SessionCookie(cookies) /\ p.who = NoPrincipal
    BY DEF Idle
  <2> HIDE DEF p
  <2>4. p.pc \notin {"resetting", "resetCommit", "verifying", "session", "enroll", "confirming",
                    "confirmCommit", "redeem"}
    BY <1>2, <2>3
  <2>5. PlaceOK(p)
    BY <1>3, <2>3, <2>4 DEF PlaceOK, NoPrincipal
  <2> QED
    BY <1>1, <2>1, <2>2, <2>5, Reading DEF Moves, Final
<1>5. CASE ~CsrfAllows(call, cookies)
  <2>1. Goto(r, "refused")
    BY <1>5 DEF Send
  <2> QED
    BY <1>1, <2>1, Ending, Reading DEF Final
<1> QED
  BY <1>4, <1>5

LEMMA AdmitStep ==
  ASSUME IInv, NEW r \in Requests, Admit(r)
  PROVE  IInv'
<1> DEFINE s == req[r].cookie
<1>1. req[r].pc = "guard" /\ req[r].pc \notin Final \cup {"new"} /\ UNCHANGED <<Rows, jar>>
  BY DEF Admit, Final
<1>2. PlaceOK(req[r]) /\ req[r] \in Place /\ req[r].call \in Calls
  BY <1>1 DEF IInv, PlacesOK, Shapes, PlaceOK
<1>3. CASE s # 0 /\ Live(s) /\ Entitled(Principal(s), req[r].call.op)
  <2> DEFINE p == [req[r] EXCEPT !.pc = req[r].call.op, !.who = Principal(s)]
  <2>1. req' = [req EXCEPT ![r] = p]
    BY <1>3 DEF Admit
  <2>2. s \in DOMAIN sessions /\ s \in 0..Len(sessions)
    BY <1>2, <1>3, Elements DEF PlaceOK, IInv
  <2>3. sessions[s] \in Session /\ SessionOK(sessions[s]) /\ s \in Nat
    BY <2>2, Elements DEF IInv, SessionsOK
  <2>4. Principal(s) \in Who
    BY <2>3 DEF Principal, Who, Session
  <2>5. req[r].call.op \in PCs
        /\ req[r].call.op \notin {"resetting", "resetCommit", "verifying", "session", "confirming",
                                 "confirmCommit", "redeem"}
    BY <1>2, AccountsAssumption DEF Public, AdminOnly, PCs
  <2>6. p \in Place
    BY <1>2, <2>4, <2>5 DEF Place
  <2>7. /\ p.pc = req[r].call.op /\ p.call = req[r].call /\ p.cookie = s
        /\ p.who = Principal(s)
    BY <1>2 DEF Place
  <2>8. p.pc = "enroll" => p.who.user \in Admins
    BY <1>3, <2>3, <2>7 DEF Entitled, Principal, SessionOK
  <2>9. p.who.session \in 0..Len(sessions)
    BY <2>2, <2>7 DEF Principal
  <2> HIDE DEF p
  <2>10. PlaceOK(p)
    BY <1>2, <2>2, <2>5, <2>7, <2>8, <2>9 DEF PlaceOK
  <2> QED
    BY <1>1, <2>1, <2>6, <2>10, Reading DEF Moves
<1>4. CASE ~(s # 0 /\ Live(s) /\ Entitled(Principal(s), req[r].call.op))
  <2>1. Goto(r, "refused")
    BY <1>4 DEF Admit
  <2> QED
    BY <1>1, <2>1, Ending, Reading DEF Final
<1> QED
  BY <1>3, <1>4

\* Steps that read, and only go on to a place that asks for nothing or end.
LEMMA GoingOn ==
  ASSUME IInv, NEW r \in Requests, NEW pc \in PCs, req[r].pc \notin Final \cup {"new"},
         pc \notin {"resetting", "resetCommit", "verifying", "session", "enroll", "confirming",
                   "confirmCommit", "redeem"},
         Goto(r, pc), UNCHANGED <<Rows, jar>>
  PROVE  IInv'
<1>1. PlaceOK([req[r] EXCEPT !.pc = pc])
  BY Renamed
<1>2. Moves(r)
  BY <1>1, Going
<1> QED
  BY <1>2, Reading

LEMMA ReadSteps ==
  ASSUME IInv, NEW r \in Requests, ShowMe(r) \/ FindUser(r) \/ StepUp(r) \/ Die(r)
  PROVE  IInv'
<1>1. CASE ShowMe(r)
  BY <1>1, GoingOn DEF ShowMe, At, Final, PCs
<1>2. CASE FindUser(r)
  <2>1. PICK pc \in {"create", "refused"} : Goto(r, pc)
    BY <1>2 DEF FindUser
  <2> QED
    BY <1>2, <2>1, GoingOn DEF FindUser, At, Final, PCs
<1>3. CASE StepUp(r)
  <2> DEFINE pc == IF \/ Asked(r).pw = account[Me(r)].pw
                      \/ Asked(r).code = "totp" /\ HasFactor(Me(r))
                   THEN "stepped" ELSE "refused"
  <2>1. pc \in {"stepped", "refused"}
    OBVIOUS
  <2>2. Goto(r, pc) /\ At(r, "stepUp") /\ UNCHANGED <<Rows, jar>>
    BY <1>3 DEF StepUp
  <2> HIDE DEF pc
  <2> QED
    BY <2>1, <2>2, GoingOn DEF At, Final, PCs
<1>4. CASE Die(r)
  BY <1>4, GoingOn DEF Die, Final, PCs
<1> QED
  BY <1>1, <1>2, <1>3, <1>4

LEMMA LoginReadStep ==
  ASSUME IInv, NEW r \in Requests, LoginRead(r)
  PROVE  IInv'
<1>1. req[r].pc = "login" /\ req[r].pc \notin Final \cup {"new"} /\ UNCHANGED <<Rows, jar>>
  BY DEF LoginRead, At, Final
<1>2. CASE MayLogIn(Asked(r))
  <2>1. Goto(r, "session")
    BY <1>2 DEF LoginRead
  <2>2. PlaceOK(req[r]) /\ req[r] \in Place
    BY DEF IInv, PlacesOK, Shapes
  <2>3. PlaceOK([req[r] EXCEPT !.pc = "session"])
    BY <1>1, <1>2, <2>2 DEF PlaceOK, Place, MayLogIn, Asked, Exists, Final
  <2> QED
    BY <1>1, <2>1, <2>3, Going, Reading DEF PCs
<1>3. CASE ~MayLogIn(Asked(r))
  BY <1>1, <1>3, GoingOn DEF LoginRead, PCs
<1> QED
  BY <1>2, <1>3

LEMMA FindTokenStep ==
  ASSUME IInv, NEW r \in Requests, NEW kind \in {"reset", "verify"},
         NEW pc \in {"resetting", "verifying"}, FindToken(r, kind, pc)
  PROVE  IInv'
<1>1. req[r].pc \notin Final \cup {"new"} /\ UNCHANGED <<Rows, jar>>
  BY DEF FindToken, At, Final
<1>2. PICK t \in DOMAIN tokens :
        IF tokens[t].used \/ tokens[t].expired THEN Goto(r, "refused")
        ELSE req' = [req EXCEPT ![r].pc = pc, ![r].row = t]
  BY DEF FindToken
<1>3. CASE Goto(r, "refused")
  BY <1>1, <1>3, GoingOn DEF PCs
<1>4. CASE req' = [req EXCEPT ![r].pc = pc, ![r].row = t]
  <2> DEFINE p == [req[r] EXCEPT !.pc = pc, !.row = t]
  <2>1. PlaceOK(req[r]) /\ req[r] \in Place
    BY DEF IInv, PlacesOK, Shapes
  <2>2. t \in Nat
    BY <1>2, Elements DEF IInv
  <2>3. p \in Place
    BY <2>1, <2>2 DEF Place, PCs
  <2>4. req' = [req EXCEPT ![r] = p]
    BY <1>4 DEF IInv, Shapes
  <2>5. PlaceOK(p)
    BY <1>1, <1>2, <2>1 DEF PlaceOK, Place, Final
  <2> QED
    BY <1>1, <2>3, <2>4, <2>5, Reading DEF Moves
<1> QED
  BY <1>2, <1>3, <1>4

\* The reads that keep rows: a session's sessions, a user's codes, a factor, a code.
LEMMA Keeping ==
  ASSUME IInv, NEW r \in Requests, req[r].pc \notin Final, UNCHANGED <<Rows, jar>>,
         NEW pc \in PCs, NEW row \in Nat, NEW rows \in SUBSET (Nat \cup Code),
         PlaceOK([req[r] EXCEPT !.pc = pc, !.row = row, !.rows = rows]),
         req' = [req EXCEPT ![r] = [req[r] EXCEPT !.pc = pc, !.row = row, !.rows = rows]]
  PROVE  IInv'
<1>1. req[r] \in Place
  BY DEF IInv, Shapes
<1>2. [req[r] EXCEPT !.pc = pc, !.row = row, !.rows = rows] \in Place
  BY <1>1 DEF Place
<1> QED
  BY <1>2, Reading DEF Moves

LEMMA ResetWriteStep ==
  ASSUME IInv, NEW r \in Requests, ResetWrite(r)
  PROVE  IInv'
<1> DEFINE p == [req[r] EXCEPT !.pc = "resetCommit", !.row = req[r].row, !.rows = LiveOf(Of(r))]
<1>1. req[r].pc = "resetting" /\ req[r].pc \notin Final \cup {"new"} /\ UNCHANGED <<Rows, jar>>
  BY DEF ResetWrite, At, Final
<1>2. PlaceOK(req[r]) /\ req[r] \in Place
  BY DEF IInv, PlacesOK, Shapes
<1>3. LiveOf(Of(r)) \in SUBSET (Nat \cup Code)
  BY Elements DEF LiveOf, IInv
<1>4. req' = [req EXCEPT ![r] = p]
  BY <1>2 DEF ResetWrite, IInv, Shapes, Place
<1>5. PlaceOK(p)
  BY <1>1, <1>2 DEF PlaceOK, Place, Final
<1>6. req[r].row \in Nat /\ "resetCommit" \in PCs
  BY <1>2 DEF Place, PCs
<1> QED
  BY <1>1, <1>3, <1>4, <1>5, <1>6, Keeping

LEMMA FindFactorStep ==
  ASSUME IInv, NEW r \in Requests, FindFactor(r)
  PROVE  IInv'
<1>1. req[r].pc = "confirm" /\ req[r].pc \notin Final \cup {"new"} /\ UNCHANGED <<Rows, jar>>
  BY DEF FindFactor, At, Final
<1>2. PlaceOK(req[r]) /\ req[r] \in Place
  BY DEF IInv, PlacesOK, Shapes
<1>3. CASE Goto(r, "refused")
  BY <1>1, <1>3, GoingOn DEF PCs
<1>4. ASSUME NEW f \in Pending(Me(r)),
             req' = [req EXCEPT ![r].pc = "confirming", ![r].row = f]
      PROVE  IInv'
  <2> DEFINE p == [req[r] EXCEPT !.pc = "confirming", !.row = f, !.rows = req[r].rows]
  <2>1. f \in DOMAIN factors /\ factors[f].user = Me(r)
    BY <1>4 DEF Pending
  <2>2. f \in Nat /\ Me(r) \in Admins
    BY <2>1, Elements DEF IInv, Factor
  <2>3. req' = [req EXCEPT ![r] = p]
    BY <1>2, <1>4 DEF IInv, Shapes, Place
  <2>4. PlaceOK(p)
    BY <1>1, <1>2, <2>2 DEF PlaceOK, Place, Final, Me
  <2>5. req[r].rows \in SUBSET (Nat \cup Code) /\ "confirming" \in PCs
    BY <1>2 DEF Place, PCs
  <2> QED
    BY <1>1, <2>2, <2>3, <2>4, <2>5, Keeping
<1> QED
  BY <1>3, <1>4 DEF FindFactor

LEMMA ConfirmWriteStep ==
  ASSUME IInv, NEW r \in Requests, ConfirmWrite(r)
  PROVE  IInv'
<1> DEFINE rows == {c \in codes : c.user = Me(r)}
<1> DEFINE p == [req[r] EXCEPT !.pc = "confirmCommit", !.row = req[r].row, !.rows = rows]
<1>1. req[r].pc = "confirming" /\ req[r].pc \notin Final \cup {"new"} /\ UNCHANGED <<Rows, jar>>
  BY DEF ConfirmWrite, At, Final
<1>2. PlaceOK(req[r]) /\ req[r] \in Place
  BY DEF IInv, PlacesOK, Shapes
<1>3. rows \in SUBSET (Nat \cup Code)
  BY DEF IInv, Shapes
<1>4. req' = [req EXCEPT ![r] = p]
  BY <1>2 DEF ConfirmWrite, IInv, Shapes, Place
<1>5. PlaceOK(p)
  BY <1>1, <1>2 DEF PlaceOK, Place, Final
<1>6. req[r].row \in Nat /\ "confirmCommit" \in PCs
  BY <1>2 DEF Place, PCs
<1> HIDE DEF rows
<1> QED
  BY <1>1, <1>3, <1>4, <1>5, <1>6, Keeping

LEMMA ChallengeStep ==
  ASSUME IInv, NEW r \in Requests, Challenge(r)
  PROVE  IInv'
<1>1. req[r].pc = "challenge" /\ req[r].pc \notin Final \cup {"new"} /\ UNCHANGED <<Rows, jar>>
  BY DEF Challenge, At, Final
<1>2. PlaceOK(req[r]) /\ req[r] \in Place
  BY DEF IInv, PlacesOK, Shapes
<1>3. CASE Goto(r, "refused") \/ Goto(r, "satisfy")
  BY <1>1, <1>3, GoingOn DEF PCs
<1>4. ASSUME NEW c \in Recovery(r), req' = [req EXCEPT ![r].pc = "redeem", ![r].rows = {c}]
      PROVE  IInv'
  <2> DEFINE p == [req[r] EXCEPT !.pc = "redeem", !.row = req[r].row, !.rows = {c}]
  <2>1. c \in Code /\ ~c.used /\ c.gen \in Generations /\ \A x \in spent : ~Names(x, c)
    BY <1>4 DEF IInv, Shapes, CodesOK, Recovery
  <2>2. req' = [req EXCEPT ![r] = p]
    BY <1>2, <1>4 DEF IInv, Shapes, Place
  <2>3. PlaceOK(p)
    BY <1>1, <1>2, <2>1 DEF PlaceOK, Place, Final
  <2>4. req[r].row \in Nat /\ {c} \in SUBSET (Nat \cup Code) /\ "redeem" \in PCs
    BY <1>2, <2>1 DEF Place, PCs
  <2> QED
    BY <1>1, <2>2, <2>3, <2>4, Keeping
<1> QED
  BY <1>3, <1>4 DEF Challenge

-----------------------------------------------------------------------------
(* Steps that write. *)

\* A write that leaves every account that exists with its password.
LEMMA Writing ==
  ASSUME IInv, NEW r \in Requests, req[r].pc \notin Final, Moves(r), Shapes',
         \A u \in Users : Exists(u) => Exists(u)' /\ account'[u].pw = account[u].pw,
         Len(sessions) <= Len(sessions'), spent' = spent,
         \A t \in DOMAIN tokens : t \in DOMAIN tokens' /\ tokens'[t].user = tokens[t].user
  PROVE  Kept /\ PlacesOK'
<1>1. Kept
  BY Moved DEF Kept
<1> QED
  BY <1>1, PlacesStay

\* A write to a table nothing here rests on.
LEMMA Quiet ==
  ASSUME IInv, NEW r \in Requests, req[r].pc \notin Final, Moves(r),
         UNCHANGED <<account, sessions, tokens, factors, codes, jar, spent>>
  PROVE  IInv'
<1>1. Shapes' /\ Len(sessions) \in Nat
  BY Moved, LenProperties DEF IInv, Shapes
<1>2. Kept /\ PlacesOK'
  BY <1>1, Writing DEF Exists
<1> QED
  BY <1>1, <1>2, Frame DEF IInv

LEMMA CsrfStep ==
  ASSUME IInv, NEW r \in Requests, Csrf(r)
  PROVE  IInv'
<1>1. req[r].pc \notin Final \cup {"new"} /\ UNCHANGED Rows /\ Moves(r)
  BY Ending DEF Csrf, At, Final
<1>2. PICK b \in Browsers : b = Asked(r).browser
  BY <1>1, Called
<1>3. jar' = [jar EXCEPT ![b] = [jar[b] EXCEPT !.csrf = TRUE]]
  BY <1>2 DEF Csrf, Cookies
<1>4. jar' \in [Browsers -> Cookie]
  BY <1>3 DEF IInv, Shapes, Cookie
<1>5. Shapes'
  BY <1>1, <1>4, Moved DEF IInv, Shapes, Rows
<1>6. Len(sessions) \in Nat
  BY LenProperties DEF IInv, Shapes
<1>7. Kept /\ PlacesOK'
  BY <1>1, <1>5, <1>6, Writing DEF Rows, Exists
<1>8. JarOK'
  BY <1>1, <1>3 DEF IInv, JarOK, Shapes, Cookie, Rows
<1> QED
  BY <1>1, <1>5, <1>7, <1>8, Frame DEF IInv, Rows

LEMMA Unmoved ==
  ASSUME IInv, Shapes', Kept, req' = req
  PROVE  PlacesOK'
<1>1. ASSUME NEW q \in Requests PROVE PlaceOK(req[q])'
  <2>1. PICK k \in Place : k = req[q] /\ PlaceOK(k)
    BY DEF IInv, Shapes, PlacesOK
  <2>2. PlaceOK(k)'
    BY <2>1, PlaceStays DEF IInv
  <2> QED
    BY <2>1, <2>2 DEF PlaceOK, Exists, Generations
<1> QED
  BY <1>1 DEF PlacesOK

\* A write that may revoke sessions or mark them, and may empty a browser's cookies.
LEMMA Touched ==
  ASSUME IInv, NEW t \in [DOMAIN sessions -> Session], sessions' = t,
         \A s \in DOMAIN sessions :
           /\ t[s].user = sessions[s].user /\ t[s].realm = sessions[s].realm
           /\ t[s].pw = sessions[s].pw /\ t[s].raced = sessions[s].raced
           /\ ~t[s].revoked => ~sessions[s].revoked,
         jar' \in [Browsers -> Cookie],
         \A b \in Browsers :
           jar'[b].customer \in {0, jar[b].customer} /\ jar'[b].admin \in {0, jar[b].admin},
         req' \in [Requests -> Place], Generations \subseteq Generations',
         Kept /\ Shapes' => PlacesOK',
         UNCHANGED <<account, tokens, factors, codes, spent>>
  PROVE  IInv'
<1>1. t \in Seq(Session) /\ Len(t) = Len(sessions) /\ DOMAIN t = DOMAIN sessions
      /\ Len(sessions) \in Nat
  BY Mapped, LenProperties DEF IInv, Shapes
<1>2. Shapes'
  BY <1>1 DEF IInv, Shapes
<1>3. Kept
  BY <1>1 DEF Kept, Exists
<1>4. SessionsOK'
  BY <1>1 DEF IInv, SessionsOK, SessionOK, Exists
<1>5. JarOK'
  BY <1>1 DEF IInv, JarOK
<1> QED
  BY <1>2, <1>3, <1>4, <1>5, Frame DEF IInv

LEMMA TouchedBy ==
  ASSUME IInv, NEW r \in Requests, req[r].pc \notin Final, Moves(r),
         NEW t \in [DOMAIN sessions -> Session], sessions' = t,
         \A s \in DOMAIN sessions :
           /\ t[s].user = sessions[s].user /\ t[s].realm = sessions[s].realm
           /\ t[s].pw = sessions[s].pw /\ t[s].raced = sessions[s].raced
           /\ ~t[s].revoked => ~sessions[s].revoked,
         jar' \in [Browsers -> Cookie],
         \A b \in Browsers :
           jar'[b].customer \in {0, jar[b].customer} /\ jar'[b].admin \in {0, jar[b].admin},
         UNCHANGED <<account, tokens, factors, codes, spent>>
  PROVE  IInv'
BY Moved, PlacesStay, Touched

LEMMA SatisfyStep ==
  ASSUME IInv, NEW r \in Requests, Satisfy(r) \/ Stepped(r)
  PROVE  IInv'
<1>1. /\ req[r].pc \notin Final \cup {"new"} /\ Moves(r)
      /\ UNCHANGED <<account, tokens, factors, codes, jar, spent>>
  BY Ending DEF Satisfy, Stepped, At, Final
<1>2. PICK k : k = req[r].who.session
  OBVIOUS
<1>3. jar' \in [Browsers -> Cookie] /\ jar' = jar
  BY <1>1 DEF IInv, Shapes
<1>4. \A s \in DOMAIN sessions : sessions[s] \in Session
  BY Elements DEF IInv
<1>5. CASE Satisfy(r)
  <2> DEFINE t == [s \in DOMAIN sessions |->
                     IF s = k THEN [sessions[s] EXCEPT !.mfa = TRUE] ELSE sessions[s]]
  <2>1. sessions' = t
    BY <1>2, <1>5 DEF Satisfy
  <2>2. t \in [DOMAIN sessions -> Session]
    BY <1>4 DEF Session
  <2>3. \A s \in DOMAIN sessions :
           /\ t[s].user = sessions[s].user /\ t[s].realm = sessions[s].realm
           /\ t[s].pw = sessions[s].pw /\ t[s].raced = sessions[s].raced
           /\ ~t[s].revoked => ~sessions[s].revoked
    BY <1>4 DEF Session
  <2> HIDE DEF t
  <2> QED
    BY <1>1, <1>3, <2>1, <2>2, <2>3, TouchedBy
<1>6. CASE Stepped(r)
  <2> DEFINE t == [s \in DOMAIN sessions |->
                     IF s = k THEN [sessions[s] EXCEPT !.stepped = TRUE] ELSE sessions[s]]
  <2>1. sessions' = t
    BY <1>2, <1>6 DEF Stepped
  <2>2. t \in [DOMAIN sessions -> Session]
    BY <1>4 DEF Session
  <2>3. \A s \in DOMAIN sessions :
           /\ t[s].user = sessions[s].user /\ t[s].realm = sessions[s].realm
           /\ t[s].pw = sessions[s].pw /\ t[s].raced = sessions[s].raced
           /\ ~t[s].revoked => ~sessions[s].revoked
    BY <1>4 DEF Session
  <2> HIDE DEF t
  <2> QED
    BY <1>1, <1>3, <2>1, <2>2, <2>3, TouchedBy
<1> QED
  BY <1>5, <1>6

LEMMA LogoutStep ==
  ASSUME IInv, NEW r \in Requests, Logout(r)
  PROVE  IInv'
<1> DEFINE t == [s \in DOMAIN sessions |->
                   IF s = req[r].cookie THEN [sessions[s] EXCEPT !.revoked = TRUE] ELSE sessions[s]]
<1>1. /\ req[r].pc \notin Final \cup {"new"} /\ Moves(r)
      /\ UNCHANGED <<account, tokens, factors, codes, spent>>
  BY Ending DEF Logout, At, Final
<1>2. PICK b \in Browsers : b = Asked(r).browser
  BY <1>1, Called
<1>3. jar' = [jar EXCEPT ![b] = [jar[b] EXCEPT !.customer = 0, !.admin = 0]]
  BY <1>2 DEF Logout, Cookies
<1>4. /\ jar' \in [Browsers -> Cookie]
      /\ \A a \in Browsers :
           jar'[a].customer \in {0, jar[a].customer} /\ jar'[a].admin \in {0, jar[a].admin}
  BY <1>3 DEF IInv, Shapes, Cookie
<1>5. \A s \in DOMAIN sessions : sessions[s] \in Session
  BY Elements DEF IInv
<1>6. sessions' = t
  BY DEF Logout
<1>7. t \in [DOMAIN sessions -> Session]
  BY <1>5 DEF Session
<1>8. \A s \in DOMAIN sessions :
         /\ t[s].user = sessions[s].user /\ t[s].realm = sessions[s].realm
         /\ t[s].pw = sessions[s].pw /\ t[s].raced = sessions[s].raced
         /\ ~t[s].revoked => ~sessions[s].revoked
  BY <1>5 DEF Session
<1> HIDE DEF t
<1> QED
  BY <1>1, <1>4, <1>6, <1>7, <1>8, TouchedBy

LEMMA ExpireStep ==
  ASSUME IInv, NEW k \in DOMAIN sessions, Expire(k)
  PROVE  IInv'
<1> DEFINE t == [s \in DOMAIN sessions |->
                   IF s = k THEN [sessions[s] EXCEPT !.expired = TRUE, !.stepped = FALSE]
                   ELSE sessions[s]]
<1>1. \A s \in DOMAIN sessions : sessions[s] \in Session
  BY Elements DEF IInv
<1>2. sessions' = t
  BY <1>1 DEF Expire, Session
<1>3. t \in [DOMAIN sessions -> Session]
  BY <1>1 DEF Session
<1>4. \A s \in DOMAIN sessions :
         /\ t[s].user = sessions[s].user /\ t[s].realm = sessions[s].realm
         /\ t[s].pw = sessions[s].pw /\ t[s].raced = sessions[s].raced
         /\ ~t[s].revoked => ~sessions[s].revoked
  BY <1>1 DEF Session
<1> HIDE DEF t
<1>5. UNCHANGED <<account, tokens, factors, codes, spent, jar, req>>
  BY DEF Expire
<1>6. jar' \in [Browsers -> Cookie] /\ req' \in [Requests -> Place]
      /\ Generations \subseteq Generations'
  BY <1>5 DEF IInv, Shapes, Generations
<1>7. Kept /\ Shapes' => PlacesOK'
  BY <1>5, Unmoved
<1> QED
  BY <1>2, <1>3, <1>4, <1>5, <1>6, <1>7, Touched

\* What an append or an update of a token keeps.
LEMMA TokenAdded ==
  ASSUME IInv, NEW u \in Users, NEW kind \in {"reset", "verify"},
         tokens' = Append(tokens, Token(u, kind))
  PROVE  /\ tokens' \in Seq(TokenRow) /\ DOMAIN tokens' = DOMAIN tokens \cup {Len(tokens) + 1}
         /\ Len(tokens) \in Nat /\ tokens'[Len(tokens) + 1].user = u
         /\ \A t \in DOMAIN tokens : t \in DOMAIN tokens' /\ tokens'[t].user = tokens[t].user
<1>1. Token(u, kind) \in TokenRow /\ Token(u, kind).user = u
  BY DEF Token, TokenRow
<1> QED
  BY <1>1, Appended DEF IInv, Shapes

LEMMA TokenUpdated ==
  ASSUME IInv, NEW k, tokens' = [tokens EXCEPT ![k].used = TRUE]
                      \/ tokens' = [tokens EXCEPT ![k].expired = TRUE]
                      \/ tokens' = [tokens EXCEPT ![k].mailed = TRUE]
  PROVE  /\ tokens' \in Seq(TokenRow) /\ DOMAIN tokens' = DOMAIN tokens
         /\ \A t \in DOMAIN tokens : tokens'[t].user = tokens[t].user
<1>1. \A t \in DOMAIN tokens : tokens[t] \in TokenRow
  BY Elements DEF IInv
<1>2. tokens' \in [DOMAIN tokens -> TokenRow]
  <2>1. CASE tokens' = [tokens EXCEPT ![k].used = TRUE]
    BY <1>1, <2>1 DEF TokenRow
  <2>2. CASE tokens' = [tokens EXCEPT ![k].expired = TRUE]
    BY <1>1, <2>2 DEF TokenRow
  <2>3. CASE tokens' = [tokens EXCEPT ![k].mailed = TRUE]
    BY <1>1, <2>3 DEF TokenRow
  <2> QED
    BY <2>1, <2>2, <2>3
<1>3. \A t \in DOMAIN tokens : tokens'[t].user = tokens[t].user
  BY <1>1 DEF TokenRow
<1> QED
  BY <1>2, <1>3, Mapped DEF IInv, Shapes

LEMMA ExpireTokenStep ==
  ASSUME IInv, NEW k \in DOMAIN tokens, ExpireToken(k)
  PROVE  IInv'
<1>1. /\ UNCHANGED <<account, sessions, factors, codes, jar, req, spent>>
      /\ tokens' = [tokens EXCEPT ![k].expired = TRUE]
  BY DEF ExpireToken
<1>2. /\ tokens' \in Seq(TokenRow) /\ DOMAIN tokens' = DOMAIN tokens
      /\ \A t \in DOMAIN tokens : tokens'[t].user = tokens[t].user
  BY <1>1, TokenUpdated
<1>3. Shapes'
  BY <1>1, <1>2 DEF IInv, Shapes
<1>4. Kept
  <2>1. Len(sessions) \in Nat
    BY LenProperties DEF IInv, Shapes
  <2> QED
    BY <1>1, <1>2, <2>1 DEF Kept, Exists, Generations
<1>5. TokensOK'
  BY <1>1, <1>2 DEF IInv, TokensOK, Exists
<1> QED
  BY <1>1, <1>3, <1>4, <1>5, Unmoved, Frame DEF IInv

LEMMA MailStep ==
  ASSUME IInv, NEW r \in Requests, Mail(r)
  PROVE  IInv'
<1>1. /\ UNCHANGED <<account, sessions, factors, codes, spent>>
      /\ tokens' = [tokens EXCEPT ![req[r].row].mailed = TRUE]
      /\ req[r].pc \notin Final \cup {"new"} /\ Moves(r)
  BY Ending DEF Mail, At, Final
<1>2. /\ tokens' \in Seq(TokenRow) /\ DOMAIN tokens' = DOMAIN tokens
      /\ \A t \in DOMAIN tokens : tokens'[t].user = tokens[t].user
  <2>1. PICK k : k = req[r].row
    OBVIOUS
  <2> QED
    BY <1>1, <2>1, TokenUpdated
<1>3. PICK b \in Browsers : b = Asked(r).browser
  BY <1>1, Called
<1>4. jar' \in [Browsers -> Cookie] /\ Len(sessions) \in Nat
      /\ \A a \in Browsers : jar'[a].customer = jar[a].customer /\ jar'[a].admin = jar[a].admin
  <2>1. jar' = jar \/ jar' = [jar EXCEPT ![b] = [jar[b] EXCEPT !.csrf = TRUE]]
    BY <1>3 DEF Mail, Cookies
  <2>2. jar \in [Browsers -> Cookie] /\ Len(sessions) \in Nat
    BY LenProperties DEF IInv, Shapes
  <2>3. CASE jar' = jar
    BY <2>2, <2>3
  <2>4. CASE jar' = [jar EXCEPT ![b] = [jar[b] EXCEPT !.csrf = TRUE]]
    BY <2>2, <2>4 DEF Cookie
  <2> QED
    BY <2>1, <2>3, <2>4
<1>5. Shapes'
  BY <1>1, <1>2, <1>4, Moved DEF IInv, Shapes
<1>6. Kept /\ PlacesOK'
  BY <1>1, <1>2, <1>4, <1>5, Writing DEF Exists
<1>7. TokensOK' /\ JarOK'
  BY <1>1, <1>2, <1>4 DEF IInv, TokensOK, JarOK, Exists
<1> QED
  BY <1>1, <1>5, <1>6, <1>7, Frame DEF IInv

\* The place after a token was stored: to mail it.
LEMMA ToMail ==
  ASSUME IInv, NEW r \in Requests, req[r].pc \notin Final \cup {"new"}, NEW k \in Nat,
         req' = [req EXCEPT ![r].pc = "mail", ![r].row = k]
  PROVE  Moves(r)
<1>1. PlaceOK(req[r]) /\ req[r] \in Place
  BY DEF IInv, PlacesOK, Shapes
<1>2. [req[r] EXCEPT !.pc = "mail", !.row = k] \in Place
  BY <1>1 DEF Place, PCs
<1>3. PlaceOK([req[r] EXCEPT !.pc = "mail", !.row = k])
  BY <1>1 DEF PlaceOK, Place
<1>4. req' = [req EXCEPT ![r] = [req[r] EXCEPT !.pc = "mail", !.row = k]]
  BY DEF IInv, Shapes
<1> QED
  BY <1>2, <1>3, <1>4 DEF Moves

LEMMA ForgotStep ==
  ASSUME IInv, NEW r \in Requests, Forgot(r)
  PROVE  IInv'
<1>1. /\ UNCHANGED <<account, sessions, factors, codes, jar, spent>>
      /\ req[r].pc \notin Final \cup {"new"} /\ Asked(r).user \in Users
      /\ Len(sessions) \in Nat
  BY Called, LenProperties DEF Forgot, At, Final, IInv, Shapes
<1>2. CASE account[Asked(r).user].status = "none"
  BY <1>1, <1>2, GoingOn DEF Forgot, Rows, PCs, At
<1>3. CASE account[Asked(r).user].status # "none"
  <2>1. PICK u \in Users : u = Asked(r).user
    BY <1>1
  <2>2. /\ tokens' \in Seq(TokenRow) /\ DOMAIN tokens' = DOMAIN tokens \cup {Len(tokens) + 1}
        /\ Len(tokens) \in Nat /\ tokens'[Len(tokens) + 1].user = u
        /\ \A t \in DOMAIN tokens : t \in DOMAIN tokens' /\ tokens'[t].user = tokens[t].user
    BY <1>3, <2>1, TokenAdded DEF Forgot
  <2>3. Moves(r)
    BY <1>1, <1>3, <2>2, ToMail DEF Forgot
  <2>4. Shapes'
    BY <1>1, <2>2, <2>3, Moved DEF IInv, Shapes
  <2>5. Kept /\ PlacesOK'
    BY <1>1, <2>2, <2>3, <2>4, Writing DEF Exists
  <2>6. TokensOK'
    BY <1>1, <1>3, <2>1, <2>2 DEF IInv, TokensOK, Exists
  <2> QED
    BY <1>1, <2>4, <2>5, <2>6, Frame DEF IInv
<1> QED
  BY <1>2, <1>3

LEMMA CreateUserStep ==
  ASSUME IInv, NEW r \in Requests, CreateUser(r)
  PROVE  IInv'
<1>1. /\ UNCHANGED <<sessions, factors, codes, jar, spent>>
      /\ req[r].pc \notin Final \cup {"new"} /\ Asked(r).user \in Users
      /\ Asked(r).pw \in Passwords /\ Len(sessions) \in Nat
  BY Called, LenProperties DEF CreateUser, At, Final, IInv, Shapes
<1>2. CASE account[Asked(r).user].status # "none"
  BY <1>1, <1>2, GoingOn DEF CreateUser, Rows, PCs, At
<1>3. CASE account[Asked(r).user].status = "none"
  <2>1. PICK u \in Users : u = Asked(r).user
    BY <1>1
  <2>2. PICK row : row = [status |-> "PENDING_VERIFICATION", pw |-> Asked(r).pw]
    OBVIOUS
  <2>3. row \in AccountRow /\ row.status # "none"
    BY <1>1, <2>2 DEF AccountRow
  <2>4. account' = [account EXCEPT ![u] = row] /\ tokens' = Append(tokens, Token(u, "verify"))
    BY <1>3, <2>1, <2>2 DEF CreateUser
  <2>5. /\ account' \in [Users -> AccountRow] /\ account'[u] = row
        /\ \A v \in Users : v # u => account'[v] = account[v]
    BY <2>3, <2>4 DEF IInv, Shapes
  <2>6. /\ tokens' \in Seq(TokenRow) /\ DOMAIN tokens' = DOMAIN tokens \cup {Len(tokens) + 1}
        /\ Len(tokens) \in Nat /\ tokens'[Len(tokens) + 1].user = u
        /\ \A t \in DOMAIN tokens : t \in DOMAIN tokens' /\ tokens'[t].user = tokens[t].user
    BY <2>4, TokenAdded
  <2>7. Moves(r)
    <3>1. req' = [req EXCEPT ![r].pc = "mail", ![r].row = Len(tokens) + 1]
      BY <1>3 DEF CreateUser
    <3> QED
      <4>1. PICK k \in Nat : k = Len(tokens) + 1
        BY <2>6
      <4> QED
        BY <1>1, <3>1, <4>1, ToMail
  <2>8. Shapes'
    BY <1>1, <2>5, <2>6, <2>7, Moved DEF IInv, Shapes
  <2>9. \A v \in Users : Exists(v) => Exists(v)' /\ account'[v].pw = account[v].pw
    BY <1>3, <2>1, <2>5 DEF Exists
  <2>10. Kept /\ PlacesOK'
    BY <1>1, <2>6, <2>7, <2>8, <2>9, Writing
  <2>11. TokensOK'
    <3>1. \A t \in DOMAIN tokens : tokens[t].user \in Users /\ Exists(tokens[t].user)
      BY Elements DEF IInv, TokensOK, TokenRow
    <3>2. Exists(u)'
      BY <2>3, <2>5 DEF Exists
    <3> QED
      BY <2>6, <2>9, <3>1, <3>2 DEF TokensOK, Exists
  <2> QED
    BY <1>1, <2>8, <2>10, <2>11, Frame DEF IInv
<1> QED
  BY <1>2, <1>3

\* A status is set: a password and the existence of an account stay.
LEMMA StatusSet ==
  ASSUME IInv, NEW r \in Requests, req[r].pc \notin Final, Moves(r),
         NEW u \in Users, Exists(u), NEW status \in {"ACTIVE", "SUSPENDED"},
         account' = [account EXCEPT ![u].status = status],
         tokens' \in Seq(TokenRow), DOMAIN tokens' = DOMAIN tokens,
         \A t \in DOMAIN tokens : tokens'[t].user = tokens[t].user,
         UNCHANGED <<sessions, factors, codes, jar, spent>>
  PROVE  IInv'
<1>1. /\ account' \in [Users -> AccountRow]
      /\ \A v \in Users : Exists(v) => Exists(v)' /\ account'[v].pw = account[v].pw
  BY DEF IInv, Shapes, AccountRow, Exists, Disabled
<1>2. Shapes'
  BY <1>1, Moved DEF IInv, Shapes
<1>3. Len(sessions) \in Nat
  BY LenProperties DEF IInv, Shapes
<1>4. Kept /\ PlacesOK'
  BY <1>1, <1>2, <1>3, Writing
<1>5. TokensOK'
  <2>1. \A t \in DOMAIN tokens : tokens[t].user \in Users
    BY Elements DEF IInv, TokenRow
  <2> QED
    BY <1>1, <2>1 DEF IInv, TokensOK
<1> QED
  BY <1>2, <1>4, <1>5, Frame DEF IInv

LEMMA VerifyStep ==
  ASSUME IInv, NEW r \in Requests, Verify(r)
  PROVE  IInv'
<1>1. /\ req[r].pc \notin Final /\ Moves(r)
      /\ UNCHANGED <<sessions, factors, codes, jar, spent>>
      /\ req[r].row \in DOMAIN tokens
  <2>1. PlaceOK(req[r])
    BY DEF IInv, PlacesOK
  <2> QED
    BY <2>1, Ending DEF Verify, At, Final, PlaceOK
<1>2. PICK k \in DOMAIN tokens : k = req[r].row
  BY <1>1
<1>3. PICK u \in Users : u = tokens[k].user /\ Exists(u)
  BY Elements DEF IInv, TokensOK, TokenRow
<1>4. tokens' = [tokens EXCEPT ![k].used = TRUE] /\ account' = [account EXCEPT ![u].status = "ACTIVE"]
  BY <1>2, <1>3 DEF Verify, Of
<1>5. /\ tokens' \in Seq(TokenRow) /\ DOMAIN tokens' = DOMAIN tokens
      /\ \A t \in DOMAIN tokens : tokens'[t].user = tokens[t].user
  BY <1>4, TokenUpdated
<1> QED
  BY <1>1, <1>3, <1>4, <1>5, StatusSet

LEMMA SetStatusStep ==
  ASSUME IInv, NEW r \in Requests, SetStatus(r)
  PROVE  IInv'
<1>1. /\ req[r].pc \notin Final \cup {"new"}
      /\ UNCHANGED <<sessions, tokens, factors, codes, jar, spent>>
      /\ Asked(r).user \in Users
  BY Called DEF SetStatus, At, Final
<1>2. Moves(r)
  BY Ending DEF SetStatus, Final
<1>3. PICK u \in Users : u = Asked(r).user
  BY <1>1
<1>4. CASE account[u].status = "none"
  BY <1>1, <1>2, <1>3, <1>4, Quiet DEF SetStatus
<1>5. CASE account[u].status # "none"
  <2>1. PICK status \in {"ACTIVE", "SUSPENDED"} : account' = [account EXCEPT ![u].status = status]
    BY <1>3, <1>5 DEF SetStatus
  <2>2. tokens \in Seq(TokenRow)
    BY DEF IInv, Shapes
  <2> QED
    BY <1>1, <1>2, <1>5, <2>1, <2>2, StatusSet DEF Exists
<1> QED
  BY <1>4, <1>5

LEMMA KeySteps ==
  ASSUME IInv, NEW r \in Requests, CreateKey(r) \/ RevokeKey(r)
  PROVE  IInv'
<1>1. /\ req[r].pc \notin Final /\ Moves(r)
      /\ UNCHANGED <<account, sessions, tokens, factors, codes, jar, spent>>
  BY Ending DEF CreateKey, RevokeKey, At, Final
<1> QED
  BY <1>1, Quiet

LEMMA EnrollStep ==
  ASSUME IInv, NEW r \in Requests, Enroll(r)
  PROVE  IInv'
<1>1. /\ req[r].pc = "enroll" /\ Moves(r)
      /\ UNCHANGED <<account, sessions, tokens, codes, jar, spent>>
  BY Ending DEF Enroll, At, Final
<1>2. Me(r) \in Admins
  BY <1>1 DEF IInv, PlacesOK, PlaceOK, Me
<1>3. factors' \in Seq(Factor)
  <2>1. [user |-> Me(r), verified |-> FALSE] \in Factor /\ factors \in Seq(Factor)
    BY <1>2 DEF Factor, IInv, Shapes
  <2> QED
    BY <2>1, Appended DEF Enroll
<1>4. Shapes' /\ Len(sessions) \in Nat
  BY <1>1, <1>3, Moved, LenProperties DEF IInv, Shapes, Final
<1>5. Kept /\ PlacesOK'
  BY <1>1, <1>4, Writing DEF Exists, Final
<1> QED
  BY <1>1, <1>4, <1>5, Frame DEF IInv

\* The session a login opens knows the password of now, or the login is one a reset has raced.
LEMMA LoginCreateStep ==
  ASSUME IInv, NEW r \in Requests, LoginCreate(r)
  PROVE  IInv'
<1>1. /\ req[r].pc = "session" /\ req[r].pc \notin Final \cup {"new"} /\ Moves(r)
      /\ UNCHANGED <<account, tokens, factors, codes, spent>>
  BY Ending DEF LoginCreate, At, Final
<1>2. PlaceOK(req[r]) /\ req[r] \in Place
  BY DEF IInv, PlacesOK, Shapes
<1>3. PICK call \in Calls : call = Asked(r)
  BY <1>1, Called
<1>4. call.user \in Users /\ call.browser \in Browsers /\ call.realm \in Realms
      /\ call.pw \in Passwords
  BY <1>3, AccountsAssumption DEF Realms, Passwords
<1>5. PICK n \in Nat : n = Len(sessions) /\ DOMAIN sessions = 1..n
  BY LenProperties DEF IInv, Shapes
<1>6. PICK e : /\ sessions' = Append(sessions, e)
               /\ e = Open(call.user, call.realm, call.pw,
                           ~(call.realm = "ADMIN" /\ MfaRequired), req[r].raced)
  BY <1>3 DEF LoginCreate
<1>7. e \in Session
  <2>1. req[r].raced \in BOOLEAN /\ (~(call.realm = "ADMIN" /\ MfaRequired)) \in BOOLEAN
    BY <1>2 DEF Place
  <2> QED
    BY <1>4, <1>6, <2>1 DEF Open, Session
<1>8. e.user = call.user /\ e.realm = call.realm /\ e.pw = call.pw /\ e.raced = req[r].raced
  BY <1>6 DEF Open
<1>9. SessionOK(e)
  BY <1>1, <1>2, <1>3, <1>8 DEF SessionOK, PlaceOK, Asked
<1>10. /\ sessions' \in Seq(Session) /\ Len(sessions') = n + 1
       /\ DOMAIN sessions' = DOMAIN sessions \cup {n + 1} /\ sessions'[n + 1] = e
       /\ \A s \in DOMAIN sessions : sessions'[s] = sessions[s]
  BY <1>5, <1>6, <1>7, Appended DEF IInv, Shapes
<1>11. PICK c : /\ jar' = [jar EXCEPT ![call.browser] = c]
                /\ c = [csrf |-> TRUE, customer |-> IF call.realm = "ADMIN" THEN 0 ELSE n + 1,
                        admin |-> IF call.realm = "ADMIN" THEN n + 1 ELSE 0]
  BY <1>3, <1>5 DEF LoginCreate, Cookies
<1>12. c \in Cookie /\ c.customer \in 0..(n + 1) /\ c.admin \in 0..(n + 1)
       /\ (c.customer = 0 \/ c.admin = 0)
  BY <1>11 DEF Cookie
<1>13. jar' \in [Browsers -> Cookie] /\ jar'[call.browser] = c
       /\ \A b \in Browsers : b # call.browser => jar'[b] = jar[b]
  BY <1>4, <1>11, <1>12 DEF IInv, Shapes
<1>14. Shapes'
  BY <1>1, <1>10, <1>13, Moved DEF IInv, Shapes
<1>15. Kept /\ PlacesOK'
  BY <1>1, <1>5, <1>10, <1>14, Writing DEF Exists
<1>16. SessionsOK'
  <2>1. ASSUME NEW s \in DOMAIN sessions' PROVE SessionOK(sessions'[s])
    BY <1>9, <1>10 DEF IInv, SessionsOK
  <2> QED
    BY <1>1, <2>1 DEF SessionsOK, SessionOK, Exists
<1>17. JarOK'
  <2>1. ASSUME NEW b \in Browsers
        PROVE  /\ jar'[b].customer \in 0..(n + 1) /\ jar'[b].admin \in 0..(n + 1)
               /\ jar'[b].customer = 0 \/ jar'[b].admin = 0
    BY <1>5, <1>12, <1>13 DEF IInv, JarOK
  <2> QED
    BY <1>10, <2>1 DEF JarOK
<1> QED
  BY <1>1, <1>14, <1>15, <1>16, <1>17, Frame DEF IInv

\* The new codes are of a generation nothing has been spent of.
LEMMA ConfirmCommitStep ==
  ASSUME IInv, NEW r \in Requests, ConfirmCommit(r)
  PROVE  IInv'
<1>1. /\ req[r].pc = "confirmCommit" /\ req[r].pc \notin Final /\ Moves(r)
      /\ UNCHANGED <<account, sessions, tokens, jar, spent>>
      /\ Goto(r, "answered")
  BY Ending DEF ConfirmCommit, At, Final
<1>2. Me(r) \in Admins
  BY <1>1 DEF IInv, PlacesOK, PlaceOK, Me
<1>3. factors' \in Seq(Factor)
  <2>1. \A f \in DOMAIN factors : factors[f] \in Factor
    BY Elements DEF IInv
  <2>2. PICK k : factors' = [factors EXCEPT ![k].verified = TRUE]
    BY DEF ConfirmCommit
  <2>3. factors' \in [DOMAIN factors -> Factor]
    BY <2>1, <2>2 DEF Factor
  <2> QED
    BY <2>3, Mapped DEF IInv, Shapes
<1>4. \A c \in codes' : c \in codes \/ (c \in Code /\ c.gen = r /\ ~c.used)
  BY <1>2 DEF ConfirmCommit, Replaced, NewCodes, Code
<1>5. Shapes' /\ Len(sessions) \in Nat
  BY <1>1, <1>3, <1>4, Moved, LenProperties DEF IInv, Shapes
<1>6. Kept /\ PlacesOK'
  BY <1>1, <1>5, Writing DEF Exists
<1>7. r \in Generations' /\ r \notin Generations
  <2>1. req'[r].pc = "answered"
    BY <1>1 DEF Goto, Idle, Final, IInv, Shapes
  <2> QED
    BY <1>1, <2>1, AccountsAssumption DEF Generations, Final
<1>8. CodesOK'
  <2>1. /\ \A c \in codes' : c.gen \in Generations'
        /\ \A x \in spent : x.gen \in Generations'
    BY <1>4, <1>6, <1>7 DEF IInv, CodesOK, Kept
  <2>2. ASSUME NEW x \in spent, NEW c \in codes', Names(x, c) PROVE c.used
    BY <1>4, <1>7, <2>2 DEF IInv, CodesOK, Names
  <2> QED
    BY <1>1, <2>1, <2>2 DEF IInv, CodesOK
<1> QED
  BY <1>1, <1>5, <1>6, <1>8, Frame DEF IInv

\* What this challenge spends, nobody has spent unless it was raced, and it marks as raced all
\* that hold the same code.
LEMMA RedeemStep ==
  ASSUME IInv, NEW r \in Requests, Redeem(r)
  PROVE  IInv'
<1>1. /\ req[r].pc = "redeem" /\ req[r].pc \notin Final \cup {"new"}
      /\ UNCHANGED <<account, sessions, tokens, factors, jar>>
  BY DEF Redeem, At, Final
<1>2. PICK c \in req[r].rows :
        LET same == {d \in codes : SameCode(d, c)}
        IN IF same = {} THEN Goto(r, "refused") /\ UNCHANGED <<codes, spent>>
           ELSE /\ codes' = (codes \ same) \cup {Marked(c)}
                /\ spent' = spent \cup {[user |-> c.user, gen |-> c.gen, code |-> c.code,
                                         req |-> r, raced |-> req[r].raced]}
                /\ req' = [q \in Requests |->
                     IF q = r THEN [req[q] EXCEPT !.pc = "satisfy"]
                     ELSE [req[q] EXCEPT !.raced = @ \/ Holds(q, c)]]
  BY DEF Redeem
<1>3. /\ c \in Code /\ ~c.used /\ c.gen \in Generations
      /\ ~req[r].raced => \A y \in spent : ~Names(y, c)
  BY <1>1 DEF IInv, PlacesOK, PlaceOK
<1>4. \A q \in Requests : req[q] \in Place /\ PlaceOK(req[q])
  BY DEF IInv, PlacesOK, Shapes
<1> DEFINE same == {d \in codes : SameCode(d, c)}
<1>5. CASE same = {}
  BY <1>1, <1>2, <1>5, GoingOn DEF Rows, PCs, Redeem
<1>6. CASE same # {}
  <2>1. PICK x : /\ spent' = spent \cup {x}
                 /\ x = [user |-> c.user, gen |-> c.gen, code |-> c.code,
                         req |-> r, raced |-> req[r].raced]
    BY <1>2, <1>6
  <2>2. PICK m : codes' = (codes \ same) \cup {m} /\ m = [c EXCEPT !.used = TRUE]
    BY <1>2, <1>6 DEF Marked
  <2>3. x \in Use /\ Names(x, c) /\ x.gen \in Generations
    BY <1>3, <1>4, <2>1 DEF Use, Code, Names, Place
  <2>4. m \in Code /\ m.used /\ Names(x, m) /\ m.gen \in Generations
    BY <1>3, <2>2, <2>3 DEF Code, Names
  <2>5. \A d \in codes : d \in Code
    BY DEF IInv, Shapes
  <2>6. \A d \in codes : Names(x, d) => d \in same
    BY <1>3, <2>3, <2>5 DEF Code, Names, SameCode
  <2>7. ~x.raced => \A y \in spent : ~Names(y, x)
    BY <1>3, <2>1 DEF Names
  <2>8. req' = [q \in Requests |-> IF q = r THEN [req[q] EXCEPT !.pc = "satisfy"]
                                   ELSE [req[q] EXCEPT !.raced = @ \/ Holds(q, c)]]
    BY <1>2, <1>6
  <2>9. [req[r] EXCEPT !.pc = "satisfy"] \in Place
    BY <1>4 DEF Place, PCs
  <2>10. \A q \in Requests, z \in BOOLEAN : [req[q] EXCEPT !.raced = z] \in Place
    BY <1>4 DEF Place
  <2>11. ASSUME NEW q \in Requests PROVE req'[q] \in Place
    <3>1. PICK z \in BOOLEAN : z = (req[q].raced \/ Holds(q, c))
      OBVIOUS
    <3>2. req'[q] = IF q = r THEN [req[q] EXCEPT !.pc = "satisfy"] ELSE [req[q] EXCEPT !.raced = z]
      BY <2>8, <3>1
    <3> QED
      BY <2>9, <2>10, <3>2
  <2>12. req' \in [Requests -> Place]
    BY <2>8, <2>11
  <2>13. \A q \in Requests : q # r =>
           /\ req'[q].pc = req[q].pc /\ req'[q].call = req[q].call
           /\ req'[q].cookie = req[q].cookie /\ req'[q].who = req[q].who
           /\ req'[q].row = req[q].row /\ req'[q].rows = req[q].rows
           /\ req'[q].raced <=> req[q].raced \/ Holds(q, c)
    BY <1>4, <2>8 DEF Place
  <2>14. req'[r] = [req[r] EXCEPT !.pc = "satisfy"]
    BY <2>8
  <2>15. Shapes' /\ Len(sessions) \in Nat
    BY <1>1, <2>1, <2>2, <2>3, <2>4, <2>12, LenProperties DEF IInv, Shapes
  <2>16. Generations \subseteq Generations'
    BY <1>1, <2>13 DEF Generations
  <2>17. PlacesOK'
    <3>1. PlaceOK(req[r])'
      <4>1. /\ req'[r].pc = "satisfy" /\ req'[r].call = req[r].call
            /\ req'[r].cookie = req[r].cookie /\ req'[r].who = req[r].who
        BY <1>4, <2>14 DEF Place
      <4> QED
        BY <1>1, <1>4, <4>1 DEF PlaceOK
    <3>2. ASSUME NEW q \in Requests, q # r PROVE PlaceOK(req[q])'
      <4>1. PlaceOK(req[q])
        BY <1>4
      <4>2. req'[q].pc = "redeem" => \A d \in req'[q].rows : d \in Code /\ ~d.used /\ d.gen \in Generations'
        BY <2>13, <2>16, <3>2, <4>1 DEF PlaceOK
      <4>3. ASSUME req'[q].pc = "redeem", ~req'[q].raced, NEW d \in req'[q].rows, NEW y \in spent',
                   Names(y, d)
            PROVE  FALSE
        <5>1. req[q].pc = "redeem" /\ ~req[q].raced /\ ~Holds(q, c) /\ d \in req[q].rows
          BY <2>13, <3>2, <4>3
        <5>2. d \in Code /\ \A w \in spent : ~Names(w, d)
          BY <4>1, <5>1 DEF PlaceOK
        <5>3. ~SameCode(d, c)
          BY <5>1 DEF Holds, At
        <5>4. ~Names(x, d)
          BY <1>3, <2>3, <5>2, <5>3 DEF Names, SameCode, Code
        <5> QED
          BY <2>1, <4>3, <5>2, <5>4
      <4>4. req'[q].pc = "session" =>
              /\ account'[req'[q].call.user].status # "none"
              /\ req'[q].call.realm = "ADMIN" => req'[q].call.user \in Admins
              /\ ~req'[q].raced => account'[req'[q].call.user].pw = req'[q].call.pw
        BY <1>1, <2>13, <3>2, <4>1 DEF PlaceOK, Exists
      <4>5. /\ req'[q].pc \notin Final \cup {"new"} => req'[q].call \in Calls
            /\ req'[q].cookie \in 0..Len(sessions') /\ req'[q].who.session \in 0..Len(sessions')
            /\ req'[q].pc \in {"resetting", "resetCommit", "verifying"} =>
                 req'[q].row \in DOMAIN tokens'
            /\ req'[q].pc \in {"enroll", "confirming", "confirmCommit"} => req'[q].who.user \in Admins
        BY <1>1, <2>13, <3>2, <4>1 DEF PlaceOK
      <4> QED
        BY <4>2, <4>3, <4>4, <4>5 DEF PlaceOK, Exists
    <3> QED
      BY <3>1, <3>2 DEF PlacesOK
  <2>18. SessionsOK' /\ TokensOK' /\ JarOK'
    BY <1>1 DEF IInv, SessionsOK, SessionOK, TokensOK, JarOK, Exists
  <2>19. CodesOK'
    <3>1. /\ \A d \in codes' : d.gen \in Generations'
          /\ \A y \in spent' : y.gen \in Generations'
      BY <2>1, <2>2, <2>3, <2>4, <2>16 DEF IInv, CodesOK
    <3>2. ASSUME NEW y \in spent', NEW d \in codes', Names(y, d) PROVE d.used
      BY <2>1, <2>2, <2>4, <2>6, <3>2 DEF IInv, CodesOK
    <3>3. ASSUME NEW y \in spent', NEW z \in spent', ~y.raced, ~z.raced, Names(y, z) PROVE y = z
      BY <2>1, <2>7, <3>3 DEF IInv, CodesOK, Names
    <3> QED
      BY <3>1, <3>2, <3>3 DEF CodesOK
  <2> QED
    BY <2>15, <2>17, <2>18, <2>19 DEF IInv
<1> QED
  BY <1>5, <1>6

\* The reset changes the password: every session of the user is revoked or has raced it, and so
\* has every login that is about to store one.
LEMMA ResetCommitStep ==
  ASSUME IInv, NEW r \in Requests, ResetCommit(r)
  PROVE  IInv'
<1>1. /\ req[r].pc = "resetCommit" /\ req[r].pc \notin Final \cup {"new"}
      /\ UNCHANGED <<factors, codes, jar, spent>>
  BY DEF ResetCommit, At, Final
<1>2. PICK k \in DOMAIN tokens : k = req[r].row
  BY <1>1 DEF IInv, PlacesOK, PlaceOK
<1>3. PICK u \in Users : u = tokens[k].user /\ u = Of(r) /\ Exists(u)
  BY <1>2, Elements DEF IInv, TokensOK, TokenRow, Of
<1>4. PICK pw \in Passwords : pw = Asked(r).pw
  BY <1>1, Called
<1>5. /\ account' = [account EXCEPT ![u].pw = pw]
      /\ tokens' = [tokens EXCEPT ![k].used = TRUE]
  BY <1>2, <1>3, <1>4 DEF ResetCommit
<1>6. /\ tokens' \in Seq(TokenRow) /\ DOMAIN tokens' = DOMAIN tokens
      /\ \A t \in DOMAIN tokens : tokens'[t].user = tokens[t].user
  BY <1>5, TokenUpdated
<1>7. /\ account' \in [Users -> AccountRow]
      /\ \A v \in Users : Exists(v) => Exists(v)'
      /\ \A v \in Users : v # u => account'[v] = account[v]
  BY <1>4, <1>5 DEF IInv, Shapes, AccountRow, Exists
<1>8. \A s \in DOMAIN sessions : sessions[s] \in Session /\ SessionOK(sessions[s])
  BY Elements DEF IInv, SessionsOK
<1>9. \A s \in DOMAIN sessions :
        /\ sessions'[s] \in Session
        /\ sessions'[s].user = sessions[s].user /\ sessions'[s].realm = sessions[s].realm
        /\ sessions'[s].pw = sessions[s].pw
        /\ sessions[s].user = u => sessions'[s].revoked \/ sessions'[s].raced
        /\ sessions[s].user # u => sessions'[s].revoked \/ sessions'[s] = sessions[s]
  <2>1. sessions' = [s \in DOMAIN sessions |->
          IF s \in req[r].rows THEN [sessions[s] EXCEPT !.revoked = TRUE]
          ELSE IF sessions[s].user = u THEN [sessions[s] EXCEPT !.raced = TRUE]
          ELSE sessions[s]]
    BY <1>3 DEF ResetCommit, Revoked
  <2> QED
    BY <1>8, <2>1 DEF Session
<1>10. sessions' \in Seq(Session) /\ Len(sessions') = Len(sessions)
       /\ DOMAIN sessions' = DOMAIN sessions /\ Len(sessions) \in Nat
  <2>1. sessions' \in [DOMAIN sessions -> Session]
    BY <1>9 DEF ResetCommit, Revoked
  <2> QED
    BY <2>1, Mapped, LenProperties DEF IInv, Shapes
<1>11. \A q \in Requests : req[q] \in Place /\ PlaceOK(req[q])
  BY DEF IInv, PlacesOK, Shapes
<1>12. /\ req'[r] = [Idle EXCEPT !.pc = "answered"]
       /\ req' = [q \in Requests |->
                   IF q = r THEN [Idle EXCEPT !.pc = "answered"]
                   ELSE IF req[q].pc = "session" /\ Asked(q).user = u
                   THEN [req[q] EXCEPT !.raced = TRUE] ELSE req[q]]
  BY <1>3 DEF ResetCommit, At
<1>13. [Idle EXCEPT !.pc = "answered"] \in Place
  BY DEF Place, Idle, Who, NoPrincipal, Realms, PCs
<1>14. \A q \in Requests : q # r => [req[q] EXCEPT !.raced = TRUE] \in Place
  BY <1>11 DEF Place
<1>15. req' \in [Requests -> Place]
  BY <1>11, <1>12, <1>13, <1>14
<1>16. \A q \in Requests : q # r =>
         /\ req'[q].pc = req[q].pc /\ req'[q].call = req[q].call
         /\ req'[q].cookie = req[q].cookie /\ req'[q].who = req[q].who
         /\ req'[q].row = req[q].row /\ req'[q].rows = req[q].rows
         /\ req[q].pc = "session" /\ req[q].call.user = u => req'[q].raced
         /\ ~(req[q].pc = "session" /\ req[q].call.user = u) => req'[q].raced = req[q].raced
  BY <1>11, <1>12 DEF Place, Asked
<1>17. Generations \subseteq Generations'
  BY <1>1, <1>16 DEF Generations
<1>18. Shapes'
  BY <1>1, <1>6, <1>7, <1>10, <1>15 DEF IInv, Shapes
<1>19. PlacesOK'
  <2>1. PlaceOK(req[r])'
    <3>1. req'[r].pc = "answered" /\ req'[r].cookie = 0 /\ req'[r].who.session = 0
      BY <1>12 DEF Idle, NoPrincipal
    <3> QED
      BY <1>10, <3>1 DEF PlaceOK, Final
  <2>2. ASSUME NEW q \in Requests, q # r PROVE PlaceOK(req[q])'
    <3>1. PlaceOK(req[q])
      BY <1>11
    <3>2. req[q].pc = "session" => req[q].call.user \in Users
      BY <3>1, AccountsAssumption DEF PlaceOK, Final
    <3>3. req'[q].pc = "session" =>
            /\ account'[req'[q].call.user].status # "none"
            /\ req'[q].call.realm = "ADMIN" => req'[q].call.user \in Admins
            /\ ~req'[q].raced => account'[req'[q].call.user].pw = req'[q].call.pw
      <4>1. CASE req[q].call.user = u
        BY <1>3, <1>7, <1>16, <2>2, <3>1, <3>2, <4>1 DEF PlaceOK, Exists
      <4>2. CASE req[q].call.user # u
        BY <1>7, <1>16, <2>2, <3>1, <3>2, <4>2 DEF PlaceOK, Exists
      <4> QED
        BY <4>1, <4>2
    <3>4. /\ req'[q].pc \notin Final \cup {"new"} => req'[q].call \in Calls
          /\ req'[q].cookie \in 0..Len(sessions') /\ req'[q].who.session \in 0..Len(sessions')
          /\ req'[q].pc \in {"resetting", "resetCommit", "verifying"} =>
               req'[q].row \in DOMAIN tokens'
          /\ req'[q].pc \in {"enroll", "confirming", "confirmCommit"} => req'[q].who.user \in Admins
      BY <1>6, <1>10, <1>16, <2>2, <3>1 DEF PlaceOK
    <3>5. req'[q].pc = "redeem" =>
            \A c \in req'[q].rows : c \in Code /\ ~c.used /\ c.gen \in Generations'
      BY <1>16, <1>17, <2>2, <3>1 DEF PlaceOK
    <3>6. req'[q].pc = "redeem" /\ ~req'[q].raced => \A c \in req'[q].rows, x \in spent' : ~Names(x, c)
      BY <1>1, <1>16, <2>2, <3>1 DEF PlaceOK
    <3> QED
      BY <3>3, <3>4, <3>5, <3>6 DEF PlaceOK, Exists
  <2> QED
    BY <2>1, <2>2 DEF PlacesOK
<1>20. SessionsOK'
  <2>1. ASSUME NEW s \in DOMAIN sessions PROVE SessionOK(sessions[s])'
    <3>1. sessions[s].user \in Users /\ SessionOK(sessions[s])
      BY <1>8 DEF Session
    <3> QED
      BY <1>7, <1>9, <3>1 DEF SessionOK, Exists
  <2> QED
    BY <1>10, <2>1 DEF SessionsOK
<1>21. TokensOK'
  <2>1. \A t \in DOMAIN tokens : tokens[t].user \in Users
    BY Elements DEF IInv, TokenRow
  <2> QED
    BY <1>6, <1>7, <2>1 DEF IInv, TokensOK
<1>22. JarOK'
  BY <1>1, <1>10 DEF IInv, JarOK
<1>23. CodesOK'
  BY <1>1, <1>17 DEF IInv, CodesOK
<1> QED
  BY <1>18, <1>19, <1>20, <1>21, <1>22, <1>23 DEF IInv

-----------------------------------------------------------------------------
LEMMA Start == Init => IInv
<1> SUFFICES ASSUME Init PROVE IInv
  OBVIOUS
<1>1. PICK a \in Admins : a = CHOOSE u \in Admins : TRUE
  BY AccountsAssumption
<1>2. a \in Users /\ a \in Existing
  BY AccountsAssumption
<1>3. PICK mfa \in BOOLEAN : sessions = <<Open(a, "ADMIN", OldPassword, mfa, FALSE)>>
  BY <1>1 DEF Init
<1>4. PICK e : e = Open(a, "ADMIN", OldPassword, mfa, FALSE)
  OBVIOUS
<1>5. e \in Session /\ e.user = a /\ e.realm = "ADMIN" /\ e.pw = OldPassword
  BY <1>2, <1>4 DEF Open, Session, Realms, Passwords
<1>6. sessions = <<e>> /\ sessions \in Seq(Session) /\ Len(sessions) = 1 /\ DOMAIN sessions = {1}
      /\ sessions[1] = e
  <2>1. sessions = <<e>>
    BY <1>3, <1>4
  <2> QED
    BY <1>5, <2>1
<1>7. factors \in Seq(Factor)
  <2>1. [user |-> a, verified |-> TRUE] \in Factor
    BY DEF Factor
  <2>2. factors = <<[user |-> a, verified |-> TRUE]>>
    BY <1>1 DEF Init
  <2> QED
    BY <2>1, <2>2
<1>8. /\ account \in [Users -> AccountRow]
      /\ account[a].status = "ACTIVE" /\ account[a].pw = OldPassword
  BY <1>2 DEF Init, AccountRow, Passwords
<1>9. codes \subseteq Code /\ \A c \in codes : c.gen = Seed
  BY <1>1 DEF Init, NewCodes, Code
<1>10. tokens \in Seq(TokenRow) /\ DOMAIN tokens = {} /\ spent = {}
  BY DEF Init
<1>11. jar \in [Browsers -> Cookie] /\ JarOK
  BY <1>6 DEF Init, JarOK, Cookie
<1>12. req \in [Requests -> Place] /\ \A r \in Requests : req[r] = Idle
  <2>1. Idle \in Place
    BY DEF Place, Idle, Who, NoPrincipal, Realms, PCs
  <2> QED
    BY <2>1 DEF Init
<1>13. Shapes
  BY <1>6, <1>7, <1>8, <1>9, <1>10, <1>11, <1>12 DEF Shapes
<1>14. PlacesOK
  <2>1. PlaceOK(Idle)
    BY <1>6 DEF PlaceOK, Idle, NoPrincipal, Final
  <2> QED
    BY <1>12, <2>1 DEF PlacesOK
<1>15. SessionsOK
  BY <1>5, <1>6, <1>8 DEF SessionsOK, SessionOK, Exists
<1>16. TokensOK /\ CodesOK
  BY <1>9, <1>10 DEF TokensOK, CodesOK, Generations
<1> QED
  BY <1>11, <1>13, <1>14, <1>15, <1>16 DEF IInv

LEMMA Steps == IInv /\ [Next]_vars => IInv'
<1> SUFFICES ASSUME IInv, [Next]_vars PROVE IInv'
  OBVIOUS
<1>1. CASE UNCHANGED vars
  <2>1. Shapes' /\ Len(sessions) \in Nat
    BY <1>1, LenProperties DEF vars, IInv, Shapes
  <2>2. Kept
    BY <1>1, <2>1 DEF vars, Kept, Exists, Generations
  <2> QED
    BY <1>1, <2>1, <2>2, Frame, Unmoved DEF vars, IInv
<1>2. ASSUME NEW r \in Requests, NEW call \in Calls, Send(r, call) PROVE IInv'
  BY <1>2, SendStep
<1>3. ASSUME NEW r \in Requests, Handle(r) \/ Die(r) PROVE IInv'
  BY <1>3, AdmitStep, CsrfStep, ReadSteps, CreateUserStep, MailStep, LoginReadStep, LoginCreateStep,
     LogoutStep, ForgotStep, FindTokenStep, ResetWriteStep, ResetCommitStep, VerifyStep,
     EnrollStep, FindFactorStep, ConfirmWriteStep, ConfirmCommitStep, ChallengeStep, RedeemStep,
     SatisfyStep, SetStatusStep, KeySteps DEF Handle
<1>4. ASSUME NEW s \in DOMAIN sessions, Expire(s) PROVE IInv'
  BY <1>4, ExpireStep
<1>5. ASSUME NEW t \in DOMAIN tokens, ExpireToken(t) PROVE IInv'
  BY <1>5, ExpireTokenStep
<1> QED
  BY <1>1, <1>2, <1>3, <1>4, <1>5 DEF Next

LEMMA Invariant == Spec => []IInv
BY Start, Steps, PTL DEF Spec

-----------------------------------------------------------------------------
(***************************************************************************)
(* The properties.                                                         *)
(***************************************************************************)
\* Accounts, sessions, tokens and codes keep their types, and belong to accounts that exist.
THEOREM TypeCorrect == Spec => []TypeOK
<1>1. IInv => TypeOK
  <2> SUFFICES ASSUME IInv PROVE TypeOK
    OBVIOUS
  <2>1. account \in [Users -> [status : Disabled \cup {"none", "ACTIVE", "PENDING_VERIFICATION"},
                               pw : {c.pw : c \in Calls} \cup {OldPassword, Nobody}]]
    BY DEF IInv, Shapes, AccountRow, Passwords
  <2> QED
    BY <2>1 DEF IInv, Shapes, SessionsOK, SessionOK, TokensOK, JarOK, Exists, Code, TypeOK
<1> QED
  BY <1>1, Invariant, PTL

\* Whatever logins, resets and deaths overlap, a session that a reset has not revoked was opened
\* with the password of now, unless its login raced the reset (resetPassword).
THEOREM SessionsKnowThePassword == Spec => []LiveSessionsKnowThePassword
<1>1. IInv => LiveSessionsKnowThePassword
  BY DEF IInv, SessionsOK, SessionOK, LiveSessionsKnowThePassword
<1> QED
  BY <1>1, Invariant, PTL

\* A recovery code lets one challenge pass, except for challenges that had read its unused row
\* before another marked it (challengeMfa looks the code up and marks it in two statements).
THEOREM CodesSpentOnce == Spec => []CodeSpentOnce
<1>1. IInv => CodeSpentOnce
  <2> SUFFICES ASSUME IInv, NEW x \in spent, NEW y \in spent, x # y, ~x.raced, ~y.raced,
                      [x EXCEPT !.req = y.req] = y
               PROVE  FALSE
    BY DEF CodeSpentOnce
  <2>1. x \in Use /\ y \in Use
    BY DEF IInv, Shapes
  <2>2. Names(x, y)
    BY <2>1 DEF Names, Use
  <2> QED
    BY <2>2 DEF IInv, CodesOK
<1> QED
  BY <1>1, Invariant, PTL

-----------------------------------------------------------------------------
(***************************************************************************)
(* The limiter.  f[t] is how many requests of one counter were numbered    *)
(* within its limit at ticks up to t.  What is said of f, of the tick c in *)
(* which its window was opened and of the number n it has reached since    *)
(* does not depend on where the counter lives.                             *)
(***************************************************************************)

Ticks == 0..MaxTime
Totals == {f \in [Ticks -> Nat] : \A a, b \in Ticks : a <= b => f[a] <= f[b]}
\* The bound.
Bounded(f, L) ==
  \A a, b \in Ticks : a <= b /\ b <= a + Window => f[b] - f[a] < 2 * L
\* No window is open, and less than L requests were numbered in what may still share one with that tick.
NoWindow(f, L, time) ==
  /\ f[MaxTime] <= f[time - 1]
  /\ \A a \in Ticks : a <= time /\ time <= a + Window => f[MaxTime] - f[a] < L
\* A window was opened at c, and n requests have asked since.
Opened(f, c, n, L, time) ==
  /\ c \in 1..time /\ n \in Nat \ {0} /\ f[MaxTime] <= f[time]
  /\ f[MaxTime] - f[c - 1] <= n /\ f[MaxTime] - f[c - 1] <= L
  /\ f[MaxTime] - f[c] < n /\ f[MaxTime] - f[c] < L
  /\ \A a \in Ticks : a < c /\ c <= a + Window => f[c - 1] - f[a] < L
\* One more request is numbered now.
OneMore(f) == [t \in Ticks |-> IF t >= now THEN f[t] + 1 ELSE f[t]]
\* Between any two ticks f has grown by no more than g.
Within(f, g) ==
  f \in Totals /\ g \in Totals /\ \A a, b \in Ticks : a <= b => f[b] - f[a] <= g[b] - g[a]

LEMMA LimiterNumbers ==
  /\ MaxTime \in Nat /\ MaxTime >= 1 /\ Window \in Nat /\ Window >= 1
  /\ Limit \in Nat /\ Limit >= 1 /\ FallbackLimit \in Nat /\ FallbackLimit >= 1
BY LimiterConstants

LEMMA OneMoreTotals ==
  ASSUME NEW f \in Totals, now \in 1..MaxTime
  PROVE  OneMore(f) \in Totals
BY LimiterNumbers DEF Totals, OneMore, Ticks

\* The first request of a window.
LEMMA WindowOpens ==
  ASSUME NEW f \in Totals, NEW L \in Nat, L >= 1, now \in 1..MaxTime, Bounded(f, L), NoWindow(f, L, now)
  PROVE  Bounded(OneMore(f), L) /\ Opened(OneMore(f), now, 1, L, now)
<1> DEFINE g == OneMore(f)
<1>0. MaxTime \in Ticks /\ now \in Ticks /\ now - 1 \in Ticks /\ 1 \in Nat \ {0}
  BY LimiterNumbers DEF Ticks
<1>1. \A t \in Ticks : /\ f[t] \in Nat /\ f[t] <= f[MaxTime] /\ t \in Nat
                       /\ g[t] = IF t >= now THEN f[t] + 1 ELSE f[t]
  BY <1>0 DEF Totals, OneMore, Ticks
<1> HIDE DEF g
<1>2. Bounded(g, L)
  <2> SUFFICES ASSUME NEW a \in Ticks, NEW b \in Ticks, a <= b, b <= a + Window
               PROVE  g[b] - g[a] < 2 * L
    BY DEF Bounded
  <2>1. CASE a < now /\ now <= b
    <3>1. now <= a + Window
      BY <1>1, <2>1, LimiterNumbers
    <3>2. f[MaxTime] - f[a] < L
      BY <2>1, <3>1, <1>1 DEF NoWindow
    <3> QED
      BY <1>0, <1>1, <2>1, <3>2
  <2>2. CASE ~(a < now /\ now <= b)
    <3>1. f[b] - f[a] < 2 * L
      BY DEF Bounded
    <3> QED
      BY <1>1, <2>2, <3>1
  <2> QED
    BY <2>1, <2>2
<1>3. f[MaxTime] <= f[now - 1] /\ g[now - 1] = f[now - 1] /\ g[MaxTime] = f[MaxTime] + 1 /\ g[now] = f[now] + 1
  BY <1>0, <1>1 DEF NoWindow
<1>4. f[MaxTime] = f[now - 1] /\ f[MaxTime] = f[now]
  <2>1. f[now - 1] <= f[now]
    BY <1>0 DEF Totals
  <2> QED
    BY <1>0, <1>1, <1>3, <2>1
<1>5. ASSUME NEW a \in Ticks, a < now, now <= a + Window
      PROVE  g[now - 1] - g[a] < L
  <2>1. f[MaxTime] - f[a] < L
    BY <1>5, <1>1 DEF NoWindow
  <2> QED
    BY <1>1, <1>3, <1>4, <1>5, <2>1
<1>6. g[MaxTime] - g[now - 1] = 1 /\ g[MaxTime] - g[now] = 0 /\ g[MaxTime] <= g[now]
  BY <1>0, <1>1, <1>3, <1>4
<1>7. now \in 1..now
  BY LimiterNumbers
<1>8. Opened(g, now, 1, L, now)
  BY <1>0, <1>5, <1>6, <1>7 DEF Opened
<1> QED
  BY <1>2, <1>8 DEF g

\* A further request, within the limit.
LEMMA WindowFills ==
  ASSUME NEW f \in Totals, NEW L \in Nat, L >= 1, now \in 1..MaxTime, Bounded(f, L),
         NEW c, NEW n, Opened(f, c, n, L, now), n < L
  PROVE  Bounded(OneMore(f), L) /\ Opened(OneMore(f), c, n + 1, L, now)
<1> DEFINE g == OneMore(f)
<1>0. MaxTime \in Ticks /\ now \in Ticks /\ c \in Ticks /\ c - 1 \in Ticks /\ c \in Nat /\ c <= now
      /\ n \in Nat /\ n >= 1 /\ c - 1 < now
  BY LimiterNumbers DEF Ticks, Opened
<1>1. \A t \in Ticks : /\ f[t] \in Nat /\ f[t] <= f[MaxTime] /\ t \in Nat
                       /\ g[t] = IF t >= now THEN f[t] + 1 ELSE f[t]
  BY <1>0 DEF Totals, OneMore, Ticks
<1> HIDE DEF g
<1>2. /\ f[MaxTime] <= f[now] /\ f[MaxTime] - f[c - 1] <= n /\ f[MaxTime] - f[c] < n
      /\ \A a \in Ticks : a < c /\ c <= a + Window => f[c - 1] - f[a] < L
  BY DEF Opened
<1>3. \A a \in Ticks : a >= c => f[MaxTime] - f[a] < n
  <2>1. \A a \in Ticks : a >= c => f[c] <= f[a]
    BY <1>0 DEF Totals
  <2> QED
    BY <1>0, <1>1, <1>2, <2>1
<1>4. Bounded(g, L)
  <2> SUFFICES ASSUME NEW a \in Ticks, NEW b \in Ticks, a <= b, b <= a + Window
               PROVE  g[b] - g[a] < 2 * L
    BY DEF Bounded
  <2>0. f[b] - f[a] < 2 * L
    BY DEF Bounded
  <2>1. CASE ~(a < now /\ now <= b)
    BY <1>1, <2>0, <2>1
  <2>2. CASE a < now /\ now <= b
    <3>1. g[b] <= f[MaxTime] + 1 /\ g[a] = f[a]
      BY <1>0, <1>1, <2>2
    <3>2. CASE a >= c
      BY <1>0, <1>1, <1>3, <3>1, <3>2
    <3>3. CASE a < c
      <4>1. c <= a + Window
        BY <1>0, <1>1, <2>2, LimiterNumbers
      <4>2. f[c - 1] - f[a] < L
        BY <1>2, <3>3, <4>1
      <4> QED
        BY <1>0, <1>1, <1>2, <3>1, <4>2
    <3> QED
      BY <1>0, <1>1, <3>2, <3>3
  <2> QED
    BY <2>1, <2>2
<1>5. g[MaxTime] = f[MaxTime] + 1 /\ g[now] = f[now] + 1 /\ g[c - 1] = f[c - 1]
      /\ (g[c] = f[c] \/ g[c] = f[c] + 1)
  BY <1>0, <1>1
<1>6. ASSUME NEW a \in Ticks, a < c, c <= a + Window
      PROVE  g[c - 1] - g[a] < L
  <2>1. g[a] = f[a]
    BY <1>0, <1>1, <1>6
  <2> QED
    BY <1>2, <1>5, <1>6, <2>1
<1>7. /\ g[MaxTime] <= g[now] /\ g[MaxTime] - g[c - 1] <= n + 1 /\ g[MaxTime] - g[c - 1] <= L
      /\ g[MaxTime] - g[c] < n + 1 /\ g[MaxTime] - g[c] < L
  BY <1>0, <1>1, <1>2, <1>5
<1>8. c \in 1..now /\ n + 1 \in Nat \ {0}
  BY <1>0 DEF Opened
<1>9. Opened(g, c, n + 1, L, now)
  BY <1>6, <1>7, <1>8 DEF Opened
<1> QED
  BY <1>4, <1>9 DEF g

\* A further request, beyond the limit.
LEMMA WindowIsFull ==
  ASSUME NEW f \in Totals, NEW L \in Nat, now \in 1..MaxTime, NEW c, NEW n, NEW m \in Nat,
         Opened(f, c, n, L, now), m >= n \/ m >= L, m >= 1
  PROVE  Opened(f, c, m, L, now)
<1>1. MaxTime \in Ticks /\ c \in Ticks /\ c - 1 \in Ticks /\ n \in Nat
  BY LimiterNumbers DEF Ticks, Opened
<1>2. f[MaxTime] \in Nat /\ f[c] \in Nat /\ f[c - 1] \in Nat
  BY <1>1 DEF Totals
<1>3. m \in Nat \ {0}
  OBVIOUS
<1>4. /\ f[MaxTime] - f[c - 1] <= m /\ f[MaxTime] - f[c] < m
  BY <1>1, <1>2, <1>3 DEF Opened
<1> QED
  BY <1>3, <1>4 DEF Opened

\* A number that is given back takes nothing from the bound.
LEMMA WindowShrinks ==
  ASSUME NEW f, NEW g, Within(f, g), NEW L \in Nat, now \in 1..MaxTime
  PROVE  /\ Bounded(g, L) => Bounded(f, L)
         /\ NoWindow(g, L, now) => NoWindow(f, L, now)
         /\ \A c, n : Opened(g, c, n, L, now) => Opened(f, c, n, L, now)
<1>1. MaxTime \in Ticks /\ now \in Ticks /\ now - 1 \in Ticks /\ now - 1 <= MaxTime /\ now <= MaxTime
  BY LimiterNumbers DEF Ticks
<1>2. \A t \in Ticks : f[t] \in Nat /\ g[t] \in Nat /\ t \in Nat /\ t <= MaxTime
  BY DEF Within, Totals, Ticks
<1>3. \A a, b \in Ticks : a <= b => f[b] - f[a] <= g[b] - g[a]
  BY DEF Within
<1>4. ASSUME Bounded(g, L) PROVE Bounded(f, L)
  <2> SUFFICES ASSUME NEW a \in Ticks, NEW b \in Ticks, a <= b, b <= a + Window
               PROVE  f[b] - f[a] < 2 * L
    BY DEF Bounded
  <2>1. g[b] - g[a] < 2 * L
    BY <1>4 DEF Bounded
  <2> QED
    BY <1>2, <1>3, <2>1
<1>5. \A a \in Ticks : f[MaxTime] - f[a] <= g[MaxTime] - g[a]
  BY <1>1, <1>2, <1>3
<1>6. ASSUME NoWindow(g, L, now) PROVE NoWindow(f, L, now)
  <2>1. f[MaxTime] <= f[now - 1]
    BY <1>1, <1>2, <1>5, <1>6 DEF NoWindow
  <2>2. ASSUME NEW a \in Ticks, a <= now, now <= a + Window
        PROVE  f[MaxTime] - f[a] < L
    <3>1. g[MaxTime] - g[a] < L
      BY <1>6, <2>2 DEF NoWindow
    <3> QED
      BY <1>1, <1>2, <1>5, <3>1
  <2> QED
    BY <2>1, <2>2 DEF NoWindow
<1>7. ASSUME NEW c, NEW n, Opened(g, c, n, L, now) PROVE Opened(f, c, n, L, now)
  <2>1. c \in Ticks /\ c - 1 \in Ticks /\ n \in Nat /\ c \in 1..now /\ n \in Nat \ {0}
    BY <1>1, <1>7 DEF Ticks, Opened
  <2>2. /\ g[MaxTime] <= g[now]
        /\ g[MaxTime] - g[c - 1] <= n /\ g[MaxTime] - g[c - 1] <= L
        /\ g[MaxTime] - g[c] < n /\ g[MaxTime] - g[c] < L
    BY <1>7 DEF Opened
  <2>3. /\ f[MaxTime] - f[c - 1] <= g[MaxTime] - g[c - 1] /\ f[MaxTime] - f[c] <= g[MaxTime] - g[c]
        /\ f[MaxTime] - f[now] <= g[MaxTime] - g[now]
    BY <1>1, <1>5, <2>1
  <2>4. /\ f[MaxTime] <= f[now]
        /\ f[MaxTime] - f[c - 1] <= n /\ f[MaxTime] - f[c - 1] <= L
        /\ f[MaxTime] - f[c] < n /\ f[MaxTime] - f[c] < L
    BY <1>1, <1>2, <2>1, <2>2, <2>3
  <2>5. ASSUME NEW a \in Ticks, a < c, c <= a + Window
        PROVE  f[c - 1] - f[a] < L
    <3>1. g[c - 1] - g[a] < L /\ a <= c - 1
      BY <1>2, <1>7, <2>1, <2>5 DEF Opened
    <3> QED
      BY <1>2, <1>3, <2>1, <3>1
  <2> QED
    BY <2>1, <2>4, <2>5 DEF Opened
<1> QED
  BY <1>4, <1>6, <1>7

\* Time passes: what was quiet is, and a window stays open or is over.
LEMMA TimePasses ==
  ASSUME NEW f \in Totals, NEW L \in Nat, L >= 1, now \in 1..MaxTime, now < MaxTime
  PROVE  /\ NoWindow(f, L, now) => NoWindow(f, L, now + 1)
         /\ \A c, n : Opened(f, c, n, L, now) => Opened(f, c, n, L, now + 1)
         /\ \A c, n : Opened(f, c, n, L, now) /\ c + Window <= now + 1 => NoWindow(f, L, now + 1)
<1>1. MaxTime \in Ticks /\ now \in Ticks /\ now - 1 \in Ticks /\ now + 1 \in Ticks /\ (now + 1) - 1 = now
  BY LimiterNumbers DEF Ticks
<1>2. \A t \in Ticks : f[t] \in Nat /\ t \in Nat /\ f[t] <= f[MaxTime]
  BY <1>1 DEF Totals, Ticks
<1>3. f[now - 1] <= f[now] /\ f[now] <= f[now + 1]
  BY <1>1 DEF Totals
<1>4. ASSUME NoWindow(f, L, now) PROVE NoWindow(f, L, now + 1)
  <2>1. f[MaxTime] <= f[now]
    BY <1>1, <1>2, <1>3, <1>4 DEF NoWindow
  <2>2. ASSUME NEW a \in Ticks, a <= now + 1, now + 1 <= a + Window
        PROVE  f[MaxTime] - f[a] < L
    <3>1. CASE a = now + 1
      BY <1>1, <1>2, <1>3, <2>1, <3>1
    <3>2. CASE a # now + 1
      <4>1. a <= now /\ now <= a + Window
        BY <1>1, <1>2, <2>2, <3>2, LimiterNumbers
      <4> QED
        BY <1>4, <4>1 DEF NoWindow
    <3> QED
      BY <3>1, <3>2
  <2> QED
    BY <1>1, <2>1, <2>2 DEF NoWindow
<1>5. ASSUME NEW c, NEW n, Opened(f, c, n, L, now) PROVE Opened(f, c, n, L, now + 1)
  <2>1. c \in 1..(now + 1) /\ f[MaxTime] <= f[(now + 1)]
    BY <1>1, <1>2, <1>3, <1>5 DEF Opened
  <2> QED
    BY <1>5, <2>1 DEF Opened
<1>6. ASSUME NEW c, NEW n, Opened(f, c, n, L, now), c + Window <= now + 1 PROVE NoWindow(f, L, now + 1)
  <2>1. f[MaxTime] <= f[now] /\ c \in Ticks /\ f[MaxTime] - f[c] < L /\ c \in Nat
    BY <1>6, LimiterNumbers DEF Opened, Ticks
  <2>2. ASSUME NEW a \in Ticks, a <= now + 1, now + 1 <= a + Window
        PROVE  f[MaxTime] - f[a] < L
    <3>1. c <= a
      BY <1>1, <1>2, <1>6, <2>1, <2>2, LimiterNumbers
    <3>2. f[c] <= f[a]
      BY <2>1, <3>1 DEF Totals
    <3> QED
      BY <1>1, <1>2, <2>1, <3>2
  <2> QED
    BY <1>1, <2>1, <2>2 DEF NoWindow
<1> QED
  BY <1>4, <1>5, <1>6

-----------------------------------------------------------------------------
\* The requests that Redis has numbered within the limit and that are not yet counted as admitted.
InFlight(t) ==
  {s \in Slots : slot[s].pc \in {"pexpire", "decide"} /\ slot[s].n <= Limit /\ slot[s].at <= t}
Numbered == [t \in Ticks |-> admitted["redis"][t] + Cardinality(InFlight(t))]
OwnLimit == Smaller(Limit, FallbackLimit)
SlotPcs == {"free", "incr", "pexpire", "decide", "pttl"}

LimiterTyped ==
  /\ LimiterTypeOK /\ sent \in Nat
  /\ admitted \in [Counters -> Totals]
  /\ slot \in [Slots -> [pc : SlotPcs, process : Processes \cup {Free.process}, n : Nat, at : Nat]]
  /\ \A s \in Slots : /\ slot[s].pc # "free" => slot[s].process \in Processes
                      /\ slot[s].pc \in {"pexpire", "decide"} => slot[s].at \in 1..now
RedisKeeps ==
  /\ Bounded(Numbered, Limit)
  /\ key.count = 0 => key.expires = 0 /\ NoWindow(Numbered, Limit, now)
  /\ key.count # 0 => \E c \in 1..now :
       /\ Opened(Numbered, c, key.count, Limit, now)
       /\ key.expires # 0 => key.expires >= c + Window /\ key.expires > now
OwnKeeps(p) ==
  /\ Bounded(admitted[p], OwnLimit)
  /\ counter[p].count = 0 \/ counter[p].resetAt <= now => NoWindow(admitted[p], OwnLimit, now)
  /\ counter[p].count # 0 /\ counter[p].resetAt > now =>
       Opened(admitted[p], counter[p].resetAt - Window, counter[p].count, OwnLimit, now)
LimiterInv == LimiterTyped /\ RedisKeeps /\ \A p \in Processes : OwnKeeps(p)

LEMMA OwnLimits == OwnLimit \in Nat /\ OwnLimit >= 1
BY LimiterNumbers DEF OwnLimit, Smaller

LEMMA CountDifference ==
  ASSUME NEW B, IsFiniteSet(B), NEW A, A \subseteq B
  PROVE  /\ Cardinality(A) \in Nat /\ Cardinality(B) \in Nat /\ Cardinality(A) <= Cardinality(B)
         /\ Cardinality(B \ A) = Cardinality(B) - Cardinality(A)
<1>1. IsFiniteSet(A) /\ Cardinality(A) <= Cardinality(B)
  BY FS_Subset
<1>2. B \cap A = A
  OBVIOUS
<1> QED
  BY <1>1, <1>2, FS_Difference, FS_CardinalityType

LEMMA NumberedTotals ==
  ASSUME LimiterTyped
  PROVE  /\ Numbered \in Totals
         /\ \A t \in Ticks : IsFiniteSet(InFlight(t)) /\ Cardinality(InFlight(t)) \in Nat
         /\ \A a, b \in Ticks : a <= b => InFlight(a) \subseteq InFlight(b)
<1>1. \A t \in Ticks : IsFiniteSet(InFlight(t)) /\ Cardinality(InFlight(t)) \in Nat
  <2> SUFFICES ASSUME NEW t \in Ticks PROVE IsFiniteSet(InFlight(t))
    BY FS_CardinalityType
  <2> QED
    BY LimiterConstants, FS_Subset DEF InFlight
<1>2. ASSUME NEW a \in Ticks, NEW b \in Ticks, a <= b PROVE InFlight(a) \subseteq InFlight(b)
  BY <1>2 DEF InFlight, LimiterTyped, Ticks
<1>3. admitted["redis"] \in Totals
  BY DEF LimiterTyped, Counters
<1>4. Numbered \in [Ticks -> Nat]
  BY <1>1, <1>3 DEF Numbered, Totals
<1>5. ASSUME NEW a \in Ticks, NEW b \in Ticks, a <= b PROVE Numbered[a] <= Numbered[b]
  <2>1. Cardinality(InFlight(a)) <= Cardinality(InFlight(b))
    BY <1>1, <1>2, <1>5, CountDifference
  <2>2. admitted["redis"][a] <= admitted["redis"][b]
        /\ admitted["redis"][a] \in Nat /\ admitted["redis"][b] \in Nat
    BY <1>3, <1>5 DEF Totals
  <2> QED
    BY <1>1, <2>1, <2>2 DEF Numbered
<1> QED
  BY <1>1, <1>2, <1>4, <1>5 DEF Totals

\* Requests leave before they are counted.
LEMMA NumbersGivenBack ==
  ASSUME LimiterTyped, LimiterTyped', admitted'["redis"] = admitted["redis"],
         \A s \in Slots : slot'[s] = slot[s] \/ slot'[s].pc \notin {"pexpire", "decide"}
  PROVE  Within(Numbered', Numbered)
<1> DEFINE R == {s \in Slots : slot'[s].pc \notin {"pexpire", "decide"}}
<1>1. Numbered \in Totals /\ (Numbered \in Totals)'
  BY NumberedTotals, PTL
<1>2. \A t \in Ticks : InFlight(t)' = InFlight(t) \ R
  BY DEF InFlight
<1>3. ASSUME NEW a \in Ticks, NEW b \in Ticks, a <= b
      PROVE  Numbered'[b] - Numbered'[a] <= Numbered[b] - Numbered[a]
  <2> DEFINE A == InFlight(a)
             B == InFlight(b)
  <2>1. A \subseteq B /\ IsFiniteSet(B) /\ A \ R \subseteq B \ R
    BY <1>3, NumberedTotals
  <2>2. IsFiniteSet(B \ R) /\ IsFiniteSet(B \ A)
    BY <2>1, FS_Subset
  <2>3. (B \ R) \ (A \ R) \subseteq B \ A
    OBVIOUS
  <2>4. Cardinality((B \ R) \ (A \ R)) <= Cardinality(B \ A)
    BY <2>2, <2>3, FS_Subset
  <2>5. /\ Cardinality(A) \in Nat /\ Cardinality(B) \in Nat
        /\ Cardinality(B \ A) = Cardinality(B) - Cardinality(A)
    BY <2>1, CountDifference
  <2>6. /\ Cardinality(A \ R) \in Nat /\ Cardinality(B \ R) \in Nat
        /\ Cardinality((B \ R) \ (A \ R)) = Cardinality(B \ R) - Cardinality(A \ R)
    BY <2>1, <2>2, CountDifference
  <2>7. /\ Numbered[a] = admitted["redis"][a] + Cardinality(A)
        /\ Numbered[b] = admitted["redis"][b] + Cardinality(B)
    BY DEF Numbered
  <2>8. /\ Numbered'[a] = admitted["redis"][a] + Cardinality(A \ R)
        /\ Numbered'[b] = admitted["redis"][b] + Cardinality(B \ R)
    BY <1>2 DEF Numbered
  <2>9. admitted["redis"][a] \in Nat /\ admitted["redis"][b] \in Nat
    BY DEF LimiterTyped, Totals, Counters
  <2> HIDE DEF A, B, R
  <2> QED
    BY <2>4, <2>5, <2>6, <2>7, <2>8, <2>9
<1> QED
  BY <1>1, <1>3 DEF Within

\* The key is what it was, or its expiry is set.
Expiring ==
  /\ key' \in [count : Nat, expires : Nat] /\ key'.count = key.count
  /\ key'.expires = key.expires \/ (key.count # 0 /\ key'.expires = now + Window)
\* What Redis keeps depends on the numbers, the key and the time.
LEMMA RedisStays ==
  ASSUME LimiterTyped, LimiterTyped', RedisKeeps, UNCHANGED now, Expiring,
         Within(Numbered', Numbered) \/ Numbered' = Numbered
  PROVE  RedisKeeps'
<1>0. now \in 1..MaxTime /\ Limit \in Nat /\ Window \in Nat /\ Window >= 1
  BY LimiterNumbers DEF LimiterTyped, LimiterTypeOK
<1> DEFINE g == Numbered
           f == Numbered'
<1>1. /\ Bounded(g, Limit) => Bounded(f, Limit)
      /\ NoWindow(g, Limit, now) => NoWindow(f, Limit, now)
      /\ \A c, n : Opened(g, c, n, Limit, now) => Opened(f, c, n, Limit, now)
  <2> HIDE DEF f, g
  <2>1. CASE Within(f, g)
    BY <1>0, <2>1, WindowShrinks
  <2>2. CASE f = g
    BY <2>2
  <2> QED
    BY <2>1, <2>2 DEF f, g
<1>2. /\ Bounded(f, Limit) = Bounded(Numbered, Limit)'
      /\ NoWindow(f, Limit, now) = NoWindow(Numbered, Limit, now)'
      /\ \A c, n : Opened(f, c, n, Limit, now) = Opened(Numbered, c, n, Limit, now)'
  BY DEF Bounded, NoWindow, Opened
<1> HIDE DEF f
<1>3. key'.count = 0 => key'.expires = 0 /\ NoWindow(f, Limit, now)
  BY <1>1 DEF RedisKeeps, Expiring
<1>4. ASSUME key'.count # 0
      PROVE  \E c \in 1..now : /\ Opened(f, c, key'.count, Limit, now)
                               /\ key'.expires # 0 => key'.expires >= c + Window /\ key'.expires > now
  <2>1. PICK c \in 1..now : /\ Opened(g, c, key.count, Limit, now)
                            /\ key.expires # 0 => key.expires >= c + Window /\ key.expires > now
    BY <1>4 DEF RedisKeeps, Expiring
  <2>2. key'.expires # 0 => key'.expires >= c + Window /\ key'.expires > now
    BY <1>0, <2>1 DEF Expiring
  <2> QED
    BY <1>1, <2>1, <2>2 DEF Expiring
<1>5. Bounded(f, Limit)
  BY <1>1 DEF RedisKeeps
<1> QED
  BY <1>2, <1>3, <1>4, <1>5 DEF RedisKeeps

LEMMA OwnStays ==
  ASSUME NEW p \in Processes, OwnKeeps(p), admitted'[p] = admitted[p], counter'[p] = counter[p],
         UNCHANGED now
  PROVE  OwnKeeps(p)'
BY DEF OwnKeeps, Bounded, NoWindow, Opened

LEMMA FreeTyped ==
  /\ Free \in [pc : SlotPcs, process : Processes \cup {Free.process}, n : Nat, at : Nat]
  /\ Free.pc = "free"
BY DEF Free, SlotPcs

LEMMA NoneYetTotals == NoneYet \in Totals /\ \A t \in Ticks : NoneYet[t] = 0
BY DEF NoneYet, Totals, Ticks

LEMMA NoneYetKeeps ==
  ASSUME now \in 1..MaxTime, NEW L \in Nat, L >= 1
  PROVE  Bounded(NoneYet, L) /\ NoWindow(NoneYet, L, now)
<1>1. MaxTime \in Ticks /\ now - 1 \in Ticks
  BY LimiterNumbers DEF Ticks
<1> QED
  BY <1>1, NoneYetTotals DEF Bounded, NoWindow

LEMMA LimiterStarts == LimiterInit => LimiterInv
<1> SUFFICES ASSUME LimiterInit PROVE LimiterInv
  OBVIOUS
<1>0. now = 1 /\ now \in 1..MaxTime /\ Limit \in Nat /\ Limit >= 1
  BY LimiterNumbers DEF LimiterInit
<1>1. admitted = [who \in Counters |-> NoneYet] /\ slot = [s \in Slots |-> Free]
  BY DEF LimiterInit
<1>2. LimiterTyped
  <2>1. LimiterTypeOK /\ sent \in Nat
    BY <1>0 DEF LimiterInit, LimiterTypeOK, NoKey, NoEntry
  <2>2. admitted \in [Counters -> Totals]
    BY <1>1, NoneYetTotals
  <2>3. slot \in [Slots -> [pc : SlotPcs, process : Processes \cup {Free.process}, n : Nat, at : Nat]]
    BY <1>1, FreeTyped
  <2>4. \A s \in Slots : slot[s].pc = "free"
    BY <1>1, FreeTyped
  <2> QED
    BY <2>1, <2>2, <2>3, <2>4 DEF LimiterTyped
<1>3. Numbered = NoneYet
  <2>1. \A t \in Ticks : InFlight(t) = {}
    BY <1>1, FreeTyped DEF InFlight
  <2>2. \A t \in Ticks : admitted["redis"][t] + Cardinality(InFlight(t)) = 0
    BY <1>1, <2>1, NoneYetTotals, FS_EmptySet DEF Counters
  <2>3. Numbered = [t \in Ticks |-> 0]
    BY <2>2 DEF Numbered
  <2> QED
    BY <2>3 DEF NoneYet, Ticks
<1>4. RedisKeeps
  <2>1. key.count = 0 /\ key.expires = 0
    BY DEF LimiterInit, NoKey
  <2> QED
    BY <1>0, <1>3, <2>1, NoneYetKeeps DEF RedisKeeps
<1>5. ASSUME NEW p \in Processes PROVE OwnKeeps(p)
  <2>1. counter[p].count = 0 /\ admitted[p] = NoneYet
    BY <1>1 DEF LimiterInit, NoEntry, Counters
  <2> QED
    BY <1>0, <2>1, NoneYetKeeps, OwnLimits DEF OwnKeeps
<1> QED
  BY <1>2, <1>4, <1>5 DEF LimiterInv

\* A request moves and no counter does.
LEMMA RequestMoves ==
  ASSUME LimiterInv, UNCHANGED <<now, up, counter, admitted>>, sent' \in Nat, Expiring,
         NEW s \in Slots,
         NEW r \in [pc : {"free", "incr", "pttl", "decide"}, process : Processes \cup {Free.process},
                    n : Nat, at : Nat],
         slot' = [slot EXCEPT ![s] = r], r.pc # "free" => r.process \in Processes,
         r.pc = "decide" => slot[s] = [r EXCEPT !.pc = "pexpire"]
  PROVE  LimiterInv'
<1>1. LimiterTyped /\ RedisKeeps /\ \A p \in Processes : OwnKeeps(p)
  BY DEF LimiterInv
<1>2. LimiterTyped'
  <2>1. slot' \in [Slots -> [pc : SlotPcs, process : Processes \cup {Free.process}, n : Nat, at : Nat]]
    BY <1>1 DEF LimiterTyped, SlotPcs
  <2>2. r.pc = "decide" => slot[s].pc = "pexpire" /\ slot[s].at = r.at
    OBVIOUS
  <2>3. \A v \in Slots : /\ slot'[v].pc # "free" => slot'[v].process \in Processes
                         /\ slot'[v].pc \in {"pexpire", "decide"} => slot'[v].at \in 1..now
    BY <1>1, <2>1, <2>2 DEF LimiterTyped
  <2> QED
    BY <1>1, <2>1, <2>3 DEF LimiterTyped, LimiterTypeOK, Expiring
<1>3. Within(Numbered', Numbered) \/ Numbered' = Numbered
  <2>1. CASE r.pc # "decide"
    <3>1. \A v \in Slots : slot'[v] = slot[v] \/ slot'[v].pc \notin {"pexpire", "decide"}
      BY <1>1, <2>1 DEF LimiterTyped
    <3> QED
      BY <1>1, <1>2, <3>1, NumbersGivenBack
  <2>2. CASE r.pc = "decide"
    <3>1. slot[s].pc = "pexpire" /\ slot[s].n = r.n /\ slot[s].at = r.at /\ slot'[s] = r
      BY <1>1, <2>2 DEF LimiterTyped
    <3>2. \A v \in Slots : v # s => slot'[v] = slot[v]
      BY <1>1 DEF LimiterTyped
    <3>3. \A t \in Ticks : InFlight(t)' = InFlight(t)
      BY <2>2, <3>1, <3>2 DEF InFlight
    <3> QED
      BY <3>3 DEF Numbered
  <2> QED
    BY <2>1, <2>2
<1>4. RedisKeeps'
  BY <1>1, <1>2, <1>3, RedisStays
<1>5. \A p \in Processes : OwnKeeps(p)'
  BY <1>1, OwnStays
<1> QED
  BY <1>2, <1>4, <1>5 DEF LimiterInv

SlotMoved(s, pc) == [pc |-> pc, process |-> slot[s].process, n |-> slot[s].n, at |-> slot[s].at]
LEMMA SlotMoves ==
  ASSUME LimiterTyped, NEW s \in Slots
  PROVE  /\ slot[s] = SlotMoved(s, slot[s].pc)
         /\ slot[s].process \in Processes \cup {Free.process} /\ slot[s].n \in Nat /\ slot[s].at \in Nat
         /\ \A pc : [slot EXCEPT ![s].pc = pc] = [slot EXCEPT ![s] = SlotMoved(s, pc)]
<1>1. slot[s] \in [pc : SlotPcs, process : Processes \cup {Free.process}, n : Nat, at : Nat]
  BY DEF LimiterTyped
<1> QED
  BY <1>1 DEF SlotMoved

LEMMA KeyStays ==
  ASSUME LimiterTyped, UNCHANGED key
  PROVE  Expiring
BY DEF LimiterTyped, LimiterTypeOK, Expiring

LEMMA AskKeeps ==
  ASSUME LimiterInv, NEW s \in Slots, NEW p \in Processes, Ask(s, p)
  PROVE  LimiterInv'
<1> DEFINE r == [Free EXCEPT !.pc = "incr", !.process = p]
<1>1. /\ r \in [pc : {"free", "incr", "pttl", "decide"}, process : Processes \cup {Free.process},
                n : Nat, at : Nat]
      /\ r.pc = "incr" /\ r.process \in Processes
  BY DEF Free
<1>2. Expiring /\ sent' \in Nat /\ slot' = [slot EXCEPT ![s] = r]
      /\ UNCHANGED <<now, up, counter, admitted>>
  BY KeyStays DEF Ask, LimiterInv, LimiterTyped
<1> HIDE DEF r
<1> QED
  BY <1>1, <1>2, RequestMoves

LEMMA PExpireKeeps ==
  ASSUME LimiterInv, NEW s \in Slots, PExpire(s)
  PROVE  LimiterInv'
<1> DEFINE r == SlotMoved(s, "decide")
<1>0. LimiterTyped /\ slot[s].pc = "pexpire" /\ slot[s].process \in Processes
  BY DEF LimiterInv, LimiterTyped, PExpire
<1>1. /\ r \in [pc : {"free", "incr", "pttl", "decide"}, process : Processes \cup {Free.process},
                n : Nat, at : Nat]
      /\ r.pc = "decide" /\ r.process \in Processes
  BY <1>0, SlotMoves DEF SlotMoved
<1>1a. slot[s] = [r EXCEPT !.pc = "pexpire"]
  BY <1>0, SlotMoves DEF SlotMoved
<1>2. Expiring
  BY <1>0, LimiterNumbers DEF Expiring, PExpire, LimiterTyped, LimiterTypeOK
<1>3. sent' \in Nat /\ slot' = [slot EXCEPT ![s] = r] /\ UNCHANGED <<now, up, counter, admitted>>
  BY <1>0, SlotMoves DEF PExpire, LimiterTyped
<1> HIDE DEF r
<1> QED
  BY <1>1, <1>1a, <1>2, <1>3, RequestMoves

LEMMA RefuseKeeps ==
  ASSUME LimiterInv, NEW s \in Slots, Refuse(s)
  PROVE  LimiterInv'
<1>1. /\ Free \in [pc : {"free", "incr", "pttl", "decide"}, process : Processes \cup {Free.process},
                   n : Nat, at : Nat]
      /\ Free.pc = "free"
  BY DEF Free
<1>2. Expiring /\ sent' \in Nat /\ slot' = [slot EXCEPT ![s] = Free]
      /\ UNCHANGED <<now, up, counter, admitted>>
  BY KeyStays DEF Refuse, LimiterInv, LimiterTyped
<1> QED
  BY <1>1, <1>2, RequestMoves

\* A request within the limit is counted as it was numbered.
LEMMA DecideKeeps ==
  ASSUME LimiterInv, NEW s \in Slots, Decide(s)
  PROVE  LimiterInv'
<1>0. LimiterTyped /\ RedisKeeps /\ (\A p \in Processes : OwnKeeps(p)) /\ slot[s].pc = "decide"
  BY DEF LimiterInv, Decide
<1>1. CASE ~WithinLimit(slot[s].n)
  <2> DEFINE r == SlotMoved(s, "pttl")
  <2>0. slot[s].process \in Processes
    BY <1>0 DEF LimiterTyped
  <2>1. /\ r \in [pc : {"free", "incr", "pttl", "decide"}, process : Processes \cup {Free.process},
                  n : Nat, at : Nat]
        /\ r.pc = "pttl" /\ r.process \in Processes
    BY <1>0, <2>0, SlotMoves DEF SlotMoved
  <2>2. Expiring /\ sent' \in Nat /\ slot' = [slot EXCEPT ![s] = r]
        /\ UNCHANGED <<now, up, counter, admitted>>
    BY <1>0, <1>1, KeyStays, SlotMoves DEF Decide, LimiterTyped
  <2> HIDE DEF r
  <2> QED
    BY <2>1, <2>2, RequestMoves
<1>2. CASE WithinLimit(slot[s].n)
  <2> DEFINE a == slot[s].at
             h == [t \in 0..MaxTime |->
                     IF t >= a THEN admitted["redis"][t] + 1 ELSE admitted["redis"][t]]
  <2>1. /\ slot' = [slot EXCEPT ![s] = Free] /\ UNCHANGED <<now, up, key, counter, sent>>
        /\ admitted' = [admitted EXCEPT !["redis"] = h]
    BY <1>2 DEF Decide, Admitted
  <2>2. a \in 1..now /\ now \in 1..MaxTime /\ admitted["redis"] \in Totals
    BY <1>0 DEF LimiterTyped, LimiterTypeOK, Counters
  <2>3. h \in Totals
    <3>1. /\ \A t \in Ticks : admitted["redis"][t] \in Nat
          /\ \A b, c \in Ticks : b <= c => admitted["redis"][b] <= admitted["redis"][c]
      BY <2>2 DEF Totals
    <3>2. a \in Nat /\ Ticks \subseteq Nat /\ Ticks = 0..MaxTime
      BY <2>2 DEF Ticks
    <3>3. \A t \in Ticks : h[t] \in Nat /\ h[t] = IF t >= a THEN admitted["redis"][t] + 1 ELSE admitted["redis"][t]
      BY <3>1, <3>2
    <3>4. h \in [Ticks -> Nat]
      BY <3>2, <3>3
    <3> HIDE DEF h, a
    <3> QED
      BY <3>1, <3>2, <3>3, <3>4 DEF Totals
  <2>4. LimiterTyped'
    <3>1. admitted' \in [Counters -> Totals]
      BY <1>0, <2>1, <2>3 DEF LimiterTyped
    <3>2. /\ slot' \in [Slots -> [pc : SlotPcs, process : Processes \cup {Free.process}, n : Nat, at : Nat]]
          /\ \A v \in Slots : slot'[v] = IF v = s THEN Free ELSE slot[v]
      BY <1>0, <2>1, FreeTyped DEF LimiterTyped
    <3>3. \A v \in Slots : /\ slot'[v].pc # "free" => slot'[v].process \in Processes
                           /\ slot'[v].pc \in {"pexpire", "decide"} => slot'[v].at \in 1..now
      BY <1>0, <3>2, FreeTyped DEF LimiterTyped
    <3> QED
      BY <1>0, <2>1, <3>1, <3>2, <3>3 DEF LimiterTyped, LimiterTypeOK
  <2>5. ASSUME NEW t \in Ticks
        PROVE  admitted'["redis"][t] + Cardinality(InFlight(t)') = admitted["redis"][t] + Cardinality(InFlight(t))
    <3>1. IsFiniteSet(InFlight(t)) /\ admitted["redis"][t] \in Nat
      BY <1>0, <2>2, NumberedTotals DEF Totals
    <3>2. admitted'["redis"][t] = IF t >= a THEN admitted["redis"][t] + 1 ELSE admitted["redis"][t]
      BY <1>0, <2>1 DEF LimiterTyped, Counters, Ticks
    <3>3. InFlight(t)' = InFlight(t) \ {s} /\ (s \in InFlight(t) <=> t >= a)
      <4>1. \A v \in Slots : slot'[v] = IF v = s THEN Free ELSE slot[v]
        BY <1>0, <2>1 DEF LimiterTyped
      <4>2. InFlight(t)' = InFlight(t) \ {s}
        BY <4>1, FreeTyped DEF InFlight
      <4>3. s \in InFlight(t) <=> a <= t
        BY <1>0, <1>2 DEF InFlight, WithinLimit
      <4> QED
        BY <2>2, <4>2, <4>3 DEF Ticks
    <3>4. Cardinality(InFlight(t)) \in Nat
      BY <3>1, FS_CardinalityType
    <3>5. CASE t >= a
      <4>1. Cardinality(InFlight(t) \ {s}) = Cardinality(InFlight(t)) - 1
        BY <3>1, <3>3, <3>5, FS_RemoveElement
      <4> QED
        BY <3>1, <3>2, <3>3, <3>4, <3>5, <4>1
    <3>6. CASE ~(t >= a)
      <4>1. InFlight(t) \ {s} = InFlight(t)
        BY <3>3, <3>6
      <4> QED
        BY <3>2, <3>3, <3>6, <4>1
    <3> QED
      BY <3>5, <3>6
  <2>6. Numbered' = Numbered
    BY <2>5 DEF Numbered
  <2>7. RedisKeeps'
    <3>1. Expiring
      BY <1>0, <2>1, KeyStays
    <3> QED
      BY <1>0, <2>1, <2>4, <2>6, <3>1, RedisStays
  <2>8. ASSUME NEW p \in Processes PROVE OwnKeeps(p)'
    <3>1. p # "redis"
      BY LimiterConstants
    <3>2. admitted'[p] = admitted[p]
      BY <1>0, <2>1, <3>1 DEF LimiterTyped, Counters
    <3> QED
      BY <1>0, <2>1, <3>2, OwnStays
  <2> QED
    BY <2>4, <2>7, <2>8 DEF LimiterInv
<1> QED
  BY <1>1, <1>2

\* The number is taken, and counts if it is within the limit.
LEMMA IncrKeeps ==
  ASSUME LimiterInv, NEW s \in Slots, Incr(s)
  PROVE  LimiterInv'
<1> DEFINE m == key.count + 1
           next == IF key.count = 0 THEN "pexpire" ELSE "decide"
           r == [pc |-> next, process |-> slot[s].process, n |-> m, at |-> now]
<1>0. /\ LimiterTyped /\ RedisKeeps /\ (\A p \in Processes : OwnKeeps(p)) /\ slot[s].pc = "incr"
      /\ now \in 1..MaxTime /\ key \in [count : Nat, expires : Nat]
      /\ UNCHANGED <<now, up, counter, admitted, sent>> /\ key' = [key EXCEPT !.count = m]
      /\ slot' = [slot EXCEPT ![s] = r]
  BY DEF LimiterInv, LimiterTyped, LimiterTypeOK, Incr
<1>1. key' = [count |-> m, expires |-> key.expires] /\ m \in Nat /\ m >= 1
  BY <1>0
<1>2. /\ slot' = [slot EXCEPT ![s] = r] /\ slot[s].process \in Processes
      /\ slot' \in [Slots -> [pc : SlotPcs, process : Processes \cup {Free.process}, n : Nat, at : Nat]]
      /\ slot'[s] = r /\ \A v \in Slots \ {s} : slot'[v] = slot[v]
  <2>1. slot[s] \in [pc : SlotPcs, process : Processes \cup {Free.process}, n : Nat, at : Nat]
    BY <1>0 DEF LimiterTyped
  <2>2. r \in [pc : SlotPcs, process : Processes \cup {Free.process}, n : Nat, at : Nat]
    BY <1>0, <1>1, <2>1 DEF SlotPcs
  <2>3. slot' = [slot EXCEPT ![s] = r]
    BY <1>0
  <2>4. slot \in [Slots -> [pc : SlotPcs, process : Processes \cup {Free.process}, n : Nat, at : Nat]]
    BY <1>0 DEF LimiterTyped
  <2>5. slot[s].process \in Processes
    BY <1>0 DEF LimiterTyped
  <2> HIDE DEF r
  <2> QED
    BY <2>2, <2>3, <2>4, <2>5
<1>3. LimiterTyped'
  <2>1. \A v \in Slots : /\ slot'[v].pc # "free" => slot'[v].process \in Processes
                         /\ slot'[v].pc \in {"pexpire", "decide"} => slot'[v].at \in 1..now
    BY <1>0, <1>2 DEF LimiterTyped
  <2>2. key' \in [count : Nat, expires : Nat]
    BY <1>0, <1>1
  <2> QED
    BY <1>0, <1>2, <2>1, <2>2 DEF LimiterTyped, LimiterTypeOK
<1>4. ASSUME NEW t \in Ticks
      PROVE  InFlight(t)' = IF m <= Limit /\ t >= now THEN InFlight(t) \cup {s} ELSE InFlight(t)
  <2>1. s \notin InFlight(t)
    BY <1>0 DEF InFlight
  <2>2. s \in InFlight(t)' <=> (m <= Limit /\ t >= now)
    BY <1>0, <1>2 DEF InFlight, Ticks
  <2>3. \A v \in Slots \ {s} : v \in InFlight(t)' <=> v \in InFlight(t)
    BY <1>0, <1>2 DEF InFlight
  <2>4. InFlight(t) \subseteq Slots /\ InFlight(t)' \subseteq Slots
    BY DEF InFlight
  <2> QED
    BY <2>1, <2>2, <2>3, <2>4
<1>5. Numbered' = IF m <= Limit THEN OneMore(Numbered) ELSE Numbered
  <2>1. CASE m > Limit
    <3>1. \A t \in Ticks : InFlight(t)' = InFlight(t)
      BY <1>1, <1>4, <2>1, LimiterNumbers
    <3> QED
      BY <1>0, <1>1, <2>1, <3>1, LimiterNumbers DEF Numbered
  <2>2. CASE m <= Limit
    <3>1. ASSUME NEW t \in Ticks
          PROVE  admitted'["redis"][t] + Cardinality(InFlight(t)') =
                   IF t >= now THEN Numbered[t] + 1 ELSE Numbered[t]
      <4>1. IsFiniteSet(InFlight(t)) /\ Cardinality(InFlight(t)) \in Nat
        BY <1>0, NumberedTotals
      <4>2. admitted["redis"][t] \in Nat
        BY <1>0 DEF LimiterTyped, Totals, Counters
      <4>3. Numbered[t] = admitted["redis"][t] + Cardinality(InFlight(t))
        BY DEF Numbered
      <4>4. s \notin InFlight(t)
        BY <1>0 DEF InFlight
      <4>5. Cardinality(InFlight(t) \cup {s}) = Cardinality(InFlight(t)) + 1
        BY <4>1, <4>4, FS_AddElement
      <4>6. CASE t >= now
        <5>1. InFlight(t)' = InFlight(t) \cup {s} /\ admitted'["redis"][t] = admitted["redis"][t]
          BY <1>0, <1>4, <2>2, <4>6
        <5> QED
          BY <4>1, <4>2, <4>3, <4>5, <4>6, <5>1
      <4>7. CASE ~(t >= now)
        BY <1>0, <1>4, <2>2, <4>3, <4>7
      <4> QED
        BY <4>6, <4>7
    <3>2. Numbered' = [t \in Ticks |-> IF t >= now THEN Numbered[t] + 1 ELSE Numbered[t]]
      BY <3>1 DEF Numbered
    <3> QED
      BY <2>2, <3>2 DEF OneMore
  <2> QED
    BY <1>1, <2>1, <2>2, LimiterNumbers
<1>6. RedisKeeps'
  <2> DEFINE f == Numbered
             g == Numbered'
  <2>0. f \in Totals /\ Bounded(f, Limit) /\ Limit \in Nat /\ Limit >= 1
    BY <1>0, NumberedTotals, LimiterNumbers DEF RedisKeeps
  <2>1. \E c \in 1..now : /\ Bounded(g, Limit) /\ Opened(g, c, m, Limit, now)
                          /\ key.expires # 0 => key.expires >= c + Window /\ key.expires > now
    <3>1. CASE key.count = 0
      <4>1. NoWindow(f, Limit, now) /\ key.expires = 0 /\ m = 1 /\ m <= Limit
        BY <1>0, <2>0, <3>1 DEF RedisKeeps
      <4>2. g = OneMore(f)
        BY <1>5, <4>1
      <4> HIDE DEF f, g, m
      <4>3. Bounded(g, Limit) /\ Opened(g, now, 1, Limit, now)
        BY <1>0, <2>0, <4>1, <4>2, WindowOpens
      <4>4. now \in 1..now
        BY <1>0
      <4> QED
        BY <4>1, <4>3, <4>4
    <3>2. CASE key.count # 0
      <4>1. PICK c \in 1..now : /\ Opened(f, c, key.count, Limit, now)
                                /\ key.expires # 0 => key.expires >= c + Window /\ key.expires > now
        BY <1>0, <3>2 DEF RedisKeeps
      <4>2. CASE m <= Limit
        <5>1. g = OneMore(f) /\ key.count < Limit
          BY <1>0, <1>5, <2>0, <4>2
        <5> HIDE DEF f, g
        <5>2. Bounded(g, Limit) /\ Opened(g, c, key.count + 1, Limit, now)
          BY <1>0, <2>0, <4>1, <5>1, WindowFills
        <5> QED
          BY <4>1, <5>2
      <4>3. CASE ~(m <= Limit)
        <5>1. g = f /\ m >= key.count
          BY <1>0, <1>5, <4>3
        <5> HIDE DEF f, g, m
        <5>2. Opened(f, c, m, Limit, now)
          BY <1>0, <1>1, <2>0, <4>1, <5>1, WindowIsFull
        <5> QED
          BY <2>0, <4>1, <5>1, <5>2
      <4> QED
        BY <4>2, <4>3
    <3> QED
      BY <3>1, <3>2
  <2>2. /\ Bounded(g, Limit) = Bounded(Numbered, Limit)'
        /\ \A c : Opened(g, c, m, Limit, now) = Opened(Numbered, c, key.count, Limit, now)'
    BY <1>0, <1>1 DEF Bounded, Opened
  <2>3. key'.count # 0 /\ key'.expires = key.expires
    BY <1>1
  <2> HIDE DEF f, g, m
  <2> QED
    BY <1>0, <2>1, <2>2, <2>3 DEF RedisKeeps
<1>7. \A p \in Processes : OwnKeeps(p)'
  BY <1>0, OwnStays
<1> QED
  BY <1>3, <1>6, <1>7 DEF LimiterInv

\* The limiter of one process, when Redis does not answer.
LEMMA OwnConsumes ==
  ASSUME LimiterTyped, NEW p \in Processes, OwnKeeps(p), UNCHANGED now,
         counter'[p] = Consumed(counter[p], OwnLimit),
         admitted'[p] = IF Allows(counter[p], OwnLimit) THEN OneMore(admitted[p]) ELSE admitted[p]
  PROVE  OwnKeeps(p)'
<1> DEFINE L == OwnLimit
           f == admitted[p]
           g == admitted'[p]
           e == counter[p]
           d == counter'[p]
<1>0. /\ f \in Totals /\ L \in Nat /\ L >= 1 /\ now \in 1..MaxTime
      /\ e \in [count : Nat, resetAt : Nat] /\ Window \in Nat /\ Window >= 1 /\ now \in Nat
  BY OwnLimits, LimiterNumbers DEF LimiterTyped, LimiterTypeOK, Counters
<1>1. Bounded(g, L) /\ d.count # 0 /\ Opened(g, d.resetAt - Window, d.count, L, now)
  <2>1. CASE e.count = 0 \/ e.resetAt <= now
    <3>1. NoWindow(f, L, now) /\ Bounded(f, L)
      BY <2>1 DEF OwnKeeps
    <3>2. g = OneMore(f) /\ d = [count |-> 1, resetAt |-> now + Window]
      BY <2>1 DEF Allows, Consumed
    <3>3. d.resetAt - Window = now /\ d.count = 1
      BY <1>0, <3>2
    <3> HIDE DEF f, g, e, d, L
    <3>4. Bounded(OneMore(f), L) /\ Opened(OneMore(f), now, 1, L, now)
      BY <1>0, <3>1, WindowOpens
    <3> QED
      BY <3>2, <3>3, <3>4
  <2>2. CASE ~(e.count = 0 \/ e.resetAt <= now)
    <3>1. Opened(f, e.resetAt - Window, e.count, L, now) /\ Bounded(f, L)
      BY <1>0, <2>2 DEF OwnKeeps
    <3>2. d = [e EXCEPT !.count = Smaller(e.count + 1, L)]
      BY <2>2 DEF Consumed
    <3>3. d.resetAt = e.resetAt /\ d.count = Smaller(e.count + 1, L)
      BY <1>0, <3>2
    <3>4. CASE e.count < L
      <4>1. g = OneMore(f)
        BY <2>2, <3>4 DEF Allows
      <4>2. d.count = e.count + 1
        BY <1>0, <3>3, <3>4 DEF Smaller
      <4>3. e.count \in Nat
        BY <1>0
      <4> HIDE DEF f, g, e, d, L
      <4>4. Bounded(OneMore(f), L) /\ Opened(OneMore(f), e.resetAt - Window, e.count + 1, L, now)
        BY <1>0, <3>1, <3>4, WindowFills
      <4> QED
        BY <3>3, <4>1, <4>2, <4>3, <4>4
    <3>5. CASE ~(e.count < L)
      <4>1. g = f
        BY <2>2, <3>5 DEF Allows
      <4>2. d.count = L
        BY <1>0, <3>3, <3>5 DEF Smaller
      <4> HIDE DEF f, g, e, d, L
      <4>3. Opened(f, e.resetAt - Window, L, L, now)
        BY <1>0, <3>1, WindowIsFull
      <4> QED
        BY <1>0, <3>1, <3>3, <4>1, <4>2, <4>3
    <3> QED
      BY <3>4, <3>5
  <2> QED
    BY <2>1, <2>2
<1>2. d.resetAt > now
  <2>1. CASE e.count = 0 \/ e.resetAt <= now
    BY <1>0, <2>1 DEF Consumed
  <2>2. CASE ~(e.count = 0 \/ e.resetAt <= now)
    BY <1>0, <2>2 DEF Consumed
  <2> QED
    BY <2>1, <2>2
<1>3. ~(d.count = 0 \/ d.resetAt <= now)
  <2>1. d.resetAt \in Nat
    BY <1>0 DEF Consumed
  <2> QED
    BY <1>0, <1>1, <1>2, <2>1
<1>4. /\ Bounded(g, L) = Bounded(admitted[p], OwnLimit)'
      /\ Opened(g, d.resetAt - Window, d.count, L, now)
           = Opened(admitted[p], counter[p].resetAt - Window, counter[p].count, OwnLimit, now)'
  BY DEF Bounded, Opened, OwnLimit
<1> HIDE DEF g, L
<1> QED
  BY <1>1, <1>3, <1>4 DEF OwnKeeps

LEMMA FallBackKeeps ==
  ASSUME LimiterInv, NEW s \in Slots, FallBack(s)
  PROVE  LimiterInv'
<1> DEFINE p == slot[s].process
<1>0. /\ LimiterTyped /\ RedisKeeps /\ (\A q \in Processes : OwnKeeps(q))
      /\ p \in Processes /\ p # "redis" /\ now \in 1..MaxTime
  BY LimiterConstants DEF LimiterInv, LimiterTyped, LimiterTypeOK, FallBack
<1>1. /\ UNCHANGED <<now, up, key, sent>> /\ slot' = [slot EXCEPT ![s] = Free]
      /\ counter' = [counter EXCEPT ![p] = Consumed(counter[p], OwnLimit)]
      /\ admitted' = IF Allows(counter[p], OwnLimit)
                     THEN [admitted EXCEPT ![p] = OneMore(admitted[p])] ELSE admitted
  BY DEF FallBack, Admitted, OneMore, Ticks, OwnLimit
<1>2. /\ admitted \in [Counters -> Totals] /\ p \in Counters
      /\ counter \in [Processes -> [count : Nat, resetAt : Nat]]
  BY <1>0 DEF LimiterTyped, LimiterTypeOK, Counters
<1>3. OneMore(admitted[p]) \in Totals
  BY <1>0, <1>2, OneMoreTotals
<1>4. Consumed(counter[p], OwnLimit) \in [count : Nat, resetAt : Nat]
  <2>1. counter[p] \in [count : Nat, resetAt : Nat] /\ now + Window \in Nat /\ OwnLimit \in Nat
    BY <1>0, <1>2, OwnLimits, LimiterNumbers
  <2>2. Smaller(counter[p].count + 1, OwnLimit) \in Nat
    BY <2>1 DEF Smaller
  <2> QED
    BY <2>1, <2>2 DEF Consumed
<1>5. /\ admitted' \in [Counters -> Totals] /\ \A q \in Counters \ {p} : admitted'[q] = admitted[q]
      /\ admitted'[p] = IF Allows(counter[p], OwnLimit) THEN OneMore(admitted[p]) ELSE admitted[p]
  <2> HIDE DEF p
  <2> QED
    BY <1>1, <1>2, <1>3
<1>6. /\ counter' \in [Processes -> [count : Nat, resetAt : Nat]]
      /\ counter'[p] = Consumed(counter[p], OwnLimit)
      /\ \A q \in Processes \ {p} : counter'[q] = counter[q]
  <2> HIDE DEF p
  <2> QED
    BY <1>0, <1>1, <1>2, <1>4
<1>7. /\ slot' \in [Slots -> [pc : SlotPcs, process : Processes \cup {Free.process}, n : Nat, at : Nat]]
      /\ \A v \in Slots : slot'[v] = IF v = s THEN Free ELSE slot[v]
  BY <1>0, <1>1, FreeTyped DEF LimiterTyped
<1>8. LimiterTyped'
  <2>1. \A v \in Slots : /\ slot'[v].pc # "free" => slot'[v].process \in Processes
                         /\ slot'[v].pc \in {"pexpire", "decide"} => slot'[v].at \in 1..now
    BY <1>0, <1>7, FreeTyped DEF LimiterTyped
  <2>2. LimiterTypeOK'
    BY <1>0, <1>1, <1>6 DEF LimiterTyped, LimiterTypeOK
  <2> QED
    BY <1>0, <1>1, <1>5, <1>7, <2>1, <2>2 DEF LimiterTyped
<1>9. RedisKeeps'
  <2>1. admitted'["redis"] = admitted["redis"]
    BY <1>0, <1>5 DEF Counters
  <2>2. \A v \in Slots : slot'[v] = slot[v] \/ slot'[v].pc \notin {"pexpire", "decide"}
    BY <1>7, FreeTyped
  <2>3. Within(Numbered', Numbered)
    BY <1>0, <1>8, <2>1, <2>2, NumbersGivenBack
  <2>4. Expiring
    BY <1>0, <1>1, KeyStays
  <2> QED
    BY <1>0, <1>1, <1>8, <2>3, <2>4, RedisStays
<1>10. ASSUME NEW q \in Processes PROVE OwnKeeps(q)'
  <2>1. CASE q = p
    <3> HIDE DEF p
    <3> QED
      BY <1>0, <1>1, <1>5, <1>6, <2>1, OwnConsumes
  <2>2. CASE q # p
    <3>1. admitted'[q] = admitted[q] /\ counter'[q] = counter[q]
      BY <1>5, <1>6, <2>2 DEF Counters
    <3> QED
      BY <1>0, <1>1, <3>1, OwnStays
  <2> QED
    BY <2>1, <2>2
<1> QED
  BY <1>8, <1>9, <1>10 DEF LimiterInv

LEMMA RestartKeeps ==
  ASSUME LimiterInv, NEW p \in Processes, Restart(p)
  PROVE  LimiterInv'
<1>0. /\ LimiterTyped /\ RedisKeeps /\ (\A q \in Processes : OwnKeeps(q))
      /\ p # "redis" /\ now \in 1..MaxTime
  BY LimiterConstants DEF LimiterInv, LimiterTyped, LimiterTypeOK
<1>1. /\ UNCHANGED <<now, up, key, sent>>
      /\ slot' = [s \in Slots |-> IF slot[s].process = p THEN Free ELSE slot[s]]
      /\ counter' = [counter EXCEPT ![p] = NoEntry] /\ admitted' = [admitted EXCEPT ![p] = NoneYet]
  BY DEF Restart
<1>2. /\ admitted \in [Counters -> Totals] /\ p \in Counters /\ NoneYet \in Totals
      /\ counter \in [Processes -> [count : Nat, resetAt : Nat]]
      /\ NoEntry \in [count : Nat, resetAt : Nat] /\ NoEntry.count = 0
  BY <1>0, NoneYetTotals DEF LimiterTyped, LimiterTypeOK, Counters, NoEntry
<1>3. /\ admitted' \in [Counters -> Totals] /\ admitted'[p] = NoneYet
      /\ \A q \in Counters \ {p} : admitted'[q] = admitted[q]
      /\ counter' \in [Processes -> [count : Nat, resetAt : Nat]] /\ counter'[p] = NoEntry
      /\ \A q \in Processes \ {p} : counter'[q] = counter[q]
  BY <1>1, <1>2
<1>4. /\ slot' \in [Slots -> [pc : SlotPcs, process : Processes \cup {Free.process}, n : Nat, at : Nat]]
      /\ \A v \in Slots : slot'[v] = Free \/ slot'[v] = slot[v]
  BY <1>0, <1>1, FreeTyped DEF LimiterTyped
<1>5. LimiterTyped'
  <2>1. \A v \in Slots : /\ slot'[v].pc # "free" => slot'[v].process \in Processes
                         /\ slot'[v].pc \in {"pexpire", "decide"} => slot'[v].at \in 1..now
    BY <1>0, <1>4, FreeTyped DEF LimiterTyped
  <2>2. LimiterTypeOK'
    BY <1>0, <1>1, <1>3 DEF LimiterTyped, LimiterTypeOK
  <2> QED
    BY <1>0, <1>1, <1>3, <1>4, <2>1, <2>2 DEF LimiterTyped
<1>6. RedisKeeps'
  <2>1. admitted'["redis"] = admitted["redis"]
    BY <1>0, <1>3 DEF Counters
  <2>2. \A v \in Slots : slot'[v] = slot[v] \/ slot'[v].pc \notin {"pexpire", "decide"}
    BY <1>4, FreeTyped
  <2>3. Within(Numbered', Numbered)
    BY <1>0, <1>5, <2>1, <2>2, NumbersGivenBack
  <2>4. Expiring
    BY <1>0, <1>1, KeyStays
  <2> QED
    BY <1>0, <1>1, <1>5, <2>3, <2>4, RedisStays
<1>7. ASSUME NEW q \in Processes PROVE OwnKeeps(q)'
  <2>1. CASE q = p
    <3>1. Bounded(NoneYet, OwnLimit) /\ NoWindow(NoneYet, OwnLimit, now)
      BY <1>0, NoneYetKeeps, OwnLimits
    <3>2. Bounded(admitted[q], OwnLimit)' /\ NoWindow(admitted[q], OwnLimit, now)'
      BY <1>1, <1>3, <2>1, <3>1 DEF Bounded, NoWindow, OwnLimit
    <3> QED
      BY <1>2, <1>3, <2>1, <3>2 DEF OwnKeeps
  <2>2. CASE q # p
    <3>1. admitted'[q] = admitted[q] /\ counter'[q] = counter[q]
      BY <1>3, <2>2 DEF Counters
    <3> QED
      BY <1>0, <1>1, <3>1, OwnStays
  <2> QED
    BY <2>1, <2>2
<1> QED
  BY <1>5, <1>6, <1>7 DEF LimiterInv

LEMMA TickKeeps ==
  ASSUME LimiterInv, Tick
  PROVE  LimiterInv'
<1>0. /\ LimiterTyped /\ RedisKeeps /\ (\A q \in Processes : OwnKeeps(q))
      /\ now \in 1..MaxTime /\ now < MaxTime /\ now' = now + 1
      /\ UNCHANGED <<up, counter, slot, admitted, sent>>
      /\ key' = IF key.expires = now + 1 THEN NoKey ELSE key
      /\ key \in [count : Nat, expires : Nat] /\ counter \in [Processes -> [count : Nat, resetAt : Nat]]
  BY DEF LimiterInv, LimiterTyped, LimiterTypeOK, Tick
<1>1. LimiterTyped'
  <2>1. now' \in 1..MaxTime /\ key' \in [count : Nat, expires : Nat]
    BY <1>0, LimiterNumbers DEF NoKey
  <2>2. \A v \in Slots : slot[v].pc \in {"pexpire", "decide"} => slot[v].at \in 1..now'
    BY <1>0 DEF LimiterTyped
  <2> QED
    BY <1>0, <2>1, <2>2 DEF LimiterTyped, LimiterTypeOK
<1>2. Numbered' = Numbered
  BY <1>0 DEF Numbered, InFlight
<1>3. RedisKeeps'
  <2> DEFINE f == Numbered
             x == now + 1
  <2>0. f \in Totals /\ Limit \in Nat /\ Limit >= 1 /\ now \in Nat /\ Bounded(f, Limit)
    BY <1>0, NumberedTotals, LimiterNumbers DEF RedisKeeps
  <2>1. /\ NoWindow(f, Limit, now) => NoWindow(f, Limit, x)
        /\ \A c, n : Opened(f, c, n, Limit, now) => Opened(f, c, n, Limit, x)
        /\ \A c, n : Opened(f, c, n, Limit, now) /\ c + Window <= x => NoWindow(f, Limit, x)
    <3> HIDE DEF f
    <3> QED
      BY <1>0, <2>0, TimePasses
  <2>2. /\ Bounded(f, Limit) = Bounded(Numbered, Limit)'
        /\ NoWindow(f, Limit, x) = NoWindow(Numbered, Limit, now)'
        /\ \A c, n : Opened(f, c, n, Limit, x) = Opened(Numbered, c, n, Limit, now)'
    BY <1>0, <1>2 DEF Bounded, NoWindow, Opened
  <2> HIDE DEF f
  <2>3. CASE key.count = 0
    <3>1. key' = key
      BY <1>0, <2>0, <2>3 DEF RedisKeeps, NoKey
    <3> QED
      BY <1>0, <2>0, <2>1, <2>2, <2>3, <3>1 DEF RedisKeeps, f
  <2>4. CASE key.count # 0
    <3>1. PICK c \in 1..now : /\ Opened(f, c, key.count, Limit, now)
                              /\ key.expires # 0 => key.expires >= c + Window /\ key.expires > now
      BY <1>0, <2>4 DEF RedisKeeps, f
    <3>2. CASE key.expires = x
      <4>1. c + Window <= x
        BY <2>0, <3>1, <3>2
      <4>2. NoWindow(f, Limit, x) /\ key'.count = 0 /\ key'.expires = 0
        BY <1>0, <2>1, <3>1, <3>2, <4>1 DEF NoKey
      <4> QED
        BY <2>0, <2>2, <4>2 DEF RedisKeeps
    <3>3. CASE key.expires # x
      <4>1. key' = key /\ c \in 1..now'
        BY <1>0, <2>0, <3>3
      <4>2. Opened(f, c, key'.count, Limit, x)
        BY <2>1, <3>1, <4>1
      <4>3. key'.expires # 0 => key'.expires >= c + Window /\ key'.expires > now'
        BY <1>0, <2>0, <3>1, <3>3, <4>1
      <4> QED
        BY <2>0, <2>2, <2>4, <4>1, <4>2, <4>3 DEF RedisKeeps
    <3> QED
      BY <3>2, <3>3
  <2> QED
    BY <2>3, <2>4
<1>4. ASSUME NEW p \in Processes PROVE OwnKeeps(p)'
  <2> DEFINE f == admitted[p]
             x == now + 1
             e == counter[p]
             L == OwnLimit
  <2>0. f \in Totals /\ L \in Nat /\ L >= 1 /\ now \in Nat /\ e \in [count : Nat, resetAt : Nat]
        /\ Window \in Nat
    BY <1>0, OwnLimits, LimiterNumbers DEF LimiterTyped, Counters
  <2>1. /\ NoWindow(f, L, now) => NoWindow(f, L, x)
        /\ \A c, n : Opened(f, c, n, L, now) => Opened(f, c, n, L, x)
        /\ \A c, n : Opened(f, c, n, L, now) /\ c + Window <= x => NoWindow(f, L, x)
    <3> HIDE DEF f, L
    <3> QED
      BY <1>0, <2>0, TimePasses
  <2>2. /\ Bounded(f, L) = Bounded(admitted[p], OwnLimit)'
        /\ NoWindow(f, L, x) = NoWindow(admitted[p], OwnLimit, now)'
        /\ Opened(f, e.resetAt - Window, e.count, L, x)
             = Opened(admitted[p], counter[p].resetAt - Window, counter[p].count, OwnLimit, now)'
    BY <1>0 DEF Bounded, NoWindow, Opened, OwnLimit
  <2>3. /\ Bounded(f, L) /\ (e.count = 0 \/ e.resetAt <= now => NoWindow(f, L, now))
        /\ e.count # 0 /\ e.resetAt > now => Opened(f, e.resetAt - Window, e.count, L, now)
    BY <1>0 DEF OwnKeeps
  <2>4. e.count = 0 \/ e.resetAt <= x => NoWindow(f, L, x)
    <3> HIDE DEF f, L, e
    <3>1. CASE e.count = 0 \/ e.resetAt <= now
      BY <2>1, <2>3, <3>1
    <3>2. CASE e.count # 0 /\ e.resetAt > now /\ e.resetAt <= x
      <4>1. (e.resetAt - Window) + Window <= x
        BY <2>0, <3>2
      <4> QED
        BY <2>1, <2>3, <3>2, <4>1
    <3> QED
      BY <2>0, <3>1, <3>2
  <2>5. e.count # 0 /\ e.resetAt > x => Opened(f, e.resetAt - Window, e.count, L, x)
    <3> HIDE DEF f, L, e
    <3> SUFFICES ASSUME e.count # 0, e.resetAt > x PROVE Opened(f, e.resetAt - Window, e.count, L, x)
      OBVIOUS
    <3>1. e.resetAt > now
      BY <2>0
    <3> QED
      BY <2>1, <2>3, <3>1
  <2>6. counter'[p] = e /\ now' = x
    BY <1>0
  <2> HIDE DEF f, L, e, x
  <2> QED
    BY <2>2, <2>3, <2>4, <2>5, <2>6 DEF OwnKeeps
<1> QED
  BY <1>1, <1>3, <1>4 DEF LimiterInv

LEMMA LimiterStutters ==
  ASSUME LimiterInv, up' \in BOOLEAN, UNCHANGED <<now, key, counter, slot, admitted, sent>>
  PROVE  LimiterInv'
<1>0. LimiterTyped /\ RedisKeeps /\ (\A q \in Processes : OwnKeeps(q))
  BY DEF LimiterInv
<1>1. LimiterTyped'
  BY <1>0 DEF LimiterTyped, LimiterTypeOK
<1>2. Numbered' = Numbered /\ Expiring
  BY <1>0, KeyStays DEF Numbered, InFlight
<1> QED
  BY <1>0, <1>1, <1>2, RedisStays, OwnStays DEF LimiterInv

LEMMA LimiterSteps == LimiterInv /\ [LimiterNext]_limiterVars => LimiterInv'
<1> SUFFICES ASSUME LimiterInv, [LimiterNext]_limiterVars PROVE LimiterInv'
  OBVIOUS
<1>1. CASE \E s \in Slots, p \in Processes : Ask(s, p)
  BY <1>1, AskKeeps
<1>2. CASE \E s \in Slots : Consume(s)
  BY <1>2, IncrKeeps, PExpireKeeps, DecideKeeps, RefuseKeeps, FallBackKeeps DEF Consume
<1>3. CASE \E p \in Processes : Restart(p)
  BY <1>3, RestartKeeps
<1>4. CASE Toggle
  BY <1>4, LimiterStutters DEF Toggle
<1>5. CASE Tick
  BY <1>5, TickKeeps
<1>6. CASE UNCHANGED limiterVars
  BY <1>6, LimiterStutters DEF limiterVars, LimiterInv, LimiterTyped, LimiterTypeOK
<1> QED
  BY <1>1, <1>2, <1>3, <1>4, <1>5, <1>6 DEF LimiterNext

LEMMA LimiterIsBounded == LimiterInv => WindowBound
<1> SUFFICES ASSUME LimiterInv, NEW who \in Counters, NEW before \in Ticks, NEW last \in Ticks,
                    before <= last, last <= before + Window
             PROVE  admitted[who][last] - admitted[who][before] < 2 * LimitOf(who)
  BY DEF WindowBound, Ticks
<1>0. LimiterTyped /\ admitted[who] \in Totals
  BY DEF LimiterInv, LimiterTyped
<1>1. admitted[who][last] \in Nat /\ admitted[who][before] \in Nat
  BY <1>0 DEF Totals
<1>2. CASE who = "redis"
  <2>1. Numbered[last] - Numbered[before] < 2 * Limit
    BY DEF LimiterInv, RedisKeeps, Bounded
  <2>2. /\ Numbered[last] = admitted["redis"][last] + Cardinality(InFlight(last))
        /\ Numbered[before] = admitted["redis"][before] + Cardinality(InFlight(before))
    BY DEF Numbered
  <2>3. /\ Cardinality(InFlight(last)) \in Nat /\ Cardinality(InFlight(before)) \in Nat
        /\ Cardinality(InFlight(before)) <= Cardinality(InFlight(last))
    BY <1>0, NumberedTotals, CountDifference
  <2> QED
    BY <1>1, <1>2, <2>1, <2>2, <2>3, LimiterNumbers DEF LimitOf
<1>3. CASE who # "redis"
  <2>1. who \in Processes
    BY <1>3 DEF Counters
  <2> QED
    BY <1>3, <2>1 DEF LimiterInv, OwnKeeps, Bounded, LimitOf, OwnLimit
<1> QED
  BY <1>2, <1>3

\* The limiter's clock, counters, requests and totals keep their types (SharedRateLimiterService, rateLimit),
\* for any number of requests and processes and any limits.
THEOREM LimiterTypes == LimiterSpec => []LimiterTypeOK
<1>1. LimiterInv => LimiterTypeOK
  BY DEF LimiterInv, LimiterTyped
<1> QED
  BY <1>1, LimiterStarts, LimiterSteps, PTL DEF LimiterSpec

\* Between any two ticks that one window could span, fewer than twice the limit are let through: by
\* Redis of its counter, and by each process of its own, whatever falls between the calls of one request.
THEOREM BoundedBursts == LimiterSpec => []WindowBound
BY LimiterStarts, LimiterSteps, LimiterIsBounded, PTL DEF LimiterSpec
=============================================================================
