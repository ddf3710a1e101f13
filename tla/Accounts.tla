------------------------------ MODULE Accounts ------------------------------
(***************************************************************************)
(* The server's side of accounts: signing up, signing in with a password or *)
(* with Google, renewing and revoking a session, mailed links that verify   *)
(* an address or reset a password.  Roles have a module of their own.       *)
(* There is no transaction: every query of a handler is an await and one    *)
(* action here, so handlers interleave between any two of their queries.    *)
(***************************************************************************)
EXTENDS Common, Naturals

CONSTANTS
    People,       \* one e-mail address for each
    Googlers,     \* those who also have a Google identity with that address
    Seeded,       \* those the seed has made a row for
    Requests,     \* how many requests the server handles at once
    Links         \* tokens that are mailed: bounds how many are made

ASSUME PeopleType == None \notin People \cup Links
ASSUME SeededType == Seeded \subseteq People
ASSUME GooglersType == Googlers \subseteq People

VARIABLES
    acct,      \* acct[u]: the row of users with the address of u
    link,      \* link[l]: the token l, which only a mail makes known
    sent,      \* those who were sent tokens; expiry would only take choices away
    req,       \* req[q]: the local state of the request handled in slot q
    out,       \* history: who has signed out, or reset
    anew,      \* history: who of these has signed in since
    reopened   \* history: whose session a request begun before that has reopened

avars == <<acct, link, sent, req, out, anew, reopened>>

Ops      == {"none", "register", "login", "google", "refresh", "resend", "verify",
             "forgot", "reset"}
Pcs      == {"idle", "create", "email", "link", "issue", "answer", "token", "mail",
             "mark", "write"}
AcctRows == [born : BOOLEAN, password : BOOLEAN, google : BOOLEAN, verified : BOOLEAN,
             hash : People \cup {None},
             verifyLink : Links \cup {None}, resetLink : Links \cup {None}]
LinkRows == [state : {"unused", "fresh", "expired"}, mailed : BOOLEAN, uses : Nat]
ReqRows  == [pc : Pcs, op : Ops, who : People \cup {None},
             link : Links \cup {None}, early : BOOLEAN]

NoAcct  == [born |-> FALSE, password |-> FALSE, google |-> FALSE, verified |-> FALSE,
            hash |-> None, verifyLink |-> None, resetLink |-> None]
SeedRow == [NoAcct EXCEPT !.born = TRUE, !.password = TRUE]
IdleReq == [pc |-> "idle", op |-> "none", who |-> None,
            link |-> None, early |-> FALSE]

AccountsTypeOK ==
    /\ acct \in [People -> AcctRows]
    /\ link \in [Links -> LinkRows]
    /\ sent \subseteq People
    /\ req \in [Requests -> ReqRows]
    /\ out \subseteq People /\ anew \subseteq People
    /\ reopened \subseteq People

AccountsInit ==
    /\ acct = [u \in People |-> IF u \in Seeded THEN SeedRow ELSE NoAcct]
    /\ link = [l \in Links |-> [state |-> "unused", mailed |-> FALSE, uses |-> 0]]
    /\ sent = {}
    /\ req = [q \in Requests |-> IdleReq]
    /\ out = {} /\ anew = {}
    /\ reopened = {}

\* What bcrypt keeps of a refresh token of u: its first 72 bytes.  They hold the
\* header and the first half of the subject's id, the same in all tokens of u.
Digest(u) == u

Fresh(l)  == link[l].state = "fresh"
Going(op, pc, u) == [IdleReq EXCEPT !.op = op, !.pc = pc, !.who = u]
Opens(r)         == r.pc \in {"create", "email", "link", "issue"}
Moved(q, pc)     == [req EXCEPT ![q] = [@ EXCEPT !.pc = pc]]
Ended(q)         == [req EXCEPT ![q] = IdleReq]

\* The requests of u about to open a session have begun before u signed out.
SignsOut(r, u) ==
    /\ req' = [p \in Requests |->
                 IF r[p].who = u /\ Opens(r[p]) THEN [r[p] EXCEPT !.early = TRUE] ELSE r[p]]
    /\ out' = out \cup {u}
    /\ anew' = anew \ {u}
    /\ reopened' = reopened \ {u}

-----------------------------------------------------------------------------
(* Signing up and signing in.                                              *)

\* No row has the address (409), and the password is hashed.
RegisterRead(q, u) ==
    /\ req[q].pc = "idle"
    /\ ~acct[u].born
    /\ req' = [req EXCEPT ![q] = Going("register", "create", u)]
    /\ UNCHANGED <<acct, link, sent, out, anew, reopened>>

\* The row with the password given is found; any other answer is a 401.
LoginRead(q, u) ==
    /\ req[q].pc = "idle"
    /\ acct[u].born /\ acct[u].password
    /\ req' = [req EXCEPT ![q] = Going("login", "issue", u)]
    /\ UNCHANGED <<acct, link, sent, out, anew, reopened>>

\* findByGoogleId.
GoogleRead(q, u) ==
    /\ req[q].pc = "idle"
    /\ u \in Googlers
    /\ req' = [req EXCEPT ![q] =
                 Going("google", IF acct[u].google THEN "issue" ELSE "email", u)]
    /\ UNCHANGED <<acct, link, sent, out, anew, reopened>>

\* findByEmail: link the identity to the row there is, or make one.
GoogleReadEmail(q) ==
    /\ req[q].pc = "email"
    /\ req' = Moved(q, IF acct[req[q].who].born THEN "link" ELSE "create")
    /\ UNCHANGED <<acct, link, sent, out, anew, reopened>>

GoogleLink(q) ==
    /\ req[q].pc = "link"
    /\ acct' = [acct EXCEPT ![req[q].who] = [@ EXCEPT !.google = TRUE]]
    /\ req' = Moved(q, "issue")
    /\ UNCHANGED <<link, sent, out, anew, reopened>>

\* The new row: a citizen, verified when it comes from Google.
Create(q) ==
    /\ req[q].pc = "create"
    /\ ~acct[req[q].who].born
    /\ acct' = [acct EXCEPT ![req[q].who] =
                  [NoAcct EXCEPT !.born = TRUE, !.password = req[q].op = "register",
                                 !.google = req[q].op = "google",
                                 !.verified = req[q].op = "google"]]
    /\ req' = Moved(q, "issue")
    /\ UNCHANGED <<link, sent, out, anew, reopened>>

\* Another request has made the row since: the unique address refuses it.
CreateLost(q) ==
    /\ req[q].pc = "create"
    /\ acct[req[q].who].born
    /\ req' = Ended(q)
    /\ UNCHANGED <<acct, link, sent, out, anew, reopened>>

-----------------------------------------------------------------------------
(* The session.                                                            *)

\* Mutant: a session that was revoked is renewed.
RefreshReadAny(q, u) ==
    /\ req[q].pc = "idle"
    /\ u \in sent
    /\ req' = [req EXCEPT ![q] = Going("refresh", "issue", u)]
    /\ UNCHANGED <<acct, link, sent, out, anew, reopened>>

\* The stored hash is read and compared with the token.
RefreshRead(q, u) ==
    /\ req[q].pc = "idle"
    /\ u \in sent
    /\ acct[u].hash = Digest(u)
    /\ req' = [req EXCEPT ![q] = Going("refresh", "issue", u)]
    /\ UNCHANGED <<acct, link, sent, out, anew, reopened>>

\* issueTokens: the hash of the new refresh token replaces whatever is stored.
Issue(q) ==
    LET u == req[q].who IN
    /\ req[q].pc = "issue"
    /\ acct' = [acct EXCEPT ![u] = [@ EXCEPT !.hash = Digest(u)]]
    /\ req' = [req EXCEPT ![q] = [@ EXCEPT !.pc = "answer", !.early = FALSE]]
    /\ anew' = IF req[q].early \/ req[q].op = "refresh" THEN anew ELSE anew \cup ({u} \cap out)
    /\ reopened' = IF req[q].early THEN reopened \cup {u} ELSE reopened
    /\ UNCHANGED <<link, sent, out>>

\* The audit row, if any, and the answer with the tokens.  After a registration the
\* mail is sent in the background.
Answer(q) ==
    /\ req[q].pc = "answer"
    /\ sent' = sent \cup {req[q].who}
    /\ req' = IF req[q].op = "register" THEN Moved(q, "token") ELSE Ended(q)
    /\ UNCHANGED <<acct, link, out, anew, reopened>>

\* One UPDATE, for the holder of an access token.
Logout(q, u) ==
    /\ req[q].pc = "idle"
    /\ u \in sent
    /\ acct' = [acct EXCEPT ![u] = [@ EXCEPT !.hash = None]]
    /\ SignsOut(req, u)
    /\ UNCHANGED <<link, sent>>

-----------------------------------------------------------------------------
(* Mailed links.                                                           *)

\* Asked for in the menu of somebody signed in; nothing happens when verified.
ResendRead(q, u) ==
    /\ req[q].pc = "idle"
    /\ u \in sent
    /\ ~acct[u].verified
    /\ req' = [req EXCEPT ![q] = Going("resend", "token", u)]
    /\ UNCHANGED <<acct, link, sent, out, anew, reopened>>

\* Whether or not the address is known the answer is the same.
ForgotRead(q, u) ==
    /\ req[q].pc = "idle"
    /\ acct[u].born
    /\ req' = [req EXCEPT ![q] = Going("forgot", "token", u)]
    /\ UNCHANGED <<acct, link, sent, out, anew, reopened>>

\* A new token replaces the one the row had.
SetLink(q) ==
    LET u == req[q].who IN
    /\ req[q].pc = "token"
    /\ \E l \in Links :
         /\ link[l].state = "unused"
         /\ link' = [link EXCEPT ![l] = [@ EXCEPT !.state = "fresh"]]
         /\ acct' = [acct EXCEPT ![u] = IF req[q].op = "forgot"
                                          THEN [@ EXCEPT !.resetLink = l]
                                          ELSE [@ EXCEPT !.verifyLink = l]]
         /\ req' = [req EXCEPT ![q] = [@ EXCEPT !.pc = "mail", !.link = l]]
    /\ UNCHANGED <<sent, out, anew, reopened>>

\* No token is left in the model (the bound on Links).
NoLink(q) ==
    /\ req[q].pc = "token"
    /\ \A l \in Links : link[l].state # "unused"
    /\ req' = Ended(q)
    /\ UNCHANGED <<acct, link, sent, out, anew, reopened>>

\* A mail that cannot be sent is logged, and the handler goes on.
Mail(q) ==
    /\ req[q].pc = "mail"
    /\ \E done \in {TRUE, ~Faults} :
         link' = [link EXCEPT ![req[q].link] = [@ EXCEPT !.mailed = done]]
    /\ req' = Ended(q)
    /\ UNCHANGED <<acct, sent, out, anew, reopened>>

\* A valid token of a row: 24 hours for verification.
VerifyRead(q, l) ==
    /\ req[q].pc = "idle"
    /\ link[l].mailed /\ Fresh(l)
    /\ \E u \in People :
         /\ acct[u].verifyLink = l
         /\ req' = [req EXCEPT ![q] = Going("verify", "mark", u)]
    /\ UNCHANGED <<acct, link, sent, out, anew, reopened>>

MarkVerified(q) ==
    /\ req[q].pc = "mark"
    /\ acct' = [acct EXCEPT ![req[q].who] =
                  [@ EXCEPT !.verified = TRUE, !.verifyLink = None]]
    /\ req' = Ended(q)
    /\ UNCHANGED <<link, sent, out, anew, reopened>>

\* A valid token of a row: one hour for a reset.  Then the password is hashed.
ResetRead(q, l) ==
    /\ req[q].pc = "idle"
    /\ link[l].mailed /\ Fresh(l)
    /\ \E u \in People :
         /\ acct[u].resetLink = l
         /\ req' = [req EXCEPT ![q] = [Going("reset", "write", u) EXCEPT !.link = l]]
    /\ UNCHANGED <<acct, link, sent, out, anew, reopened>>

\* Mutant: the token stays in the row.
ResetWriteKeeps(q) ==
    LET u == req[q].who IN
    /\ req[q].pc = "write"
    /\ acct' = [acct EXCEPT ![u] = [@ EXCEPT !.password = TRUE, !.hash = None]]
    /\ link' = [link EXCEPT ![req[q].link].uses = @ + 1]
    /\ SignsOut(Ended(q), u)
    /\ UNCHANGED <<sent>>

\* The new password; the token is used up and the refresh token revoked.
ResetWrite(q) ==
    LET u == req[q].who IN
    /\ req[q].pc = "write"
    /\ acct' = [acct EXCEPT ![u] = [@ EXCEPT !.password = TRUE, !.resetLink = None,
                                             !.hash = None]]
    /\ link' = [link EXCEPT ![req[q].link].uses = @ + 1]
    /\ SignsOut(Ended(q), u)
    /\ UNCHANGED <<sent>>

LinkExpires(l) ==
    /\ Fresh(l)
    /\ link' = [link EXCEPT ![l] = [@ EXCEPT !.state = "expired"]]
    /\ UNCHANGED <<acct, sent, req, out, anew, reopened>>

\* A query throws, the audit row cannot be written, or the process dies: what was
\* committed stays and the caller gets no tokens.
FailRequest(q) ==
    /\ Faults
    /\ req[q].pc # "idle"
    /\ req' = Ended(q)
    /\ UNCHANGED <<acct, link, sent, out, anew, reopened>>

-----------------------------------------------------------------------------
SessionStep(q) ==
    \/ \E u \in People : RegisterRead(q, u) \/ LoginRead(q, u) \/ GoogleRead(q, u)
                         \/ RefreshRead(q, u) \/ Logout(q, u)
    \/ GoogleReadEmail(q) \/ GoogleLink(q) \/ Create(q) \/ CreateLost(q)
    \/ Issue(q) \/ Answer(q)

LinkStep(q) ==
    \/ \E u \in People : ResendRead(q, u) \/ ForgotRead(q, u)
    \/ SetLink(q) \/ NoLink(q) \/ Mail(q)
    \/ \E l \in Links : VerifyRead(q, l) \/ ResetRead(q, l)
    \/ MarkVerified(q) \/ ResetWrite(q)

AccountsNext ==
    \/ \E q \in Requests : SessionStep(q) \/ LinkStep(q) \/ FailRequest(q)
    \/ \E l \in Links : LinkExpires(l)

AccountsSpec == AccountsInit /\ [][AccountsNext]_avars

-----------------------------------------------------------------------------
(* Safety.                                                                 *)

\* A sign-out or a password reset closes a user's session, and it stays closed until
\* the user signs in anew, unless a request that had begun before it opens it again
\* (auth.service.ts 131-144).  Not for good, as users.service.ts 105-107 says of a
\* reset: once the user has signed in anew the tokens of the ended session work again
\* as well, being equal to the new ones in the 72 bytes that bcrypt compares (255-256).
SignedOutStaysOut ==
    \A u \in out : acct[u].hash # None => u \in anew \cup reopened

\* A link that has changed a password is never accepted again, whatever requests
\* overlap and whatever other links were mailed before or since.
UsedLinkRefused ==
    [][\A q \in Requests : req[q].pc = "idle" /\ req'[q].pc = "write"
          => link[req'[q].link].uses = 0]_avars
=============================================================================
