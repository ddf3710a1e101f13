--------------------------- MODULE AccountsProofs ---------------------------
(***************************************************************************)
(* Proofs about accounts, for any number of people, of requests handled at  *)
(* once and of mailed links, with and without failures; and about the guard *)
(* in front of them, for any number of callers, any limit and any length of *)
(* the window, with the process dying at any moment.                        *)
(***************************************************************************)
EXTENDS Accounts, RateLimit, FiniteSetTheorems, TLAPS

-----------------------------------------------------------------------------
(* The invariant.                                                          *)

\* A renewal of u that has been accepted, and that no sign-out has come after.
Renewal(r, u) == Opens(r) /\ ~r.early /\ r.op = "refresh" /\ r.who = u

\* Who is out has a session, or is about to get one by a renewal, only after signing in
\* anew or when reopened.
OutUntilReopened ==
    \A u \in out :
        /\ acct[u].hash # None => u \in anew \cup reopened
        /\ \A q \in Requests : Renewal(req[q], u) => u \in anew \cup reopened

\* A link that has not been made has not been used; the one a row holds has been made,
\* has not been used and is of no other row; a request about to change a password with a
\* link is of the only row that may hold it.
LinksOnce ==
    /\ \A l \in Links : link[l].state = "unused" => link[l].uses = 0
    /\ \A u \in People : acct[u].resetLink \in Links =>
         /\ link[acct[u].resetLink].state # "unused"
         /\ link[acct[u].resetLink].uses = 0
         /\ \A v \in People : acct[v].resetLink = acct[u].resetLink => v = u
    /\ \A q \in Requests : req[q].pc = "write" =>
         /\ req[q].link \in Links /\ link[req[q].link].state # "unused"
         /\ \A v \in People : acct[v].resetLink = req[q].link => v = req[q].who

\* A request that is under way is somebody's.
NamedRows == {r \in ReqRows : r.pc # "idle" => r.who \in People}

AccTyped == /\ acct \in [People -> AcctRows] /\ link \in [Links -> LinkRows]
            /\ sent \subseteq People /\ out \subseteq People
            /\ anew \subseteq People /\ reopened \subseteq People
            /\ req \in [Requests -> NamedRows]

AccInv   == AccTyped /\ OutUntilReopened /\ LinksOnce

-----------------------------------------------------------------------------
(* Types.                                                                  *)

LEMMA ReqsTyped ==
    /\ IdleReq \in NamedRows
    /\ \A op \in Ops, pc \in Pcs, u \in People : Going(op, pc, u) \in NamedRows
    /\ \A r \in NamedRows, pc \in Pcs : r.pc # "idle" => [r EXCEPT !.pc = pc] \in NamedRows
    /\ \A r \in NamedRows : [r EXCEPT !.early = TRUE] \in NamedRows
    /\ \A r \in NamedRows : r \in ReqRows /\ (r.pc # "idle" => r.who \in People)
  BY DEF IdleReq, Going, ReqRows, NamedRows, Ops, Pcs

LEMMA RowsTyped ==
    /\ NoAcct \in AcctRows /\ SeedRow \in AcctRows
    /\ \A a \in AcctRows :
         /\ [a EXCEPT !.google = TRUE] \in AcctRows
         /\ [a EXCEPT !.hash = None] \in AcctRows
         /\ \A u \in People : [a EXCEPT !.hash = u] \in AcctRows
         /\ [a EXCEPT !.verified = TRUE, !.verifyLink = None] \in AcctRows
         /\ [a EXCEPT !.password = TRUE, !.resetLink = None, !.hash = None] \in AcctRows
         /\ \A l \in Links : /\ [a EXCEPT !.resetLink = l] \in AcctRows
                             /\ [a EXCEPT !.verifyLink = l] \in AcctRows
    /\ \A x, y, z \in BOOLEAN :
         [NoAcct EXCEPT !.born = TRUE, !.password = x, !.google = y, !.verified = z] \in AcctRows
  BY DEF NoAcct, SeedRow, AcctRows

LEMMA LinkRowsTyped ==
    /\ [state |-> "unused", mailed |-> FALSE, uses |-> 0] \in LinkRows
    /\ \A r \in LinkRows :
         /\ \A s \in {"fresh", "expired"} : [r EXCEPT !.state = s] \in LinkRows
         /\ \A m \in BOOLEAN : [r EXCEPT !.mailed = m] \in LinkRows
  BY DEF LinkRows

LEMMA SignsOutTyped ==
    ASSUME AccTyped, NEW r \in [Requests -> NamedRows], NEW u \in People, SignsOut(r, u)
    PROVE  /\ req' \in [Requests -> NamedRows]
           /\ out' \subseteq People /\ anew' \subseteq People /\ reopened' \subseteq People
  BY ReqsTyped DEF SignsOut, AccTyped

LEMMA AccountsInitInv == AccountsInit => AccInv
  <1> SUFFICES ASSUME AccountsInit PROVE AccInv
    OBVIOUS
  <1>1. AccTyped
    BY RowsTyped, LinkRowsTyped, ReqsTyped DEF AccountsInit, AccTyped
  <1>2. OutUntilReopened
    BY DEF AccountsInit, OutUntilReopened
  <1>3. \A u \in People : acct[u].resetLink = None
    BY DEF AccountsInit, NoAcct, SeedRow
  <1>4. LinksOnce
    BY <1>3, PeopleType DEF AccountsInit, LinksOnce, IdleReq
  <1> QED BY <1>1, <1>2, <1>4 DEF AccInv

LEMMA AccountsTypedStep == AccTyped /\ [AccountsNext]_avars => AccTyped'
  <1> SUFFICES ASSUME AccTyped, [AccountsNext]_avars PROVE AccTyped'
    OBVIOUS
  <1>1. ASSUME NEW q \in Requests, NEW u \in People,
               \/ RegisterRead(q, u) \/ LoginRead(q, u) \/ GoogleRead(q, u) \/ RefreshRead(q, u)
               \/ ResendRead(q, u) \/ ForgotRead(q, u)
        PROVE  AccTyped'
    <2>1. /\ UNCHANGED <<acct, link, sent, out, anew, reopened>>
          /\ \E op \in Ops, pc \in Pcs : req' = [req EXCEPT ![q] = Going(op, pc, u)]
      BY <1>1 DEF RegisterRead, LoginRead, GoogleRead, RefreshRead, ResendRead, ForgotRead, Ops, Pcs
    <2> QED BY <2>1, ReqsTyped DEF AccTyped
  <1>2. ASSUME NEW q \in Requests, NEW u \in People, Logout(q, u) PROVE AccTyped'
    <2>1. acct' \in [People -> AcctRows]
      BY <1>2, RowsTyped DEF Logout, AccTyped
    <2> QED BY <1>2, <2>1, SignsOutTyped DEF Logout, AccTyped
  \* Nothing but the request changes.
  <1>3. ASSUME NEW q \in Requests,
               GoogleReadEmail(q) \/ CreateLost(q) \/ NoLink(q) \/ FailRequest(q)
        PROVE  AccTyped'
    <2>1. /\ UNCHANGED <<acct, link, sent, out, anew, reopened>> /\ req[q].pc # "idle"
          /\ req' = Ended(q) \/ \E pc \in Pcs : req' = Moved(q, pc)
      BY <1>3 DEF GoogleReadEmail, CreateLost, NoLink, FailRequest, Pcs
    <2> QED BY <2>1, ReqsTyped DEF Ended, Moved, AccTyped
  <1>4. ASSUME NEW q \in Requests, GoogleLink(q) \/ Create(q) \/ MarkVerified(q) PROVE AccTyped'
    <2>1. acct' \in [People -> AcctRows]
      <3>1. CASE GoogleLink(q)
        BY <3>1, RowsTyped DEF GoogleLink, AccTyped
      <3>2. CASE Create(q)
        <4> DEFINE p == req[q].op = "register"
                   g == req[q].op = "google"
                   a == [NoAcct EXCEPT !.born = TRUE, !.password = p, !.google = g, !.verified = g]
        <4>1. p \in BOOLEAN /\ g \in BOOLEAN
          OBVIOUS
        <4>2. a \in AcctRows
          BY <4>1, RowsTyped, Zenon
        <4>3. acct' = [acct EXCEPT ![req[q].who] = a]
          BY <3>2 DEF Create
        <4> HIDE DEF a
        <4> QED BY <4>2, <4>3 DEF AccTyped
      <3>3. CASE MarkVerified(q)
        BY <3>3, RowsTyped DEF MarkVerified, AccTyped
      <3> QED BY <1>4, <3>1, <3>2, <3>3
    <2>2. /\ UNCHANGED <<link, sent, out, anew, reopened>> /\ req[q].pc # "idle"
          /\ req' = Ended(q) \/ \E pc \in Pcs : req' = Moved(q, pc)
      BY <1>4 DEF GoogleLink, Create, MarkVerified, Pcs
    <2> QED BY <2>1, <2>2, ReqsTyped DEF Ended, Moved, AccTyped
  <1>5. ASSUME NEW q \in Requests, Issue(q) PROVE AccTyped'
    <2>1. req[q] \in NamedRows /\ req[q].who \in People
      BY <1>5, ReqsTyped DEF AccTyped, Issue
    <2>2. [req[q] EXCEPT !.pc = "answer", !.early = FALSE] \in NamedRows
      BY <2>1 DEF NamedRows, ReqRows, Pcs
    <2>3. req' \in [Requests -> NamedRows]
      BY <1>5, <2>2 DEF Issue, AccTyped
    <2>4. acct' \in [People -> AcctRows]
      BY <1>5, <2>1, RowsTyped DEF Issue, AccTyped, Digest
    <2>5. anew' \subseteq People /\ reopened' \subseteq People /\ UNCHANGED <<link, sent, out>>
      BY <1>5, <2>1 DEF Issue, AccTyped
    <2> QED BY <2>3, <2>4, <2>5 DEF AccTyped
  <1>6. ASSUME NEW q \in Requests, Answer(q) PROVE AccTyped'
    <2>1. req[q].who \in People /\ req[q].pc # "idle"
      BY <1>6, ReqsTyped DEF AccTyped, Answer
    <2>2. req' = Ended(q) \/ \E pc \in Pcs : req' = Moved(q, pc)
      BY <1>6 DEF Answer, Pcs
    <2> QED BY <1>6, <2>1, <2>2, ReqsTyped DEF Ended, Moved, Answer, AccTyped
  <1>7. ASSUME NEW q \in Requests, SetLink(q) PROVE AccTyped'
    <2>1. PICK l \in Links :
            /\ link' = [link EXCEPT ![l] = [@ EXCEPT !.state = "fresh"]]
            /\ acct' = [acct EXCEPT ![req[q].who] = IF req[q].op = "forgot"
                                                    THEN [@ EXCEPT !.resetLink = l]
                                                    ELSE [@ EXCEPT !.verifyLink = l]]
            /\ req' = [req EXCEPT ![q] = [@ EXCEPT !.pc = "mail", !.link = l]]
      BY <1>7 DEF SetLink
    <2>2. req[q] \in NamedRows /\ req[q].pc # "idle"
      BY <1>7 DEF AccTyped, SetLink
    <2>3. [req[q] EXCEPT !.pc = "mail", !.link = l] \in NamedRows
      BY <2>2 DEF NamedRows, ReqRows, Pcs
    <2>4. acct' \in [People -> AcctRows]
      BY <2>1, RowsTyped DEF AccTyped
    <2>5. link' \in [Links -> LinkRows]
      BY <2>1, LinkRowsTyped DEF AccTyped
    <2> QED BY <1>7, <2>1, <2>3, <2>4, <2>5 DEF SetLink, AccTyped
  <1>8. ASSUME NEW q \in Requests, Mail(q) PROVE AccTyped'
    <2>1. PICK m \in BOOLEAN : link' = [link EXCEPT ![req[q].link] = [@ EXCEPT !.mailed = m]]
      BY <1>8, FaultsType DEF Mail
    <2>2. link' \in [Links -> LinkRows]
      BY <2>1, LinkRowsTyped DEF AccTyped
    <2> QED BY <1>8, <2>2, ReqsTyped DEF Mail, Ended, AccTyped
  <1>9. ASSUME NEW q \in Requests, NEW l \in Links, VerifyRead(q, l) \/ ResetRead(q, l)
        PROVE  AccTyped'
    <2>1. /\ UNCHANGED <<acct, link, sent, out, anew, reopened>>
          /\ \E u \in People : \E r \in {Going("verify", "mark", u), [Going("reset", "write", u) EXCEPT !.link = l]} :
               req' = [req EXCEPT ![q] = r]
      BY <1>9 DEF VerifyRead, ResetRead
    <2>2. \A u \in People : /\ Going("verify", "mark", u) \in NamedRows
                            /\ [Going("reset", "write", u) EXCEPT !.link = l] \in NamedRows
      BY DEF Going, IdleReq, NamedRows, ReqRows, Ops, Pcs
    <2> QED BY <2>1, <2>2 DEF AccTyped
  <1>10. ASSUME NEW q \in Requests, ResetWrite(q) PROVE AccTyped'
    <2>1. req[q].who \in People
      BY <1>10, ReqsTyped DEF AccTyped, ResetWrite
    <2>2. Ended(q) \in [Requests -> NamedRows]
      BY ReqsTyped DEF AccTyped, Ended
    <2>3. acct' \in [People -> AcctRows]
      BY <1>10, RowsTyped DEF ResetWrite, AccTyped
    <2>4. link' \in [Links -> LinkRows]
      <3> DEFINE x == req[q].link
      <3>1. ASSUME NEW r \in LinkRows PROVE [r EXCEPT !.uses = r.uses + 1] \in LinkRows
        BY DEF LinkRows
      <3>2. link' = [link EXCEPT ![x] = [link[x] EXCEPT !.uses = link[x].uses + 1]]
        BY <1>10 DEF ResetWrite
      <3> QED BY <3>1, <3>2 DEF AccTyped
    <2> QED BY <1>10, <2>1, <2>2, <2>3, <2>4, SignsOutTyped DEF ResetWrite, AccTyped
  <1>11. ASSUME NEW l \in Links, LinkExpires(l) PROVE AccTyped'
    BY <1>11, LinkRowsTyped DEF LinkExpires, AccTyped
  <1>12. CASE UNCHANGED avars
    BY <1>12 DEF avars, AccTyped
  <1> QED BY <1>1, <1>2, <1>3, <1>4, <1>5, <1>6, <1>7, <1>8, <1>9, <1>10, <1>11, <1>12
          DEF AccountsNext, SessionStep, LinkStep

-----------------------------------------------------------------------------
(* Who has signed out.                                                     *)

\* A step that neither stores a hash nor starts a renewal keeps what is known of all
\* who are out.
LEMMA OutStays ==
    ASSUME OutUntilReopened, UNCHANGED <<out, anew, reopened>>,
           \A u \in out : acct'[u].hash \in {acct[u].hash, None},
           \A q \in Requests : \A u \in out : Renewal(req'[q], u) => Renewal(req[q], u)
    PROVE  OutUntilReopened'
  BY DEF OutUntilReopened

\* When u signs out it has no hash, and nothing under way opens a session of u unmarked.
LEMMA OutAfterSigningOut ==
    ASSUME AccTyped, OutUntilReopened, NEW u \in People,
           NEW r \in [Requests -> NamedRows], SignsOut(r, u), acct'[u].hash = None,
           \A v \in People : v # u => acct'[v].hash = acct[v].hash,
           \A q \in Requests : \A v \in People : Renewal(r[q], v) => Renewal(req[q], v)
    PROVE  OutUntilReopened'
  <1> SUFFICES ASSUME NEW v \in out'
               PROVE  /\ acct'[v].hash # None => v \in (anew \cup reopened)'
                      /\ \A q \in Requests : Renewal(req'[q], v) => v \in (anew \cup reopened)'
    BY DEF OutUntilReopened
  <1>1. v \in People /\ (v = u \/ v \in out)
    BY DEF SignsOut, AccTyped
  <1>2. CASE v = u
    <2>1. ASSUME NEW q \in Requests, Renewal(req'[q], u) PROVE FALSE
      <3>1. CASE r[q].who = u /\ Opens(r[q])
        <4>1. req'[q] = [r[q] EXCEPT !.early = TRUE] /\ r[q] \in ReqRows
          BY <3>1, ReqsTyped DEF SignsOut
        <4> QED BY <2>1, <4>1 DEF Renewal, ReqRows
      <3>2. CASE ~(r[q].who = u /\ Opens(r[q]))
        BY <2>1, <3>2 DEF SignsOut, Renewal, Opens
      <3> QED BY <3>1, <3>2
    <2> QED BY <1>2, <2>1
  <1>3. CASE v # u
    <2>1. v \in out /\ (v \in anew \cup reopened => v \in (anew \cup reopened)')
      BY <1>1, <1>3 DEF SignsOut
    <2>2. ASSUME NEW q \in Requests, Renewal(req'[q], v) PROVE Renewal(req[q], v)
      <3>1. CASE r[q].who = u /\ Opens(r[q])
        <4>1. req'[q] = [r[q] EXCEPT !.early = TRUE] /\ r[q] \in ReqRows
          BY <3>1, ReqsTyped DEF SignsOut
        <4> QED BY <2>2, <4>1 DEF Renewal, ReqRows
      <3>2. CASE ~(r[q].who = u /\ Opens(r[q]))
        BY <1>1, <2>2, <3>2 DEF SignsOut
      <3> QED BY <3>1, <3>2
    <2> QED BY <1>1, <1>3, <2>1, <2>2 DEF OutUntilReopened
  <1> QED BY <1>2, <1>3

LEMMA OutStep == AccTyped /\ OutUntilReopened /\ [AccountsNext]_avars => OutUntilReopened'
  <1> SUFFICES ASSUME AccTyped, OutUntilReopened, [AccountsNext]_avars PROVE OutUntilReopened'
    OBVIOUS
  <1>0. /\ \A q \in Requests : req[q] \in ReqRows
        /\ \A q \in Requests : req[q].pc # "idle" => req[q].who \in People
        /\ \A u \in out : u \in People
    BY ReqsTyped DEF AccTyped
  <1>1. ASSUME NEW q \in Requests, NEW u \in People,
               \/ RegisterRead(q, u) \/ LoginRead(q, u) \/ GoogleRead(q, u)
               \/ ResendRead(q, u) \/ ForgotRead(q, u)
        PROVE  OutUntilReopened'
    <2>1. /\ UNCHANGED <<acct, out, anew, reopened>>
          /\ \E op \in Ops \ {"refresh"}, pc \in Pcs : req' = [req EXCEPT ![q] = Going(op, pc, u)]
      BY <1>1 DEF RegisterRead, LoginRead, GoogleRead, ResendRead, ForgotRead, Ops, Pcs
    <2>2. \A op \in Ops, pc \in Pcs : Going(op, pc, u).op = op
      BY DEF Going, IdleReq
    <2> QED BY <2>1, <2>2, OutStays DEF Renewal, AccTyped
  \* A renewal is accepted only of somebody who has a hash.
  <1>2. ASSUME NEW q \in Requests, NEW u \in People, RefreshRead(q, u) PROVE OutUntilReopened'
    <2>1. /\ UNCHANGED <<acct, out, anew, reopened>> /\ acct[u].hash # None
          /\ req' = [req EXCEPT ![q] = Going("refresh", "issue", u)]
      BY <1>2, PeopleType DEF RefreshRead, Digest
    <2>2. Going("refresh", "issue", u).who = u
      BY DEF Going, IdleReq
    <2>3. \A p \in Requests : \A v \in out : Renewal(req'[p], v) => Renewal(req[p], v) \/ v = u
      BY <2>1, <2>2 DEF Renewal, AccTyped
    <2> QED BY <2>1, <2>3 DEF OutUntilReopened
  <1>3. ASSUME NEW q \in Requests, NEW u \in People, Logout(q, u) PROVE OutUntilReopened'
    <2>1. acct'[u].hash = None /\ \A v \in People : v # u => acct'[v] = acct[v]
      BY <1>3 DEF Logout, AccTyped, AcctRows
    <2>2. SignsOut(req, u) /\ req \in [Requests -> NamedRows]
      BY <1>3 DEF Logout, AccTyped
    <2> QED BY <2>1, <2>2, OutAfterSigningOut
  <1>4. ASSUME NEW q \in Requests, ResetWrite(q) PROVE OutUntilReopened'
    <2> DEFINE u == req[q].who
    <2>1. u \in People /\ SignsOut(Ended(q), u)
      BY <1>0, <1>4 DEF ResetWrite
    <2>2. acct'[u].hash = None /\ \A v \in People : v # u => acct'[v] = acct[v]
      BY <1>4, <2>1 DEF ResetWrite, AccTyped, AcctRows
    <2>3. Ended(q) \in [Requests -> NamedRows]
      BY ReqsTyped DEF AccTyped, Ended
    <2>4. \A p \in Requests : \A v \in People : Renewal(Ended(q)[p], v) => Renewal(req[p], v)
      BY DEF Ended, Renewal, Opens, IdleReq, AccTyped
    <2> HIDE DEF u
    <2> QED BY <2>1, <2>2, <2>3, <2>4, OutAfterSigningOut
  <1>5. ASSUME NEW q \in Requests, Issue(q) PROVE OutUntilReopened'
    <2> DEFINE u == req[q].who
    <2>1. u \in People
      BY <1>0, <1>5 DEF Issue
    <2>2. /\ \A v \in People : v # u => acct'[v] = acct[v]
          /\ \A p \in Requests : \A v \in People : Renewal(req'[p], v) => Renewal(req[p], v)
      <3>1. req'[q].pc = "answer"
        BY <1>0, <1>5 DEF Issue, AccTyped, ReqRows
      <3>2. \A p \in Requests : p # q => req'[p] = req[p]
        BY <1>5 DEF Issue, AccTyped
      <3>3. \A v \in People : v # u => acct'[v] = acct[v]
        BY <1>5 DEF Issue, AccTyped
      <3> QED BY <3>1, <3>2, <3>3 DEF Renewal, Opens
    \* Whoever opens a session here signs in, was marked or had a renewal accepted.
    <2>3. u \in out => u \in (anew \cup reopened)'
      <3>1. req[q].early => u \in reopened'
        BY <1>5 DEF Issue
      <3>2. ~req[q].early /\ req[q].op = "refresh" => Renewal(req[q], u)
        BY <1>5 DEF Issue, Renewal, Opens
      <3>3. ~req[q].early => reopened' = reopened
        BY <1>5 DEF Issue
      <3>4. ~req[q].early /\ req[q].op # "refresh" => anew' = anew \cup ({u} \cap out)
        BY <1>5 DEF Issue
      <3>5. ~req[q].early /\ req[q].op = "refresh" => anew' = anew
        BY <1>5 DEF Issue
      <3> QED BY <3>1, <3>2, <3>3, <3>4, <3>5 DEF OutUntilReopened
    <2>4. out' = out /\ anew \cup reopened \subseteq (anew \cup reopened)'
      BY <1>5 DEF Issue
    <2> HIDE DEF u
    <2> QED BY <1>0, <2>2, <2>3, <2>4 DEF OutUntilReopened
  \* The rest moves one request on, or ends it, and stores no hash.
  <1>6. ASSUME NEW q \in Requests,
               \/ GoogleReadEmail(q) \/ GoogleLink(q) \/ Create(q) \/ CreateLost(q) \/ Answer(q)
               \/ SetLink(q) \/ NoLink(q) \/ Mail(q) \/ MarkVerified(q) \/ FailRequest(q)
        PROVE  OutUntilReopened'
    <2>1. UNCHANGED <<out, anew, reopened>>
      BY <1>6 DEF GoogleReadEmail, GoogleLink, Create, CreateLost, Answer, SetLink, NoLink, Mail,
                  MarkVerified, FailRequest
    <2>2. \A p \in Requests : p # q => req'[p] = req[p]
      <3>1. \E r : req' = [req EXCEPT ![q] = r]
        BY <1>6 DEF GoogleReadEmail, GoogleLink, Create, CreateLost, Answer, SetLink, NoLink, Mail,
                    MarkVerified, FailRequest, Ended, Moved
      <3> QED BY <3>1 DEF AccTyped
    <2>3. \A v \in People : Renewal(req'[q], v) => Renewal(req[q], v)
      <3>1. CASE GoogleReadEmail(q) \/ GoogleLink(q) \/ Create(q)
        BY <1>0, <3>1 DEF GoogleReadEmail, GoogleLink, Create, Moved, Renewal, Opens, AccTyped, ReqRows
      <3>2. CASE CreateLost(q) \/ NoLink(q) \/ Mail(q) \/ MarkVerified(q) \/ FailRequest(q)
        BY <3>2 DEF CreateLost, NoLink, Mail, MarkVerified, FailRequest, Ended, Renewal, Opens,
                    IdleReq, AccTyped
      <3>3. CASE Answer(q) \/ SetLink(q)
        <4>1. req'[q].pc \in {"idle", "token", "mail"}
          <5>1. CASE Answer(q)
            BY <1>0, <5>1 DEF Answer, Ended, Moved, IdleReq, AccTyped, ReqRows
          <5>2. CASE SetLink(q)
            BY <1>0, <5>2 DEF SetLink, AccTyped, ReqRows
          <5> QED BY <3>3, <5>1, <5>2
        <4> QED BY <4>1 DEF Renewal, Opens
      <3> QED BY <1>6, <3>1, <3>2, <3>3
    <2>4. \A v \in People : acct'[v].hash \in {acct[v].hash, None}
      <3>1. CASE GoogleLink(q)
        BY <3>1 DEF GoogleLink, AccTyped, AcctRows
      <3>2. CASE Create(q)
        BY <3>2 DEF Create, AccTyped, AcctRows, NoAcct
      <3>3. CASE SetLink(q)
        BY <3>3 DEF SetLink, AccTyped, AcctRows
      <3>4. CASE MarkVerified(q)
        BY <3>4 DEF MarkVerified, AccTyped, AcctRows
      <3>5. CASE GoogleReadEmail(q) \/ CreateLost(q) \/ Answer(q) \/ NoLink(q) \/ Mail(q) \/ FailRequest(q)
        BY <3>5 DEF GoogleReadEmail, CreateLost, Answer, NoLink, Mail, FailRequest
      <3> QED BY <1>6, <3>1, <3>2, <3>3, <3>4, <3>5
    <2> QED BY <1>0, <2>1, <2>2, <2>3, <2>4, OutStays
  <1>7. ASSUME NEW q \in Requests, NEW l \in Links, VerifyRead(q, l) \/ ResetRead(q, l)
        PROVE  OutUntilReopened'
    <2>1. /\ UNCHANGED <<acct, out, anew, reopened>>
          /\ \E r : req' = [req EXCEPT ![q] = r] /\ r.pc \in {"mark", "write"}
      BY <1>7 DEF VerifyRead, ResetRead, Going, IdleReq
    <2> QED BY <2>1, OutStays DEF Renewal, Opens, AccTyped
  <1>8. (\E l \in Links : LinkExpires(l)) \/ UNCHANGED avars => UNCHANGED <<acct, req, out, anew, reopened>>
    BY DEF LinkExpires, avars
  <1>9. UNCHANGED <<acct, req, out, anew, reopened>> => OutUntilReopened'
    BY DEF OutUntilReopened
  <1> QED BY <1>1, <1>2, <1>3, <1>4, <1>5, <1>6, <1>7, <1>8, <1>9
          DEF AccountsNext, SessionStep, LinkStep

-----------------------------------------------------------------------------
(* Links.                                                                  *)

\* A step that gives no row a link, makes and uses no link, and lets nobody pass with one.
LEMMA LinksStay ==
    ASSUME LinksOnce,
           \A u \in People : acct'[u].resetLink \in {acct[u].resetLink, None},
           \A l \in Links : /\ link'[l].uses = link[l].uses
                            /\ link'[l].state = "unused" <=> link[l].state = "unused",
           \A q \in Requests : req'[q].pc = "write" =>
                                 /\ req[q].pc = "write"
                                 /\ req'[q].link = req[q].link /\ req'[q].who = req[q].who
    PROVE  LinksOnce'
  <1>1. \A l \in Links : link'[l].state = "unused" => link'[l].uses = 0
    BY DEF LinksOnce
  <1>2. None \notin Links
    BY PeopleType
  <1>3. ASSUME NEW u \in People, acct'[u].resetLink \in Links
        PROVE  /\ link'[acct'[u].resetLink].state # "unused"
               /\ link'[acct'[u].resetLink].uses = 0
               /\ \A v \in People : acct'[v].resetLink = acct'[u].resetLink => v = u
    <2>1. acct'[u].resetLink = acct[u].resetLink
      BY <1>2, <1>3
    <2>2. \A v \in People : acct'[v].resetLink = acct[u].resetLink => acct[v].resetLink = acct[u].resetLink
      BY <1>2, <1>3, <2>1
    <2> QED BY <1>3, <2>1, <2>2 DEF LinksOnce
  <1>4. ASSUME NEW q \in Requests, req'[q].pc = "write"
        PROVE  /\ req'[q].link \in Links /\ link'[req'[q].link].state # "unused"
               /\ \A v \in People : acct'[v].resetLink = req'[q].link => v = req'[q].who
    <2>1. /\ req[q].pc = "write" /\ req'[q].link = req[q].link /\ req'[q].who = req[q].who
          /\ req[q].link \in Links
      BY <1>4 DEF LinksOnce
    <2>2. \A v \in People : acct'[v].resetLink = req[q].link => acct[v].resetLink = req[q].link
      BY <1>2, <2>1
    <2> QED BY <2>1, <2>2 DEF LinksOnce
  <1> QED BY <1>1, <1>3, <1>4 DEF LinksOnce

LEMMA LinksStep == AccTyped /\ LinksOnce /\ [AccountsNext]_avars => LinksOnce'
  <1> SUFFICES ASSUME AccTyped, LinksOnce, [AccountsNext]_avars PROVE LinksOnce'
    OBVIOUS
  <1>0. /\ \A q \in Requests : req[q] \in ReqRows
        /\ \A q \in Requests : req[q].pc # "idle" => req[q].who \in People
        /\ None \notin Links
    BY ReqsTyped, PeopleType DEF AccTyped
  \* Most handlers do not touch what this is about.
  <1>1. ASSUME NEW q \in Requests,
               \/ \E u \in People : \/ RegisterRead(q, u) \/ LoginRead(q, u) \/ GoogleRead(q, u)
                                    \/ RefreshRead(q, u) \/ ResendRead(q, u) \/ ForgotRead(q, u)
               \/ \E l \in Links : VerifyRead(q, l)
        PROVE  LinksOnce'
    <2>1. /\ UNCHANGED <<acct, link>>
          /\ \E op \in Ops, pc \in Pcs \ {"write"}, u \in People : req' = [req EXCEPT ![q] = Going(op, pc, u)]
      BY <1>1 DEF RegisterRead, LoginRead, GoogleRead, RefreshRead, ResendRead, ForgotRead,
                  VerifyRead, Ops, Pcs
    <2>2. \A op \in Ops, pc \in Pcs, u \in People : Going(op, pc, u).pc = pc
      BY DEF Going, IdleReq
    <2> QED BY <2>1, <2>2, LinksStay DEF AccTyped
  <1>2. ASSUME NEW q \in Requests,
               GoogleReadEmail(q) \/ CreateLost(q) \/ Answer(q) \/ NoLink(q) \/ FailRequest(q)
        PROVE  LinksOnce'
    <2>1. /\ UNCHANGED <<acct, link>>
          /\ req' = Ended(q) \/ \E pc \in Pcs \ {"write"} : req' = Moved(q, pc)
      BY <1>2 DEF GoogleReadEmail, CreateLost, Answer, NoLink, FailRequest, Pcs
    <2>2. \A p \in Requests : req'[p].pc = "write" => req'[p] = req[p]
      BY <1>0, <2>1 DEF Ended, Moved, IdleReq, AccTyped, ReqRows
    <2> QED BY <2>1, <2>2, LinksStay
  <1>3. ASSUME NEW q \in Requests, GoogleLink(q) \/ Create(q) \/ MarkVerified(q) PROVE LinksOnce'
    <2>1. /\ UNCHANGED link
          /\ req' = Ended(q) \/ req' = Moved(q, "issue")
      BY <1>3 DEF GoogleLink, Create, MarkVerified
    <2>2. \A p \in Requests : req'[p].pc = "write" => req'[p] = req[p]
      BY <1>0, <2>1 DEF Ended, Moved, IdleReq, AccTyped, ReqRows
    <2>3. \A u \in People : acct'[u].resetLink \in {acct[u].resetLink, None}
      <3>1. CASE GoogleLink(q)
        BY <3>1 DEF GoogleLink, AccTyped, AcctRows
      <3>2. CASE Create(q)
        BY <3>2 DEF Create, AccTyped, AcctRows, NoAcct
      <3>3. CASE MarkVerified(q)
        BY <3>3 DEF MarkVerified, AccTyped, AcctRows
      <3> QED BY <1>3, <3>1, <3>2, <3>3
    <2> QED BY <2>1, <2>2, <2>3, LinksStay
  <1>4. ASSUME NEW q \in Requests, Issue(q) PROVE LinksOnce'
    <2>1. UNCHANGED link /\ \A u \in People : acct'[u].resetLink = acct[u].resetLink
      BY <1>4 DEF Issue, AccTyped, AcctRows
    <2>2. \A p \in Requests : req'[p].pc = "write" => req'[p] = req[p]
      BY <1>0, <1>4 DEF Issue, AccTyped, ReqRows
    <2> QED BY <2>1, <2>2, LinksStay
  <1>5. ASSUME NEW q \in Requests, NEW u \in People, Logout(q, u) PROVE LinksOnce'
    <2>1. UNCHANGED link /\ \A v \in People : acct'[v].resetLink = acct[v].resetLink
      BY <1>5 DEF Logout, AccTyped, AcctRows
    <2>2. \A p \in Requests : req'[p] \in {req[p], [req[p] EXCEPT !.early = TRUE]}
      BY <1>5 DEF Logout, SignsOut
    <2>3. \A p \in Requests : req'[p].pc = req[p].pc /\ req'[p].link = req[p].link /\ req'[p].who = req[p].who
      BY <1>0, <2>2 DEF ReqRows
    <2> QED BY <2>1, <2>3, LinksStay
  <1>6. ASSUME NEW q \in Requests, Mail(q) PROVE LinksOnce'
    <2>1. \A l \in Links : link'[l].state = link[l].state /\ link'[l].uses = link[l].uses
      <3>1. PICK m \in {TRUE, ~Faults} : link' = [link EXCEPT ![req[q].link] = [@ EXCEPT !.mailed = m]]
        BY <1>6 DEF Mail
      <3> QED BY <3>1 DEF AccTyped, LinkRows
    <2>2. UNCHANGED acct /\ \A p \in Requests : req'[p].pc = "write" => req'[p] = req[p]
      BY <1>6 DEF Mail, Ended, IdleReq, AccTyped
    <2> QED BY <2>1, <2>2, LinksStay
  <1>7. ASSUME NEW l \in Links, LinkExpires(l) PROVE LinksOnce'
    <2>1. UNCHANGED <<acct, req>>
      BY <1>7 DEF LinkExpires
    <2>2. \A m \in Links : /\ link'[m].uses = link[m].uses
                           /\ link'[m].state = "unused" <=> link[m].state = "unused"
      BY <1>7 DEF LinkExpires, Fresh, AccTyped, LinkRows
    <2> QED BY <2>1, <2>2, LinksStay
  \* A new link is nobody's yet.
  <1>8. ASSUME NEW q \in Requests, SetLink(q) PROVE LinksOnce'
    <2> DEFINE u == req[q].who
    <2>1. PICK l \in Links :
            /\ link[l].state = "unused"
            /\ link' = [link EXCEPT ![l] = [@ EXCEPT !.state = "fresh"]]
            /\ acct' = [acct EXCEPT ![u] = IF req[q].op = "forgot"
                                             THEN [@ EXCEPT !.resetLink = l]
                                             ELSE [@ EXCEPT !.verifyLink = l]]
            /\ req' = [req EXCEPT ![q] = [@ EXCEPT !.pc = "mail", !.link = l]]
      BY <1>8 DEF SetLink
    <2> HIDE DEF u
    <2>2. /\ \A v \in People : acct[v].resetLink # l
          /\ \A p \in Requests : req[p].pc = "write" => req[p].link # l
          /\ link[l].uses = 0
      BY <2>1 DEF LinksOnce
    <2>3. link'[l].state = "fresh" /\ link'[l].uses = 0 /\ \A m \in Links : m # l => link'[m] = link[m]
      BY <2>1, <2>2 DEF AccTyped, LinkRows
    <2>4. \A p \in Requests : req'[p].pc = "write" => req'[p] = req[p]
      BY <1>0, <2>1 DEF AccTyped, ReqRows
    <2>5. \A v \in People : \/ acct'[v].resetLink = acct[v].resetLink
                            \/ v = u /\ acct'[v].resetLink = l
      <3>1. CASE req[q].op = "forgot"
        BY <2>1, <3>1 DEF AccTyped, AcctRows
      <3>2. CASE req[q].op # "forgot"
        BY <2>1, <3>2 DEF AccTyped, AcctRows
      <3> QED BY <3>1, <3>2
    <2>6. \A m \in Links : link'[m].state = "unused" => link'[m].uses = 0
      BY <2>3 DEF LinksOnce
    <2>7. ASSUME NEW v \in People, acct'[v].resetLink \in Links
          PROVE  /\ link'[acct'[v].resetLink].state # "unused"
                 /\ link'[acct'[v].resetLink].uses = 0
                 /\ \A w \in People : acct'[w].resetLink = acct'[v].resetLink => w = v
      <3>1. CASE acct'[v].resetLink = l
        BY <2>2, <2>3, <2>5, <3>1
      <3>2. CASE acct'[v].resetLink # l
        <4>1. acct'[v].resetLink = acct[v].resetLink
          BY <2>5, <3>2
        <4>2. \A w \in People : acct'[w].resetLink = acct[v].resetLink => acct[w].resetLink = acct[v].resetLink
          BY <2>5, <3>2, <4>1
        <4> QED BY <2>3, <2>7, <3>2, <4>1, <4>2 DEF LinksOnce
      <3> QED BY <3>1, <3>2
    <2>8. ASSUME NEW p \in Requests, req'[p].pc = "write"
          PROVE  /\ req'[p].link \in Links /\ link'[req'[p].link].state # "unused"
                 /\ \A v \in People : acct'[v].resetLink = req'[p].link => v = req'[p].who
      <3>1. req'[p] = req[p] /\ req[p].link \in Links /\ req[p].link # l
        BY <2>2, <2>4, <2>8 DEF LinksOnce
      <3> QED BY <2>3, <2>5, <2>8, <3>1 DEF LinksOnce
    <2> QED BY <2>6, <2>7, <2>8 DEF LinksOnce
  \* Who passes with a link passes for the only row that holds it.
  <1>9. ASSUME NEW q \in Requests, NEW l \in Links, ResetRead(q, l) PROVE LinksOnce'
    <2>1. PICK u \in People :
            acct[u].resetLink = l /\ req' = [req EXCEPT ![q] = [Going("reset", "write", u) EXCEPT !.link = l]]
      BY <1>9 DEF ResetRead
    <2>2. UNCHANGED <<acct, link>>
      BY <1>9 DEF ResetRead
    <2>3. /\ \A p \in Requests : p # q => req'[p] = req[p]
          /\ req'[q].link = l /\ req'[q].who = u
      BY <2>1 DEF AccTyped, Going, IdleReq
    <2> QED BY <2>1, <2>2, <2>3 DEF LinksOnce
  \* The row gives up the link that is now used.
  <1>10. ASSUME NEW q \in Requests, ResetWrite(q) PROVE LinksOnce'
    <2> DEFINE u == req[q].who
               l == req[q].link
    <2>1. l \in Links /\ u \in People /\ \A v \in People : acct[v].resetLink = l => v = u
      BY <1>0, <1>10 DEF ResetWrite, LinksOnce
    <2>2. acct'[u].resetLink = None /\ \A v \in People : v # u => acct'[v] = acct[v]
      BY <1>10, <2>1 DEF ResetWrite, AccTyped, AcctRows
    <2>3. /\ \A m \in Links : link'[m].state = link[m].state
          /\ \A m \in Links : m # l => link'[m] = link[m]
      BY <1>10, <2>1 DEF ResetWrite, AccTyped, LinkRows
    <2>4. \A p \in Requests : req'[p].pc = "write" => /\ req[p].pc = "write"
                                                      /\ req'[p].link = req[p].link
                                                      /\ req'[p].who = req[p].who
      <3>1. \A p \in Requests : req'[p] \in {Ended(q)[p], [Ended(q)[p] EXCEPT !.early = TRUE]}
        BY <1>10 DEF ResetWrite, SignsOut
      <3>2. \A p \in Requests : Ended(q)[p] \in ReqRows
        BY ReqsTyped DEF Ended, AccTyped
      <3>3. \A p \in Requests : /\ req'[p].pc = Ended(q)[p].pc /\ req'[p].link = Ended(q)[p].link
                                /\ req'[p].who = Ended(q)[p].who
        BY <3>1, <3>2 DEF ReqRows
      <3>4. \A p \in Requests : Ended(q)[p].pc = "write" => Ended(q)[p] = req[p]
        BY DEF Ended, IdleReq, AccTyped
      <3> QED BY <3>3, <3>4
    <2>5. link[l].state # "unused"
      BY <1>10 DEF ResetWrite, LinksOnce
    <2> HIDE DEF u, l
    <2>6. \A v \in People : acct'[v].resetLink \in Links => v # u /\ acct'[v].resetLink # l
      BY <1>0, <2>1, <2>2
    <2>7. \A m \in Links : link'[m].state = "unused" => link'[m].uses = 0
      BY <2>3, <2>5 DEF LinksOnce
    <2>8. ASSUME NEW v \in People, acct'[v].resetLink \in Links
          PROVE  /\ link'[acct'[v].resetLink].state # "unused"
                 /\ link'[acct'[v].resetLink].uses = 0
                 /\ \A w \in People : acct'[w].resetLink = acct'[v].resetLink => w = v
      <3>1. v # u /\ acct'[v] = acct[v] /\ acct'[v].resetLink # l
        BY <2>2, <2>6, <2>8
      <3>2. \A w \in People : acct'[w].resetLink = acct'[v].resetLink => acct[w].resetLink = acct[v].resetLink
        BY <2>2, <2>6, <2>8, <3>1
      <3> QED BY <2>3, <2>8, <3>1, <3>2 DEF LinksOnce
    <2>9. ASSUME NEW p \in Requests, req'[p].pc = "write"
          PROVE  /\ req'[p].link \in Links /\ link'[req'[p].link].state # "unused"
                 /\ \A v \in People : acct'[v].resetLink = req'[p].link => v = req'[p].who
      BY <2>2, <2>3, <2>4, <2>6, <2>9 DEF LinksOnce
    <2> QED BY <2>7, <2>8, <2>9 DEF LinksOnce
  <1>11. CASE UNCHANGED avars
    BY <1>11 DEF avars, LinksOnce
  <1> QED BY <1>1, <1>2, <1>3, <1>4, <1>5, <1>6, <1>7, <1>8, <1>9, <1>10, <1>11
          DEF AccountsNext, SessionStep, LinkStep

-----------------------------------------------------------------------------
LEMMA AccountsInvariant == AccountsSpec => []AccInv
  <1>1. AccInv /\ [AccountsNext]_avars => AccInv'
    BY AccountsTypedStep, OutStep, LinksStep DEF AccInv
  <1> QED BY <1>1, AccountsInitInv, PTL DEF AccountsSpec

\* Rows, links and requests stay within their types.
THEOREM AccountsTyped == AccountsSpec => []AccountsTypeOK
  <1>1. AccInv => AccountsTypeOK
    BY ReqsTyped DEF AccInv, AccTyped, AccountsTypeOK
  <1> QED BY AccountsInvariant, <1>1, PTL

\* After a sign-out or a password reset a user has no session that a renewal could go on
\* with before signing in anew, unless a request begun before opens one.
THEOREM OutUntilSignedIn == AccountsSpec => []SignedOutStaysOut
  <1>1. AccInv => SignedOutStaysOut
    BY DEF AccInv, OutUntilReopened, SignedOutStaysOut
  <1> QED BY AccountsInvariant, <1>1, PTL

LEMMA PassedWithUnused ==
    ASSUME AccInv, AccountsNext, NEW q \in Requests, req[q].pc = "idle", req'[q].pc = "write"
    PROVE  link[req'[q].link].uses = 0
  <1>0. AccTyped /\ LinksOnce /\ \A p \in Requests : req[p] \in ReqRows
    BY ReqsTyped DEF AccInv, AccTyped
  <1>1. ASSUME NEW p \in Requests, NEW l \in Links, ResetRead(p, l) PROVE link[req'[q].link].uses = 0
    <2>1. PICK u \in People :
            acct[u].resetLink = l /\ req' = [req EXCEPT ![p] = [Going("reset", "write", u) EXCEPT !.link = l]]
      BY <1>1 DEF ResetRead
    <2>2. p = q /\ req'[q].link = l
      BY <1>0, <2>1 DEF AccTyped, Going, IdleReq
    <2> QED BY <1>0, <2>1, <2>2 DEF LinksOnce
  \* No other handler gets there.
  <1>2. ASSUME NEW p \in Requests,
               \/ \E u \in People : \/ RegisterRead(p, u) \/ LoginRead(p, u) \/ GoogleRead(p, u)
                                    \/ RefreshRead(p, u) \/ ResendRead(p, u) \/ ForgotRead(p, u)
               \/ \E l \in Links : VerifyRead(p, l)
        PROVE  FALSE
    <2>1. \E op \in Ops, pc \in Pcs \ {"write"}, u \in People : req' = [req EXCEPT ![p] = Going(op, pc, u)]
      BY <1>2 DEF RegisterRead, LoginRead, GoogleRead, RefreshRead, ResendRead, ForgotRead,
                  VerifyRead, Ops, Pcs
    <2>2. \A op \in Ops, pc \in Pcs, u \in People : Going(op, pc, u).pc = pc
      BY DEF Going, IdleReq
    <2> QED BY <1>0, <2>1, <2>2 DEF AccTyped
  <1>3. ASSUME NEW p \in Requests,
               \/ GoogleReadEmail(p) \/ GoogleLink(p) \/ Create(p) \/ CreateLost(p) \/ Issue(p)
               \/ Answer(p) \/ SetLink(p) \/ NoLink(p) \/ Mail(p) \/ MarkVerified(p) \/ FailRequest(p)
        PROVE  FALSE
    <2>1. req[p].pc # "idle" /\ \E r : req' = [req EXCEPT ![p] = r]
      BY <1>3 DEF GoogleReadEmail, GoogleLink, Create, CreateLost, Issue, Answer, SetLink, NoLink,
                  Mail, MarkVerified, FailRequest, Ended, Moved
    <2> QED BY <1>0, <2>1 DEF AccTyped
  <1>4. ASSUME NEW p \in Requests, NEW u \in People, Logout(p, u) PROVE FALSE
    <2>1. req'[q] \in {req[q], [req[q] EXCEPT !.early = TRUE]}
      BY <1>4 DEF Logout, SignsOut
    <2> QED BY <1>0, <2>1 DEF ReqRows
  <1>5. ASSUME NEW p \in Requests, ResetWrite(p) PROVE FALSE
    <2>1. Ended(p)[q].pc = "idle" /\ Ended(p)[q] \in ReqRows
      BY <1>0, ReqsTyped DEF Ended, AccTyped, IdleReq
    <2>2. req'[q] \in {Ended(p)[q], [Ended(p)[q] EXCEPT !.early = TRUE]}
      BY <1>5 DEF ResetWrite, SignsOut
    <2> QED BY <2>1, <2>2 DEF ReqRows
  <1>6. ASSUME NEW l \in Links, LinkExpires(l) PROVE FALSE
    BY <1>6 DEF LinkExpires
  <1> QED BY <1>1, <1>2, <1>3, <1>4, <1>5, <1>6 DEF AccountsNext, SessionStep, LinkStep

\* A link that has changed a password is never accepted again.
THEOREM UsedLinksRefused == AccountsSpec => UsedLinkRefused
  <1>1. AccInv /\ [AccountsNext]_avars =>
          [\A q \in Requests : req[q].pc = "idle" /\ req'[q].pc = "write"
             => link[req'[q].link].uses = 0]_avars
    BY PassedWithUnused DEF avars
  <1> QED BY <1>1, AccountsInvariant, PTL DEF AccountsSpec, UsedLinkRefused

-----------------------------------------------------------------------------
(* The guard against too many requests.                                    *)

\* The calls of window k whose INCR is on its way.
Waiting(k) == {c \in Callers : guard[c].pc = "count" /\ guard[c].at = k}

\* The calls that key k counted in its first life and that the guard will let through.
Admitted(k) == {c \in Callers : /\ guard[c].pc \in {"expire", "decide"}
                                /\ guard[c].at = k /\ ~guard[c].again
                                /\ guard[c].n <= Limit}

\* No key of a window to come is there yet, and that of this window goes only in a
\* later one.
KeysOutlive ==
    /\ \A k \in Windows :
         /\ k > win => calls[k] = 0 /\ count[k] = 0
         /\ k \in gone => k < win
         /\ ttl[k] # None => ttl[k].win > k
    /\ \A c \in Callers : guard[c].at <= win

\* A key has counted calls of its own window only, each of them once.
CountsCalls == \A k \in Windows : count[k] + Cardinality(Waiting(k)) <= calls[k]

\* Each call of a key's first life has a number of its own, so few enough have a small one.
FewAdmitted ==
    \A k \in Windows :
        /\ passed[k] + Cardinality(Admitted(k)) <= Limit
        /\ k \notin gone => passed[k] + Cardinality(Admitted(k)) <= count[k]

LimitInv == RateLimitTypeOK /\ KeysOutlive /\ CountsCalls /\ FewAdmitted

LEMMA CallersFinite ==
    ASSUME NEW k
    PROVE  /\ IsFiniteSet(Admitted(k)) /\ Cardinality(Admitted(k)) \in Nat
           /\ IsFiniteSet(Waiting(k)) /\ Cardinality(Waiting(k)) \in Nat
  BY CallerType, FS_Subset, FS_CardinalityType DEF Admitted, Waiting

LEMMA IdleTyped == IdleGuard \in GuardRows /\ 0 \in Windows /\ 0 \in 0..(WindowSec - 1)
  BY LimitType, CallsBound DEF IdleGuard, GuardRows, Windows

\* Where no call comes or is counted the count of calls stays good; ...
LEMMA CountsStay ==
    ASSUME LimitInv, RateLimitTypeOK', UNCHANGED calls,
           \A k \in Windows : /\ count'[k] <= count[k]
                              /\ Waiting(k)' \subseteq Waiting(k)
    PROVE  CountsCalls'
  <1> SUFFICES ASSUME NEW k \in Windows PROVE count'[k] + Cardinality(Waiting(k)') <= calls[k]
    BY DEF CountsCalls
  <1>1. Cardinality(Waiting(k)') <= Cardinality(Waiting(k)) /\ Cardinality(Waiting(k)') \in Nat
    BY CallersFinite, FS_Subset, FS_CardinalityType
  <1>2. count[k] \in Nat /\ count'[k] \in Nat /\ calls[k] \in Nat /\ Cardinality(Waiting(k)) \in Nat
    BY CallersFinite DEF LimitInv, RateLimitTypeOK
  <1> QED BY <1>1, <1>2 DEF LimitInv, CountsCalls

\* ... and where none is admitted or let through, and no key that is left has a smaller
\* number, so does the count of those admitted.
LEMMA FewStay ==
    ASSUME LimitInv, RateLimitTypeOK', UNCHANGED passed,
           \A k \in Windows : /\ k \notin gone' => k \notin gone /\ count'[k] >= count[k]
                              /\ Admitted(k)' \subseteq Admitted(k)
    PROVE  FewAdmitted'
  <1> SUFFICES ASSUME NEW k \in Windows
               PROVE  /\ passed[k] + Cardinality(Admitted(k)') <= Limit
                      /\ k \notin gone' => passed[k] + Cardinality(Admitted(k)') <= count'[k]
    BY DEF FewAdmitted
  <1>1. Cardinality(Admitted(k)') <= Cardinality(Admitted(k)) /\ Cardinality(Admitted(k)') \in Nat
    BY CallersFinite, FS_Subset, FS_CardinalityType
  <1>2. /\ passed[k] \in Nat /\ count[k] \in Nat /\ count'[k] \in Nat /\ Limit \in Nat
        /\ Cardinality(Admitted(k)) \in Nat
    BY LimitType, CallersFinite DEF LimitInv, RateLimitTypeOK
  <1> QED BY <1>1, <1>2 DEF LimitInv, FewAdmitted

LEMMA LimitInit == RateLimitInit => LimitInv
  <1> SUFFICES ASSUME RateLimitInit PROVE LimitInv
    OBVIOUS
  <1>1. RateLimitTypeOK
    BY IdleTyped DEF RateLimitInit, RateLimitTypeOK
  <1>2. KeysOutlive
    BY DEF RateLimitInit, KeysOutlive, IdleGuard, Windows
  <1>3. \A k : Admitted(k) = {} /\ Waiting(k) = {}
    BY DEF RateLimitInit, Admitted, Waiting, IdleGuard
  <1>4. FewAdmitted /\ CountsCalls
    BY <1>3, FS_EmptySet, LimitType DEF RateLimitInit, FewAdmitted, CountsCalls
  <1> QED BY <1>1, <1>2, <1>4 DEF LimitInv

LEMMA LimitStep == LimitInv /\ [RateLimitNext]_lvars => LimitInv'
  <1> SUFFICES ASSUME LimitInv, [RateLimitNext]_lvars PROVE LimitInv'
    OBVIOUS
  <1>0. RateLimitTypeOK /\ KeysOutlive /\ CountsCalls /\ FewAdmitted
    BY DEF LimitInv
  <1>1. ASSUME NEW c \in Callers, Stamp(c) PROVE LimitInv'
    <2> DEFINE g == [IdleGuard EXCEPT !.pc = "count", !.at = win]
    <2>1. g \in GuardRows /\ g.pc = "count" /\ g.at = win
      BY <1>0 DEF IdleGuard, GuardRows, RateLimitTypeOK
    <2>2. /\ guard[c].pc = "idle" /\ guard' = [guard EXCEPT ![c] = g]
          /\ calls' = [calls EXCEPT ![win] = @ + 1]
          /\ UNCHANGED <<win, sec, count, ttl, gone, passed>>
      BY <1>1 DEF Stamp
    <2> HIDE DEF g
    <2>3. RateLimitTypeOK'
      BY <1>0, <2>1, <2>2 DEF RateLimitTypeOK
    <2>4. KeysOutlive'
      BY <1>0, <2>1, <2>2 DEF RateLimitTypeOK, KeysOutlive, Windows
    <2>5. ASSUME NEW k \in Windows PROVE count'[k] + Cardinality(Waiting(k)') <= calls'[k]
      <3>1. /\ count[k] \in Nat /\ calls[k] \in Nat /\ Cardinality(Waiting(k)) \in Nat
            /\ count[k] + Cardinality(Waiting(k)) <= calls[k] /\ count'[k] = count[k]
        BY <1>0, <2>2, CallersFinite DEF RateLimitTypeOK, CountsCalls
      <3>2. CASE k = win
        <4>1. Waiting(k)' = Waiting(k) \cup {c} /\ c \notin Waiting(k)
          BY <1>0, <2>1, <2>2, <3>2 DEF Waiting, RateLimitTypeOK
        <4>2. Cardinality(Waiting(k)') = Cardinality(Waiting(k)) + 1
          BY <4>1, CallersFinite, FS_AddElement
        <4>3. calls'[k] = calls[k] + 1
          BY <1>0, <2>2, <3>2 DEF RateLimitTypeOK
        <4> QED BY <3>1, <4>2, <4>3
      <3>3. CASE k # win
        <4>1. Waiting(k)' = Waiting(k) /\ calls'[k] = calls[k]
          BY <1>0, <2>1, <2>2, <3>3 DEF Waiting, RateLimitTypeOK
        <4> QED BY <3>1, <4>1
      <3> QED BY <3>2, <3>3
    <2>6. \A k \in Windows : Admitted(k)' \subseteq Admitted(k)
      BY <1>0, <2>1, <2>2 DEF Admitted, RateLimitTypeOK
    <2>7. FewAdmitted'
      BY <1>0, <2>2, <2>3, <2>6, FewStay DEF RateLimitTypeOK
    <2> QED BY <2>3, <2>4, <2>5, <2>7 DEF LimitInv, CountsCalls
  <1>2. ASSUME NEW c \in Callers, Incr(c) PROVE LimitInv'
    <2>0. PICK k \in Windows : k = guard[c].at
      BY <1>0 DEF RateLimitTypeOK, GuardRows
    <2>1. PICK b \in BOOLEAN : b = (k \in gone)
      <3>1. (k \in gone) \in BOOLEAN
        OBVIOUS
      <3> QED BY <3>1
    <2> DEFINE n == count[k] + 1
               g == [pc |-> IF n = 1 THEN "expire" ELSE "decide", at |-> k, n |-> n, again |-> b]
    <2>2. n \in Nat /\ n = count[k] + 1 /\ k <= win
      BY <1>0, <2>0 DEF RateLimitTypeOK, KeysOutlive
    <2>3. g \in GuardRows /\ g.pc \in {"expire", "decide"} /\ g.at = k /\ g.n = n /\ g.again = b
      BY <2>2 DEF GuardRows
    <2>4. /\ guard[c].pc = "count" /\ guard[c].at = k
          /\ guard' = [guard EXCEPT ![c] = g]
          /\ count' = [count EXCEPT ![k] = n]
          /\ UNCHANGED <<win, sec, ttl, gone, calls, passed>>
      BY <1>2, <2>0, <2>1, Zenon DEF Incr, Key
    <2> HIDE DEF n, g
    <2>5. RateLimitTypeOK'
      BY <1>0, <2>2, <2>3, <2>4 DEF RateLimitTypeOK
    <2>6. KeysOutlive'
      BY <1>0, <2>2, <2>3, <2>4 DEF RateLimitTypeOK, KeysOutlive, Windows
    <2>7. ASSUME NEW w \in Windows PROVE count'[w] + Cardinality(Waiting(w)') <= calls'[w]
      <3>1. /\ count[w] \in Nat /\ calls[w] \in Nat /\ Cardinality(Waiting(w)) \in Nat
            /\ count[w] + Cardinality(Waiting(w)) <= calls[w] /\ calls'[w] = calls[w]
        BY <1>0, <2>4, CallersFinite DEF RateLimitTypeOK, CountsCalls
      <3>2. Waiting(w)' = Waiting(w) \ {c}
        BY <1>0, <2>1, <2>3, <2>4 DEF Waiting, RateLimitTypeOK
      <3>3. CASE w = k
        <4>1. c \in Waiting(w)
          BY <2>4, <3>3 DEF Waiting
        <4>2. Cardinality(Waiting(w)') = Cardinality(Waiting(w)) - 1
          BY <3>2, <4>1, CallersFinite, FS_RemoveElement
        <4>3. count'[w] = count[w] + 1
          BY <1>0, <2>2, <2>4, <3>3 DEF RateLimitTypeOK
        <4> QED BY <3>1, <4>2, <4>3
      <3>4. CASE w # k
        <4>1. Waiting(w)' = Waiting(w) /\ count'[w] = count[w]
          BY <1>0, <2>4, <3>2, <3>4 DEF Waiting, RateLimitTypeOK
        <4> QED BY <3>1, <4>1
      <3> QED BY <3>3, <3>4
    \* The number is one more than those before it, so it is small for few enough.
    <2>8. ASSUME NEW w \in Windows
          PROVE  /\ passed'[w] + Cardinality(Admitted(w)') <= Limit
                 /\ w \notin gone' => passed'[w] + Cardinality(Admitted(w)') <= count'[w]
      <3>1. passed[w] \in Nat /\ count[w] \in Nat /\ Limit \in Nat /\ Cardinality(Admitted(w)) \in Nat
        BY <1>0, LimitType, CallersFinite DEF RateLimitTypeOK
      <3>2. /\ passed[w] + Cardinality(Admitted(w)) <= Limit
            /\ w \notin gone => passed[w] + Cardinality(Admitted(w)) <= count[w]
        BY <1>0 DEF FewAdmitted
      <3>3. passed'[w] = passed[w] /\ gone' = gone /\ count'[w] \in {count[w], count[w] + 1}
        BY <1>0, <2>2, <2>4 DEF RateLimitTypeOK
      <3>4. CASE w = k /\ n <= Limit /\ k \notin gone
        <4>1. Admitted(w)' = Admitted(w) \cup {c} /\ c \notin Admitted(w)
          BY <1>0, <2>1, <2>3, <2>4, <3>4 DEF Admitted, RateLimitTypeOK
        <4>2. Cardinality(Admitted(w)') = Cardinality(Admitted(w)) + 1
          BY <4>1, CallersFinite, FS_AddElement
        <4>3. count'[w] = count[w] + 1 /\ n = count[w] + 1
          BY <1>0, <2>2, <2>4, <3>4 DEF RateLimitTypeOK
        <4> QED BY <3>1, <3>2, <3>3, <3>4, <4>2, <4>3
      <3>5. CASE ~(w = k /\ n <= Limit /\ k \notin gone)
        <4>1. Admitted(w)' = Admitted(w)
          BY <1>0, <2>1, <2>3, <2>4, <3>5 DEF Admitted, RateLimitTypeOK
        <4> QED BY <3>1, <3>2, <3>3, <4>1
      <3> QED BY <3>4, <3>5
    <2> QED BY <2>5, <2>6, <2>7, <2>8 DEF LimitInv, FewAdmitted, CountsCalls
  <1>3. ASSUME NEW c \in Callers, Expire(c) PROVE LimitInv'
    <2> DEFINE k == guard[c].at
               g == [guard[c] EXCEPT !.pc = "decide"]
    <2>1. k \in Windows /\ k <= win /\ win \in Nat /\ guard[c] \in GuardRows
      BY <1>0 DEF RateLimitTypeOK, KeysOutlive, GuardRows, Windows
    <2>2. /\ g \in GuardRows /\ g.pc = "decide"
          /\ g.at = k /\ g.n = guard[c].n /\ g.again = guard[c].again
      BY <2>1 DEF GuardRows
    <2>3. /\ guard[c].pc = "expire" /\ guard' = [guard EXCEPT ![c] = g]
          /\ ttl' \in {ttl, [ttl EXCEPT ![k] = [win |-> win + 1, sec |-> sec]]}
          /\ UNCHANGED <<win, sec, count, gone, calls, passed>>
      BY <1>3 DEF Expire, Key
    <2>4. [win |-> win + 1, sec |-> sec] \in Deadlines
      BY <1>0, <2>1 DEF RateLimitTypeOK, Deadlines
    <2> HIDE DEF k, g
    <2>5. RateLimitTypeOK'
      BY <1>0, <2>1, <2>2, <2>3, <2>4 DEF RateLimitTypeOK
    <2>6. KeysOutlive'
      <3>1. ASSUME NEW w \in Windows, ttl'[w] # None PROVE ttl'[w].win > w
        <4>1. ttl'[w] = ttl[w] \/ (w = k /\ ttl'[w] = [win |-> win + 1, sec |-> sec])
          BY <1>0, <2>3 DEF RateLimitTypeOK
        <4>2. win + 1 > k
          BY <2>1 DEF Windows
        <4> QED BY <1>0, <3>1, <4>1, <4>2 DEF KeysOutlive
      <3>2. \A d \in Callers : guard'[d].at <= win'
        BY <1>0, <2>1, <2>2, <2>3 DEF RateLimitTypeOK, KeysOutlive
      <3> QED BY <1>0, <2>3, <3>1, <3>2 DEF KeysOutlive
    <2>7. \A w \in Windows : Admitted(w)' \subseteq Admitted(w) /\ Waiting(w)' \subseteq Waiting(w)
      BY <1>0, <2>2, <2>3 DEF Admitted, Waiting, RateLimitTypeOK, k
    <2>8. \A w \in Windows : count'[w] <= count[w] /\ count'[w] >= count[w]
      BY <1>0, <2>3 DEF RateLimitTypeOK
    <2> QED BY <2>3, <2>5, <2>6, <2>7, <2>8, FewStay, CountsStay DEF LimitInv
  \* The call leaves Admitted as it is let through.
  <1>4. ASSUME NEW c \in Callers, Pass(c) PROVE LimitInv'
    <2>0. PICK k \in Windows : k = guard[c].at
      BY <1>0 DEF RateLimitTypeOK, GuardRows
    <2>1. /\ passed' = [passed EXCEPT ![k] = IF guard[c].again THEN @ ELSE @ + 1]
          /\ guard' = [guard EXCEPT ![c] = IdleGuard]
          /\ guard[c].pc = "decide" /\ guard[c].n <= Limit
          /\ UNCHANGED <<win, sec, count, ttl, gone, calls>>
      BY <1>4, <2>0 DEF Pass, Key
    <2>2. IdleGuard.pc = "idle" /\ IdleGuard.at = 0
      BY DEF IdleGuard
    <2>3. RateLimitTypeOK'
      BY <1>0, <2>1, IdleTyped DEF RateLimitTypeOK
    <2>4. KeysOutlive'
      BY <1>0, <2>1, <2>2 DEF RateLimitTypeOK, KeysOutlive, Windows
    <2>5. \A w \in Windows : count'[w] <= count[w] /\ Waiting(w)' \subseteq Waiting(w)
      BY <1>0, <2>1, <2>2 DEF RateLimitTypeOK, Waiting
    <2>6. ASSUME NEW w \in Windows
          PROVE  passed'[w] + Cardinality(Admitted(w)') = passed[w] + Cardinality(Admitted(w))
      <3>1. passed[w] \in Nat /\ Cardinality(Admitted(w)) \in Nat
        BY <1>0, CallersFinite DEF RateLimitTypeOK
      <3>2. Admitted(w)' = Admitted(w) \ {c}
        BY <1>0, <2>1, <2>2 DEF Admitted, RateLimitTypeOK
      <3>3. CASE w = k /\ ~guard[c].again
        <4>1. c \in Admitted(w)
          BY <2>0, <2>1, <3>3 DEF Admitted
        <4>2. Cardinality(Admitted(w)') = Cardinality(Admitted(w)) - 1
          BY <3>2, <4>1, CallersFinite, FS_RemoveElement
        <4>3. passed'[w] = passed[w] + 1
          BY <1>0, <2>1, <3>3 DEF RateLimitTypeOK
        <4> QED BY <3>1, <4>2, <4>3
      <3>4. CASE ~(w = k /\ ~guard[c].again)
        <4>1. Admitted(w)' = Admitted(w) /\ passed'[w] = passed[w]
          BY <1>0, <2>0, <2>1, <3>2, <3>4 DEF Admitted, RateLimitTypeOK
        <4> QED BY <4>1
      <3> QED BY <3>3, <3>4
    <2>7. FewAdmitted'
      BY <1>0, <2>1, <2>6 DEF FewAdmitted
    <2> QED BY <2>1, <2>3, <2>4, <2>5, <2>7, CountsStay DEF LimitInv
  <1>5. ASSUME NEW c \in Callers, Refuse(c) PROVE LimitInv'
    <2>1. /\ guard' = [guard EXCEPT ![c] = IdleGuard]
          /\ UNCHANGED <<win, sec, count, ttl, gone, calls, passed>>
      BY <1>5 DEF Refuse
    <2>2. RateLimitTypeOK'
      BY <1>0, <2>1, IdleTyped DEF RateLimitTypeOK
    <2>3. KeysOutlive'
      BY <1>0, <2>1 DEF RateLimitTypeOK, KeysOutlive, Windows, IdleGuard
    <2>4. \A w \in Windows : Admitted(w)' \subseteq Admitted(w) /\ Waiting(w)' \subseteq Waiting(w)
      BY <1>0, <2>1 DEF Admitted, Waiting, RateLimitTypeOK, IdleGuard
    <2>5. \A w \in Windows : count'[w] <= count[w] /\ count'[w] >= count[w]
      BY <1>0, <2>1 DEF RateLimitTypeOK
    <2> QED BY <2>1, <2>2, <2>3, <2>4, <2>5, FewStay, CountsStay DEF LimitInv
  \* The time of a key comes only in a later window.
  <1>6. ASSUME NEW k \in Windows, KeyGone(k) PROVE LimitInv'
    <2>1. /\ count' = [count EXCEPT ![k] = 0] /\ ttl' = [ttl EXCEPT ![k] = None]
          /\ gone' = gone \cup {k} /\ UNCHANGED <<win, sec, guard, calls, passed>>
      BY <1>6 DEF KeyGone
    <2>2. RateLimitTypeOK'
      BY <1>0, <2>1 DEF RateLimitTypeOK
    <2>3. win > k
      <3>1. ttl[k] \in Deadlines /\ ttl[k].win > k
        BY <1>0, <1>6 DEF KeyGone, Due, RateLimitTypeOK, KeysOutlive
      <3>2. ttl[k].win \in Nat /\ win \in Nat /\ k \in Nat /\ win >= ttl[k].win
        BY <1>0, <1>6, <3>1 DEF KeyGone, Due, Deadlines, RateLimitTypeOK, Windows
      <3> QED BY <3>1, <3>2
    <2>4. KeysOutlive'
      BY <1>0, <2>1, <2>3 DEF RateLimitTypeOK, KeysOutlive, Windows
    <2>5. \A w \in Windows : Admitted(w)' \subseteq Admitted(w) /\ Waiting(w)' \subseteq Waiting(w)
      BY <2>1 DEF Admitted, Waiting
    <2>6. \A w \in Windows : /\ count'[w] <= count[w]
                             /\ w \notin gone' => w \notin gone /\ count'[w] >= count[w]
      BY <1>0, <2>1 DEF RateLimitTypeOK
    <2> QED BY <2>1, <2>2, <2>4, <2>5, <2>6, FewStay, CountsStay DEF LimitInv
  <1>7. CASE Second
    <2>1. UNCHANGED <<count, ttl, guard, gone, calls, passed>> /\ win' \in {win, win + 1}
      BY <1>7 DEF Second
    <2>2. win' \in Windows /\ sec' \in 0..(WindowSec - 1)
      BY <1>0, <1>7, LimitType DEF Second, RateLimitTypeOK
    <2>3. RateLimitTypeOK'
      BY <1>0, <2>1, <2>2 DEF RateLimitTypeOK
    <2>4. \A c \in Callers : guard[c].at \in Nat
      BY <1>0 DEF RateLimitTypeOK, GuardRows, Windows
    <2>5. KeysOutlive'
      BY <1>0, <2>1, <2>4 DEF RateLimitTypeOK, KeysOutlive, Windows
    <2>6. \A w \in Windows : Admitted(w)' \subseteq Admitted(w) /\ Waiting(w)' \subseteq Waiting(w)
      BY <2>1 DEF Admitted, Waiting
    <2>7. \A w \in Windows : count'[w] <= count[w] /\ count'[w] >= count[w]
      BY <1>0, <2>1 DEF RateLimitTypeOK
    <2> QED BY <2>1, <2>3, <2>5, <2>6, <2>7, FewStay, CountsStay DEF LimitInv
  <1>8. CASE Crash
    <2>1. /\ guard' = [c \in Callers |-> IdleGuard]
          /\ UNCHANGED <<win, sec, count, ttl, gone, calls, passed>>
      BY <1>8 DEF Crash
    <2>2. RateLimitTypeOK'
      BY <1>0, <2>1, IdleTyped DEF RateLimitTypeOK
    <2>3. KeysOutlive'
      BY <1>0, <2>1 DEF RateLimitTypeOK, KeysOutlive, Windows, IdleGuard
    <2>4. \A w \in Windows : Admitted(w)' \subseteq Admitted(w) /\ Waiting(w)' \subseteq Waiting(w)
      BY <2>1 DEF Admitted, Waiting, IdleGuard
    <2>5. \A w \in Windows : count'[w] <= count[w] /\ count'[w] >= count[w]
      BY <1>0, <2>1 DEF RateLimitTypeOK
    <2> QED BY <2>1, <2>2, <2>3, <2>4, <2>5, FewStay, CountsStay DEF LimitInv
  <1>9. CASE UNCHANGED lvars
    <2>1. RateLimitTypeOK' /\ KeysOutlive'
      BY <1>0, <1>9 DEF lvars, RateLimitTypeOK, KeysOutlive
    <2>2. \A w \in Windows : Admitted(w)' \subseteq Admitted(w) /\ Waiting(w)' \subseteq Waiting(w)
      BY <1>9 DEF lvars, Admitted, Waiting
    <2>3. \A w \in Windows : count'[w] <= count[w] /\ count'[w] >= count[w]
      BY <1>0, <1>9 DEF lvars, RateLimitTypeOK
    <2> QED BY <1>9, <2>1, <2>2, <2>3, FewStay, CountsStay DEF LimitInv, lvars
  <1> QED BY <1>1, <1>2, <1>3, <1>4, <1>5, <1>6, <1>7, <1>8, <1>9 DEF RateLimitNext

LEMMA LimitInvariant == RateLimitSpec => []LimitInv
  BY LimitInit, LimitStep, PTL DEF RateLimitSpec

\* Keys, guards and counters stay within their types.
THEOREM RateLimitTyped == RateLimitSpec => []RateLimitTypeOK
  <1>1. LimitInv => RateLimitTypeOK
    BY DEF LimitInv
  <1> QED BY LimitInvariant, <1>1, PTL

\* A key outlives its window, and lets no more than Limit calls through until it expires,
\* however long each INCR takes, however the guards overlap and whenever the process dies.
THEOREM NeverMoreThanLimit == RateLimitSpec => []WithinLimit
  <1>1. ASSUME LimitInv PROVE WithinLimit
    <2>1. ASSUME NEW k \in Windows PROVE passed[k] <= Limit
      <3>1. passed[k] \in Nat /\ Limit \in Nat /\ Cardinality(Admitted(k)) \in Nat
        BY <1>1, LimitType, CallersFinite DEF LimitInv, RateLimitTypeOK
      <3> QED BY <1>1, <3>1 DEF LimitInv, FewAdmitted
    <2> QED BY <1>1, <2>1 DEF WithinLimit, LimitInv, KeysOutlive
  <1> QED BY LimitInvariant, <1>1, PTL

-----------------------------------------------------------------------------
(* A caller is told a number that only calls of the window of its own have  *)
(* made.                                                                    *)

LEMMA RefusedForTooMany ==
  ASSUME LimitInv, RateLimitNext, NEW c \in Callers,
         guard[c].pc = "count", guard'[c].pc \in {"expire", "decide"}, guard'[c].n > Limit
  PROVE  calls[guard[c].at] > Limit
  <1>0. RateLimitTypeOK /\ CountsCalls
    BY DEF LimitInv
  <1>1. ASSUME NEW d \in Callers, Incr(d) PROVE calls[guard[c].at] > Limit
    <2>1. PICK k \in Windows : k = guard[c].at
      BY <1>0 DEF RateLimitTypeOK, GuardRows
    <2>2. count[k] \in Nat /\ calls[k] \in Nat /\ Cardinality(Waiting(k)) \in Nat /\ Limit \in Nat
      BY <1>0, LimitType, CallersFinite DEF RateLimitTypeOK
    <2>3. c \in Waiting(k)
      BY <2>1 DEF Waiting
    <2>4. Cardinality(Waiting(k)) # 0
      BY <2>3, CallersFinite, FS_EmptySet
    <2>5. count[k] + 1 <= calls[k]
      BY <1>0, <2>2, <2>4 DEF CountsCalls
    <2>6. CASE d = c
      <3>1. guard'[c].n = count[k] + 1
        BY <1>0, <1>1, <2>1, <2>6 DEF Incr, Key, RateLimitTypeOK
      <3> QED BY <2>1, <2>2, <2>5, <3>1
    <2>7. d = c
      BY <1>0, <1>1 DEF Incr, RateLimitTypeOK
    <2> QED BY <2>6, <2>7
  <1>2. ASSUME NEW d \in Callers, Stamp(d) \/ Expire(d) \/ Pass(d) \/ Refuse(d) PROVE FALSE
    <2>1. d # c
      BY <1>0, <1>2 DEF Stamp, Expire, Pass, Refuse, IdleGuard, RateLimitTypeOK
    <2>2. \E g : guard' = [guard EXCEPT ![d] = g]
      BY <1>2 DEF Stamp, Expire, Pass, Refuse
    <2> QED BY <1>0, <2>1, <2>2 DEF RateLimitTypeOK
  <1>3. (\E k \in Windows : KeyGone(k)) \/ Second => guard' = guard
    BY DEF KeyGone, Second
  <1>4. Crash => guard'[c].pc = "idle"
    BY DEF Crash, IdleGuard
  <1> QED BY <1>1, <1>2, <1>3, <1>4 DEF RateLimitNext

\* Neither an earlier window, nor a late INCR, nor a key without a time to live locks
\* anybody out: too many calls were made in the very window the refused one is of.
THEOREM NobodyLockedOut == RateLimitSpec => NeverLockedOut
  <1>1. LimitInv /\ [RateLimitNext]_lvars =>
          [\A c \in Callers :
              /\ guard[c].pc = "count" /\ guard'[c].pc \in {"expire", "decide"} /\ guard'[c].n > Limit
              => calls[guard[c].at] > Limit]_lvars
    BY RefusedForTooMany DEF lvars
  <1> QED BY <1>1, LimitInvariant, PTL DEF RateLimitSpec, NeverLockedOut
=============================================================================
