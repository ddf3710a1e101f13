------------------------------- MODULE Roles -------------------------------
(***************************************************************************)
(* Roles: the one in the row of a person, the one in the access token of    *)
(* their browser, and the one its store keeps since they signed in.  The   *)
(* guards believe the token; the panels believe the store.                 *)
(***************************************************************************)
EXTENDS Common

CONSTANTS
    Staff,       \* people who may hold a role other than citizen
    FirstAdmins, \* those whom the seed has made administrators
    Given        \* the roles that are given (a bound)

RoleNames == {"citizen", "attendant", "admin"}

ASSUME StaffType       == FirstAdmins \subseteq Staff /\ FirstAdmins # {}
ASSUME GivenType       == Given \subseteq RoleNames
ASSUME NoneIsNoPerson  == None \notin Staff \cup RoleNames

VARIABLES
    role,     \* role[u]: users.role
    token,    \* token[u]: the role in the access token that u's browser holds
    live,     \* live[u]: that token has not expired
    shown,    \* shown[u]: user.role in the store of the browser
    asked,    \* asked[u]: the sign-in or the renewal that u has in progress
    change,   \* change[u]: the role change that u has in progress
    behind    \* history: whose role was written since it was read for their token

rvars == <<role, token, live, shown, asked, change, behind>>

\* History, off: the role was written since it was read.
AskRows    == [pc : {"idle", "signIn", "renew"}, found : RoleNames \cup {None}, off : BOOLEAN]
Unasked    == [pc |-> "idle", found |-> None, off |-> FALSE]
\* History, lost: the role of u itself was written since it was read for the token presented.
ChangeRows == [pc : {"idle", "write"}, who : Staff \cup {None}, to : RoleNames \cup {None},
               lost : BOOLEAN]
Idle       == [pc |-> "idle", who |-> None, to |-> None, lost |-> FALSE]

RolesTypeOK ==
    /\ role \in [Staff -> RoleNames]
    /\ token \in [Staff -> RoleNames \cup {None}]
    /\ live \in [Staff -> BOOLEAN]
    /\ shown \in [Staff -> RoleNames \cup {None}]
    /\ asked \in [Staff -> AskRows]
    /\ change \in [Staff -> ChangeRows]
    /\ behind \subseteq Staff

RolesInit ==
    /\ role = [u \in Staff |-> IF u \in FirstAdmins THEN "admin" ELSE "citizen"]
    /\ token = [u \in Staff |-> None]
    /\ live = [u \in Staff |-> FALSE]
    /\ shown = [u \in Staff |-> None]
    /\ asked = [u \in Staff |-> Unasked]
    /\ change = [u \in Staff |-> Idle]
    /\ behind = {}

-----------------------------------------------------------------------------
(* Tokens.                                                                 *)

Ask(u, how, found) ==
    /\ asked[u].pc = "idle"
    /\ asked' = [asked EXCEPT ![u] = [pc |-> how, found |-> found, off |-> FALSE]]
    /\ UNCHANGED <<role, token, live, shown, change, behind>>

\* The row is read; comparing the password, signing and the answer take a while.
SignInRead(u) == Ask(u, "signIn", role[u])

\* Mutant: a renewal goes by the role that the old token claims.
RenewReadClaim(u) == token[u] # None /\ ~live[u] /\ Ask(u, "renew", token[u])

\* A call is refused with 401, which asks for new tokens: they get the role of the row.
RenewRead(u) == token[u] # None /\ ~live[u] /\ Ask(u, "renew", role[u])

\* A sign-in brings the user as well; in a renewal the user in the store stays as it is,
\* even if there is none any more.
TokensIssued(u) ==
    /\ asked[u].pc # "idle"
    /\ token' = [token EXCEPT ![u] = asked[u].found]
    /\ live' = [live EXCEPT ![u] = TRUE]
    /\ shown' = IF asked[u].pc = "signIn" THEN [shown EXCEPT ![u] = asked[u].found] ELSE shown
    /\ behind' = IF asked[u].off THEN behind \cup {u} ELSE behind \ {u}
    /\ asked' = [asked EXCEPT ![u] = Unasked]
    /\ UNCHANGED <<role, change>>

Forget(u) ==
    /\ token' = [token EXCEPT ![u] = None]
    /\ live' = [live EXCEPT ![u] = FALSE]
    /\ shown' = [shown EXCEPT ![u] = None]
    /\ behind' = behind \ {u}
    /\ UNCHANGED <<role, change>>

\* A renewal that fails ends the session; a sign-in that fails changes nothing.
TokensRefused(u) ==
    /\ asked[u].pc # "idle"
    /\ asked' = [asked EXCEPT ![u] = Unasked]
    /\ IF asked[u].pc = "renew" THEN Forget(u) ELSE UNCHANGED <<role, token, live, shown, change, behind>>

\* 15 minutes.
TokenExpires(u) ==
    /\ live[u]
    /\ live' = [live EXCEPT ![u] = FALSE]
    /\ UNCHANGED <<role, token, shown, asked, change, behind>>

SignOut(u) == shown[u] # None /\ Forget(u) /\ UNCHANGED asked

-----------------------------------------------------------------------------
(* Role changes.                                                           *)

\* The layout shows the panels to those whose stored role is admin.
SeesPanel(u) == shown[u] = "admin"

\* In the list, the row of oneself is disabled, and so are all while a change is pending.
MayChoose(u, v) == SeesPanel(u) /\ change[u].pc = "idle" /\ u # v

\* Mutant: the expiry of the token is ignored.
AllowedExpired(u) == token[u] = "admin"

\* The server lets administrators in, by the token they present.
Allowed(u) == live[u] /\ token[u] = "admin"

\* A role is chosen and the request passes the guards; 403 for oneself as well.
ChangeRequest(u, v, r) ==
    /\ MayChoose(u, v)
    /\ Allowed(u)
    /\ change' = [change EXCEPT ![u] = [pc |-> "write", who |-> v, to |-> r, lost |-> u \in behind]]
    /\ UNCHANGED <<role, token, live, shown, asked, behind>>

\* The update, then the audit row.  What was read of the role before is out of date.
ChangeWrite(u) ==
    LET v == change[u].who IN
    /\ change[u].pc = "write"
    /\ role' = [role EXCEPT ![v] = change[u].to]
    /\ change' = [change EXCEPT ![u] = Idle, ![v].lost = change[v].pc = "write"]
    /\ asked' = [asked EXCEPT ![v].off = asked[v].pc # "idle"]
    /\ behind' = IF token[v] # None THEN behind \cup {v} ELSE behind
    /\ UNCHANGED <<token, live, shown>>

ChangeFails(u) ==
    /\ Faults
    /\ change[u].pc = "write"
    /\ change' = [change EXCEPT ![u] = Idle]
    /\ UNCHANGED <<role, token, live, shown, asked, behind>>

RolesNext ==
    \E u \in Staff :
        \/ SignInRead(u) \/ RenewRead(u) \/ TokensIssued(u) \/ TokensRefused(u)
        \/ TokenExpires(u) \/ SignOut(u)
        \/ \E v \in Staff, r \in Given : ChangeRequest(u, v, r)
        \/ ChangeWrite(u) \/ ChangeFails(u)

\* Time passes, so tokens expire; nobody has to call, to sign in or to choose.
RolesFairness == \A u \in Staff : WF_rvars(TokenExpires(u))

RolesSpec == RolesInit /\ [][RolesNext]_rvars

-----------------------------------------------------------------------------
\* An outdated role has a date (auth.service.ts 127-145, roles.guard.ts 24): whoever holds
\* a token with another role than their row's had the row written after it was read for
\* that token, and whoever changes a role without being an administrator lost that role
\* after it was read for the token they presented.  Nothing more is true: two
\* administrators may each take the role of the other, and none remains.
AuthorityDated ==
    \A u \in Staff :
        /\ token[u] \in {None, role[u]} \/ u \in behind
        /\ change[u].pc = "write" => role[u] = "admin" \/ change[u].lost

\* A demotion takes effect: once the last change of role has been made, those who
\* are not administrators end up without a token that says they are.
DemotionBites ==
    \A u \in Staff :
        <>[](role[u] # "admin") => <>[]~Allowed(u)
=============================================================================
