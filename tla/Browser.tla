------------------------------ MODULE Browser ------------------------------
(***************************************************************************)
(* The session that a browser keeps: the store of each tab, the copy in     *)
(* localStorage that only a page load reads, and the calls to the server,   *)
(* one of which may renew the tokens while others are under way.           *)
(* A token is known by its owner: the server accepts any refresh token of   *)
(* somebody who has a session, for bcrypt sees no difference (Accounts).   *)
(***************************************************************************)
EXTENDS Common

CONSTANTS
    Users,    \* who may sign in
    Tabs,     \* pages of one browser
    Slots,    \* calls that may be under way
    TabOf     \* TabOf[c]: the tab that slot c belongs to

ASSUME BrowserType == None \notin Users /\ TabOf \in [Slots -> Tabs]

VARIABLES
    open,     \* those whose row at the server has a refresh-token hash
    store,    \* store[t]: useAuthStore in tab t
    disk,     \* localStorage["smart-parking-auth"]
    call      \* call[c]: the local state of the apiFetch in slot c

bvars == <<open, store, disk, call>>

\* user and owner of the tokens; fresh: the access token has not expired.
\* History: mixed, why the tokens may be another's: /auth/callback brought them, or a
\* renewal did after another user came ("other") or after the last one left ("left").
Stores   == [user : Users \cup {None}, owner : Users \cup {None}, fresh : BOOLEAN,
             mixed : {"no", "callback", "other", "left"}]
\* who: the user that is to be signed in; as: the owner of the tokens it uses; early:
\* they were fresh when sent; again: it has renewed them.  History: late, another
\* user has come into the store, or the last one left it, since the renewal.
CallRows == [pc : {"idle", "sent", "denied", "renewed", "refused", "ok", "failed"},
             what : {"none", "poll", "login", "me", "logout"},
             who : Users \cup {None}, as : Users \cup {None},
             early : BOOLEAN, again : BOOLEAN, late : {"no", "other", "left"}]

NoSession == [user |-> None, owner |-> None, fresh |-> FALSE, mixed |-> "no"]
NoCall    == [pc |-> "idle", what |-> "none", who |-> None, as |-> None,
              early |-> FALSE, again |-> FALSE, late |-> "no"]

BrowserTypeOK ==
    /\ open \subseteq Users
    /\ store \in [Tabs -> Stores]
    /\ disk \in Stores
    /\ call \in [Slots -> CallRows]

BrowserInit ==
    /\ open = {}
    /\ store = [t \in Tabs |-> NoSession]
    /\ disk = NoSession
    /\ call = [c \in Slots |-> NoCall]

\* Every set of the store writes the whole of it to localStorage.
Set(t, s) == store' = [store EXCEPT ![t] = s] /\ disk' = s

\* The calls of t that have renewed tokens learn that its user is another one now, or
\* nobody.
Overtaken(t, how, rows) ==
    [d \in Slots |-> IF TabOf[d] = t /\ rows[d].pc = "renewed"
                       THEN [rows[d] EXCEPT !.late = how] ELSE rows[d]]

Session(u, fresh) == [user |-> u, owner |-> u, fresh |-> fresh, mixed |-> "no"]

\* A call leaves with the access token of the store, if there is one.
Sent(c, what) ==
    [NoCall EXCEPT !.pc = "sent", !.what = what,
                   !.as = store[TabOf[c]].owner, !.early = store[TabOf[c]].fresh]

\* A signed-in page fetches something of its own, or the user signs out.
Start(c, what) ==
    /\ call[c].pc = "idle"
    /\ store[TabOf[c]].user # None
    /\ call' = [call EXCEPT ![c] = Sent(c, what)]
    /\ UNCHANGED <<open, store, disk>>

\* The form of the login or of the register page is sent.
Login(c, u) ==
    /\ call[c].pc = "idle"
    /\ call' = [call EXCEPT ![c] = [NoCall EXCEPT !.pc = "sent", !.what = "login",
                                                 !.who = u]]
    /\ UNCHANGED <<open, store, disk>>

\* A page load kills the calls of the tab and reads localStorage.
Reload(t, fresh) ==
    /\ fresh => disk.fresh
    /\ store' = [store EXCEPT ![t] = [disk EXCEPT !.fresh = fresh]]
    /\ call' = [d \in Slots |-> IF TabOf[d] = t THEN NoCall ELSE call[d]]
    /\ UNCHANGED <<open, disk>>

\* Google sends the browser to /auth/callback with tokens for u: a page load, whose
\* effect keeps the tokens beside the user of localStorage and asks who they are.
Callback(c, u) ==
    LET t == TabOf[c]
        s == [disk EXCEPT !.owner = u, !.fresh = TRUE, 
                              !.mixed = IF disk.user = u THEN "no" ELSE "callback"]
    IN  /\ call[c].pc = "idle"
        /\ open' = open \cup {u}
        /\ Set(t, s)
        /\ call' = [d \in Slots |->
                      CASE d = c -> [NoCall EXCEPT !.pc = "sent", !.what = "me",
                                        !.who = u, !.as = u, !.early = TRUE]
                        [] d # c /\ TabOf[d] = t -> NoCall
                        [] OTHER -> call[d]]

\* The outcome of a call is known; what it was sent no longer matters.
Settled(c, pc) ==
    [call EXCEPT ![c] = IF pc = "ok"
                          THEN [@ EXCEPT !.pc = pc, !.early = FALSE]
                          ELSE [NoCall EXCEPT !.pc = pc, !.what = call[c].what]]

\* The server answers.  401 unless the token it was sent is still good.
ServeLogin(c) ==
    /\ call[c].pc = "sent" /\ call[c].what = "login"
    /\ \/ /\ open' = open \cup {call[c].who}
          /\ call' = Settled(c, "ok")
       \/ /\ call' = Settled(c, "failed")
          /\ UNCHANGED open
    /\ UNCHANGED <<store, disk>>

Serve(c) ==
    /\ call[c].pc = "sent" /\ call[c].what # "login"
    /\ call[c].as # None /\ call[c].early
    /\ open' = IF call[c].what = "logout" THEN open \ {call[c].as} ELSE open
    /\ call' = Settled(c, "ok")
    /\ UNCHANGED <<store, disk>>

\* An early token may expire on the way.
Deny(c) ==
    /\ call[c].pc = "sent" /\ call[c].what # "login"
    /\ call' = [call EXCEPT ![c] = [@ EXCEPT !.pc = "denied", !.as = None, !.early = FALSE]]
    /\ UNCHANGED <<open, store, disk>>

\* fetch throws: the request, or its answer, is lost.
Lost(c) ==
    /\ Faults
    /\ call[c].pc \in {"sent", "ok", "renewed"}
    /\ call' = Settled(c, "failed")
    /\ UNCHANGED <<open, store, disk>>

\* tryRefresh takes the refresh token that is in the store by now.
Refreshed(c) ==
    LET r == store[TabOf[c]].owner IN
    CASE r = None -> Settled(c, "failed")
      [] r \in open -> [call EXCEPT ![c] = [@ EXCEPT !.pc = "renewed", !.as = r]]
      [] r \notin open \cup {None} -> [call EXCEPT ![c] = [@ EXCEPT !.pc = "refused"]]

\* The second 401 of a call is final.
Refresh(c) ==
    /\ call[c].pc = "denied"
    /\ call' = IF call[c].again THEN Settled(c, "failed") ELSE Refreshed(c)
    /\ UNCHANGED <<open, store, disk>>

\* clearSession, then the call fails with its 401.
Refused(c) ==
    LET t == TabOf[c] IN
    /\ call[c].pc = "refused"
    /\ Set(t, NoSession)
    /\ call' = Overtaken(t, "left", Settled(c, "failed"))
    /\ UNCHANGED open

\* updateTokens leaves the user alone; the call is sent once more.
Renewed(c) ==
    LET t == TabOf[c] IN
    /\ call[c].pc = "renewed"
    /\ Set(t, [store[t] EXCEPT !.owner = call[c].as, !.fresh = TRUE,
                 !.mixed = IF call[c].late = "no" THEN @ ELSE call[c].late])
    /\ call' = [call EXCEPT ![c] = [@ EXCEPT !.pc = "sent", !.early = TRUE,
                                             !.again = TRUE, !.late = "no"]]
    /\ UNCHANGED open

\* Mutant: signing out forgets the user and keeps the tokens.
FinishForgetful(c) ==
    LET t == TabOf[c] IN
    /\ call[c].pc \in {"ok", "failed"} /\ call[c].what = "logout"
    /\ Set(t, [store[t] EXCEPT !.user = None])
    /\ call' = Overtaken(t, "left", [call EXCEPT ![c] = NoCall])
    /\ UNCHANGED open

\* Signing out clears the session, whatever the server has answered.
FinishLogout(c) ==
    LET t == TabOf[c] IN
    /\ call[c].pc \in {"ok", "failed"} /\ call[c].what = "logout"
    /\ Set(t, NoSession)
    /\ call' = Overtaken(t, "left", [call EXCEPT ![c] = NoCall])
    /\ UNCHANGED open

FinishLogin(c) ==
    LET t == TabOf[c] IN
    /\ call[c].pc = "ok" /\ call[c].what = "login"
    /\ Set(t, Session(call[c].who, TRUE))
    /\ call' = Overtaken(t, "other", [call EXCEPT ![c] = NoCall])
    /\ UNCHANGED open

\* The answer names the owner of the token that was sent; the tokens are those of the
\* address, older ones when the call has renewed them.
FinishMe(c) ==
    LET t == TabOf[c] IN
    /\ call[c].pc \in {"ok", "failed"} /\ call[c].what = "me"
    /\ Set(t, IF call[c].pc = "ok"
                THEN [Session(call[c].who, ~call[c].again) EXCEPT !.user = call[c].as,
                         !.mixed = IF call[c].as = call[c].who THEN "no" ELSE "callback"]
                ELSE NoSession)
    /\ call' = Overtaken(t, IF call[c].pc = "ok" THEN "other" ELSE "left",
                         [call EXCEPT ![c] = NoCall])
    /\ UNCHANGED open

\* The page shows the answer, or the error.
FinishOther(c) ==
    /\ \/ call[c].pc \in {"ok", "failed"} /\ call[c].what = "poll"
       \/ call[c].pc = "failed" /\ call[c].what = "login"
    /\ call' = [call EXCEPT ![c] = NoCall]
    /\ UNCHANGED <<open, store, disk>>

AccessExpires(t) ==
    /\ store[t].fresh
    /\ store' = [store EXCEPT ![t].fresh = FALSE]
    /\ UNCHANGED <<open, disk, call>>

\* Signed out, or the password reset, on another device.
ClosedElsewhere(u) ==
    /\ u \in open
    /\ open' = open \ {u}
    /\ UNCHANGED <<store, disk, call>>

CallStep(c) ==
    \/ ServeLogin(c) \/ Serve(c) \/ Deny(c) \/ Lost(c)
    \/ Refresh(c) \/ Refused(c) \/ Renewed(c)
    \/ FinishLogout(c) \/ FinishLogin(c) \/ FinishMe(c) \/ FinishOther(c)

BrowserNext ==
    \/ \E c \in Slots :
         \/ Start(c, "poll") \/ Start(c, "logout")
         \/ \E u \in Users : Login(c, u) \/ Callback(c, u)
         \/ CallStep(c)
    \/ \E t \in Tabs : AccessExpires(t) \/ \E fresh \in BOOLEAN : Reload(t, fresh)
    \/ \E u \in Users : ClosedElsewhere(u)

BrowserSpec == BrowserInit /\ [][BrowserNext]_bvars

-----------------------------------------------------------------------------
\* The tokens in a store are those of the user it shows, and there are none where it
\* shows none (useAuthStore.ts 24-36), with three exceptions: tokens of /auth/callback
\* until it is known whose they are; a renewal that ends after another user has come,
\* who is shown with the tokens of the one before; and a renewal that ends after the
\* session was cleared, by a sign-out, a refusal or a callback that failed (api.ts
\* 40-57), which puts the tokens back in a store that shows nobody.
StoreIsOneSession ==
    \A t \in Tabs :
        /\ store[t].mixed = "no"    => store[t].user = store[t].owner
        /\ store[t].mixed = "other" => store[t].user # None
        /\ store[t].mixed = "left"  => store[t].user = None
=============================================================================
