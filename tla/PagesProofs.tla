---------------------------- MODULE PagesProofs ----------------------------
(***************************************************************************)
(* Proofs about what a browser keeps: the session in its store, the tables  *)
(* of the staff and the pages of the citizens; for any numbers of users,    *)
(* tabs, calls, rows and requests, with and without failures.              *)
(***************************************************************************)
EXTENDS Browser, Panels, Pages, FiniteSetTheorems, TLAPS

-----------------------------------------------------------------------------
(* The session in the store.                                               *)

OneSession(s) ==
    /\ s.mixed = "no"    => s.user = s.owner
    /\ s.mixed = "other" => s.user # None
    /\ s.mixed = "left"  => s.user = None

\* A renewal that nobody has overtaken has the tokens of the user in the store; one that
\* was, finds there another user, or nobody.
RenewalTrue(r, s) ==
    r.pc = "renewed" => /\ r.late = "no"    => s.mixed # "no" \/ r.as = s.user
                        /\ r.late = "other" => s.user # None
                        /\ r.late = "left"  => s.user = None
RenewalsTrue == \A c \in Slots : RenewalTrue(call[c], store[TabOf[c]])

StoresTrue == OneSession(disk) /\ \A t \in Tabs : OneSession(store[t])

\* A sign-in is never denied, and until it has failed it has a user to sign in; the answer
\* to a callback's question names one; only renewals are overtaken.
RowSound(r) ==
    /\ r.pc # "renewed" => r.late = "no"
    /\ r.what = "login" => r.pc = "failed" \/ (r.pc \in {"sent", "ok"} /\ r.who \in Users)
    /\ r.what = "me" /\ r.pc = "ok" => r.as # None
RowsSound == \A c \in Slots : RowSound(call[c])

BrowserInv == BrowserTypeOK /\ StoresTrue /\ RenewalsTrue /\ RowsSound

LEMMA StoresTyped ==
    /\ NoSession \in Stores /\ OneSession(NoSession)
    /\ \A u \in Users, fresh \in BOOLEAN :
          Session(u, fresh) \in Stores /\ OneSession(Session(u, fresh))
    /\ NoCall \in CallRows /\ RowSound(NoCall)
  BY DEF NoSession, Session, NoCall, Stores, CallRows, OneSession, RowSound

LEMMA SettledTyped ==
    ASSUME BrowserTypeOK, RowsSound, NEW c \in Slots, NEW pc \in {"ok", "failed"},
           pc = "ok" => call[c].pc = "sent" /\ (call[c].what = "me" => call[c].as # None)
    PROVE  /\ Settled(c, pc) \in [Slots -> CallRows]
           /\ \A d \in Slots :
                \/ Settled(c, pc)[d] = call[d]
                \/ Settled(c, pc)[d].pc # "renewed" /\ RowSound(Settled(c, pc)[d])
  <1> DEFINE r == IF pc = "ok" THEN [call[c] EXCEPT !.pc = pc, !.early = FALSE]
                               ELSE [NoCall EXCEPT !.pc = pc, !.what = call[c].what]
  <1>1. call[c] \in CallRows /\ RowSound(call[c])
    BY DEF BrowserTypeOK, RowsSound
  <1>2. CASE pc = "ok"
    <2>1. /\ r = [call[c] EXCEPT !.pc = "ok", !.early = FALSE] /\ call[c].pc = "sent"
          /\ call[c].what = "me" => call[c].as # None
      BY <1>2
    <2>2. r \in CallRows /\ r.pc # "renewed" /\ RowSound(r)
      BY <1>1, <2>1 DEF CallRows, RowSound
    <2> QED BY <1>2, <2>2 DEF Settled, BrowserTypeOK
  <1>3. CASE pc = "failed"
    <2>1. r \in CallRows /\ r.pc # "renewed" /\ RowSound(r)
      BY <1>1, <1>3 DEF CallRows, NoCall, RowSound
    <2> QED BY <1>3, <2>1 DEF Settled, BrowserTypeOK
  <1> QED BY <1>2, <1>3

LEMMA OvertakenTyped ==
    ASSUME NEW calls \in [Slots -> CallRows], NEW t, NEW how \in {"other", "left"}
    PROVE  /\ Overtaken(t, how, calls) \in [Slots -> CallRows]
           /\ \A d \in Slots :
                /\ Overtaken(t, how, calls)[d].pc = calls[d].pc
                /\ Overtaken(t, how, calls)[d].as = calls[d].as
                /\ RowSound(calls[d]) => RowSound(Overtaken(t, how, calls)[d])
                /\ TabOf[d] # t => Overtaken(t, how, calls)[d] = calls[d]
                /\ TabOf[d] = t /\ calls[d].pc = "renewed" => Overtaken(t, how, calls)[d].late = how
  BY DEF Overtaken, CallRows, RowSound

LEMMA BrowserInitInv == BrowserInit => BrowserInv
  BY StoresTyped
  DEF BrowserInit, BrowserInv, BrowserTypeOK, StoresTrue, RenewalsTrue, RenewalTrue, RowsSound,
      RowSound, NoCall

\* The store of t becomes s, and every renewal of t learns that it is late.
LEMMA NewSession ==
    ASSUME BrowserInv, NEW t \in Tabs, NEW s \in Stores, OneSession(s), Set(t, s),
           open' \subseteq Users, NEW how \in {"other", "left"},
           how = "other" => s.user # None, how = "left" => s.user = None,
           NEW calls \in [Slots -> CallRows], call' = Overtaken(t, how, calls),
           \A d \in Slots : calls[d] = call[d] \/ (calls[d].pc # "renewed" /\ RowSound(calls[d]))
    PROVE  BrowserInv'
  <1>0. BrowserTypeOK /\ StoresTrue /\ RenewalsTrue /\ RowsSound
    BY DEF BrowserInv
  <1>1. disk' = s /\ store' = [store EXCEPT ![t] = s]
    BY DEF Set
  <1>2. BrowserTypeOK' /\ StoresTrue'
    BY <1>0, <1>1, OvertakenTyped DEF BrowserTypeOK, StoresTrue
  <1>3. RenewalsTrue'
    <2> SUFFICES ASSUME NEW c \in Slots, call'[c].pc = "renewed"
                 PROVE  RenewalTrue(call'[c], store'[TabOf[c]])
      BY DEF RenewalsTrue, RenewalTrue
    <2>1. CASE TabOf[c] = t
      <3>1. calls[c].pc = "renewed" /\ call'[c].late = how
        BY <2>1, OvertakenTyped
      <3>2. store'[TabOf[c]] = s
        BY <1>0, <1>1, <2>1 DEF BrowserTypeOK
      <3> QED BY <3>1, <3>2 DEF RenewalTrue
    <2>2. CASE TabOf[c] # t
      <3>1. call'[c] = calls[c] /\ calls[c].pc = "renewed"
        BY <2>2, OvertakenTyped
      <3>2. call'[c] = call[c] /\ store'[TabOf[c]] = store[TabOf[c]]
        BY <1>0, <1>1, <2>2, <3>1, BrowserType DEF BrowserTypeOK
      <3> QED BY <1>0, <3>2 DEF RenewalsTrue
    <2> QED BY <2>1, <2>2
  <1>4. RowsSound'
    <2>1. \A d \in Slots : RowSound(calls[d])
      BY <1>0 DEF RowsSound
    <2> QED BY <2>1, OvertakenTyped DEF RowsSound, RowSound
  <1> QED BY <1>2, <1>3, <1>4 DEF BrowserInv

\* The calls go on, and the stores stay as they are.
LEMMA SameSession ==
    ASSUME BrowserInv, store' = store, disk' = disk, open' \subseteq Users,
           call' \in [Slots -> CallRows],
           \A d \in Slots : call'[d] = call[d] \/ (call'[d].pc # "renewed" /\ RowSound(call'[d]))
    PROVE  BrowserInv'
  BY DEF BrowserInv, BrowserTypeOK, StoresTrue, RenewalsTrue, RenewalTrue, RowsSound, RowSound

LEMMA BrowserStep == BrowserInv /\ [BrowserNext]_bvars => BrowserInv'
  <1> SUFFICES ASSUME BrowserInv, [BrowserNext]_bvars PROVE BrowserInv'
    OBVIOUS
  <1>0. BrowserTypeOK /\ StoresTrue /\ RenewalsTrue /\ RowsSound
    BY DEF BrowserInv
  <1>a. \A c \in Slots : call[c] \in CallRows /\ TabOf[c] \in Tabs /\ store[TabOf[c]] \in Stores
    BY <1>0, BrowserType DEF BrowserTypeOK
  <1>1. ASSUME NEW c \in Slots, NEW what \in {"poll", "logout"}, Start(c, what)
        PROVE  BrowserInv'
    <2>1. Sent(c, what) \in CallRows /\ Sent(c, what).pc = "sent" /\ RowSound(Sent(c, what))
      BY <1>a DEF Sent, NoCall, CallRows, Stores, RowSound
    <2> QED BY <1>0, <1>1, <2>1, SameSession DEF Start, BrowserTypeOK
  <1>2. ASSUME NEW c \in Slots, NEW u \in Users, Login(c, u) PROVE BrowserInv'
    <2> DEFINE r == [NoCall EXCEPT !.pc = "sent", !.what = "login", !.who = u]
    <2>1. r \in CallRows /\ r.pc = "sent" /\ RowSound(r)
      BY DEF NoCall, CallRows, RowSound
    <2>2. call' = [call EXCEPT ![c] = r] /\ open' = open /\ store' = store /\ disk' = disk
      BY <1>2 DEF Login
    <2> HIDE DEF r
    <2> QED BY <1>0, <2>1, <2>2, SameSession DEF BrowserTypeOK
  \* A page load kills the calls of its tab, and with them their renewals.
  <1>3. ASSUME NEW c \in Slots, NEW u \in Users, Callback(c, u) PROVE BrowserInv'
    <2> DEFINE t == TabOf[c]
               s == [disk EXCEPT !.owner = u, !.fresh = TRUE,
                                 !.mixed = IF disk.user = u THEN "no" ELSE "callback"]
               r == [NoCall EXCEPT !.pc = "sent", !.what = "me", !.who = u, !.as = u, !.early = TRUE]
    <2>1. s \in Stores /\ OneSession(s)
      BY <1>0 DEF BrowserTypeOK, Stores, OneSession
    <2>2. /\ r \in CallRows /\ r.pc = "sent" /\ RowSound(r)
          /\ NoCall \in CallRows /\ NoCall.pc = "idle" /\ RowSound(NoCall)
      BY StoresTyped DEF NoCall, CallRows, RowSound
    <2>3. /\ disk' = s /\ store' = [store EXCEPT ![t] = s] /\ open' = open \cup {u}
          /\ call' = [d \in Slots |-> CASE d = c -> r
                                        [] d # c /\ TabOf[d] = t -> NoCall
                                        [] OTHER -> call[d]]
      BY <1>3 DEF Callback, Set
    <2> HIDE DEF s, r
    <2>4. /\ call'[c] = r
          /\ \A d \in Slots \ {c} : call'[d] = IF TabOf[d] = t THEN NoCall ELSE call[d]
      BY <2>3
    <2>5. BrowserTypeOK'
      <3>1. call' \in [Slots -> CallRows]
        <4>1. \A d \in Slots : call'[d] \in CallRows
          BY <1>a, <2>2, <2>4
        <4> QED BY <2>3, <4>1
      <3> QED BY <1>0, <1>a, <2>1, <2>3, <3>1 DEF BrowserTypeOK
    <2>6. StoresTrue'
      BY <1>0, <2>1, <2>3 DEF BrowserTypeOK, StoresTrue
    <2>7. RenewalsTrue'
      <3>1. ASSUME NEW d \in Slots, call'[d].pc = "renewed"
            PROVE  call'[d] = call[d] /\ store'[TabOf[d]] = store[TabOf[d]]
        BY <1>0, <1>a, <2>2, <2>3, <2>4, <3>1 DEF BrowserTypeOK
      <3> QED BY <1>0, <3>1 DEF RenewalsTrue, RenewalTrue
    <2>8. RowsSound'
      BY <1>0, <2>2, <2>4 DEF RowsSound, RowSound
    <2> QED BY <2>5, <2>6, <2>7, <2>8 DEF BrowserInv
  <1>4. ASSUME NEW t \in Tabs, NEW fresh \in BOOLEAN, Reload(t, fresh) PROVE BrowserInv'
    <2> DEFINE s == [disk EXCEPT !.fresh = fresh]
    <2>1. s \in Stores /\ OneSession(s)
      BY <1>0 DEF BrowserTypeOK, Stores, StoresTrue, OneSession
    <2>2. /\ store' = [store EXCEPT ![t] = s] /\ open' = open /\ disk' = disk
          /\ call' = [d \in Slots |-> IF TabOf[d] = t THEN NoCall ELSE call[d]]
      BY <1>4 DEF Reload
    <2> HIDE DEF s
    <2>3. BrowserTypeOK' /\ StoresTrue'
      BY <1>0, <2>1, <2>2, StoresTyped DEF BrowserTypeOK, StoresTrue
    <2>4. RenewalsTrue'
      <3>1. ASSUME NEW d \in Slots, call'[d].pc = "renewed"
            PROVE  call'[d] = call[d] /\ store'[TabOf[d]] = store[TabOf[d]]
        BY <1>0, <1>a, <2>2, <3>1 DEF BrowserTypeOK, NoCall
      <3> QED BY <1>0, <3>1 DEF RenewalsTrue, RenewalTrue
    <2>5. RowsSound'
      BY <1>0, <2>2, StoresTyped DEF RowsSound, RowSound
    <2> QED BY <2>3, <2>4, <2>5 DEF BrowserInv
  <1>5. ASSUME NEW c \in Slots, ServeLogin(c) \/ Serve(c) \/ Lost(c) PROVE BrowserInv'
    <2>1. /\ store' = store /\ disk' = disk
          /\ \/ /\ call' = Settled(c, "ok") /\ call[c].pc = "sent"
                /\ call[c].what = "me" => call[c].as # None
             \/ call' = Settled(c, "failed")
      BY <1>5 DEF ServeLogin, Serve, Lost
    <2>2. open' \subseteq Users
      BY <1>0, <1>5 DEF ServeLogin, Serve, Lost, BrowserTypeOK, RowsSound, RowSound
    <2> QED BY <1>0, <2>1, <2>2, SettledTyped, SameSession
  <1>6. ASSUME NEW c \in Slots, Deny(c) PROVE BrowserInv'
    <2> DEFINE r == [call[c] EXCEPT !.pc = "denied", !.as = None, !.early = FALSE]
    <2>1. r \in CallRows /\ r.pc = "denied" /\ RowSound(r)
      BY <1>0, <1>6, <1>a DEF Deny, CallRows, RowsSound, RowSound
    <2>2. call' = [call EXCEPT ![c] = r] /\ open' = open /\ store' = store /\ disk' = disk
      BY <1>6 DEF Deny
    <2> HIDE DEF r
    <2> QED BY <1>0, <2>1, <2>2, SameSession DEF BrowserTypeOK
  \* The tokens that come are those of the store's user, while it is a single session.
  <1>7. ASSUME NEW c \in Slots, Refresh(c) PROVE BrowserInv'
    <2> DEFINE o  == store[TabOf[c]].owner
               r1 == [call[c] EXCEPT !.pc = "renewed", !.as = o]
               r2 == [call[c] EXCEPT !.pc = "refused"]
    <2>1. open' = open /\ store' = store /\ disk' = disk
      BY <1>7 DEF Refresh
    <2>2. CASE call' = Settled(c, "failed")
      BY <1>0, <2>1, <2>2, SettledTyped, SameSession DEF BrowserTypeOK
    <2>3. CASE o \in open /\ call' = [call EXCEPT ![c] = r1]
      <3>1. r1 \in CallRows /\ r1.as = o /\ r1.late = "no" /\ RowSound(r1)
        BY <1>0, <1>7, <1>a, <2>3 DEF Refresh, CallRows, BrowserTypeOK, RowsSound, RowSound
      <3>2. BrowserTypeOK' /\ StoresTrue'
        BY <1>0, <2>1, <2>3, <3>1 DEF BrowserTypeOK, StoresTrue
      <3>3. OneSession(store[TabOf[c]])
        BY <1>0, <1>a DEF StoresTrue
      <3>4. call'[c] = r1 /\ \A d \in Slots \ {c} : call'[d] = call[d]
        BY <1>0, <2>3, <3>1 DEF BrowserTypeOK
      <3>5. RenewalsTrue'
        <4>1. RenewalTrue(r1, store[TabOf[c]])
          BY <3>1, <3>3 DEF RenewalTrue, OneSession
        <4> QED BY <1>0, <2>1, <3>4, <4>1 DEF RenewalsTrue
      <3>6. RowsSound'
        BY <1>0, <3>1, <3>4 DEF RowsSound
      <3> QED BY <3>2, <3>5, <3>6 DEF BrowserInv
    <2>4. CASE call' = [call EXCEPT ![c] = r2]
      <3>1. r2 \in CallRows /\ r2.pc = "refused" /\ RowSound(r2)
        BY <1>0, <1>7, <1>a DEF Refresh, CallRows, RowsSound, RowSound
      <3> HIDE DEF r2
      <3> QED BY <1>0, <2>1, <2>4, <3>1, SameSession DEF BrowserTypeOK
    <2>5. \/ call' = Settled(c, "failed")
          \/ o \in open /\ call' = [call EXCEPT ![c] = r1]
          \/ call' = [call EXCEPT ![c] = r2]
      BY <1>7 DEF Refresh, Refreshed
    <2> QED BY <2>2, <2>3, <2>4, <2>5
  <1>8. ASSUME NEW c \in Slots, Refused(c) PROVE BrowserInv'
    <2>1. /\ Set(TabOf[c], NoSession) /\ open' = open
          /\ call' = Overtaken(TabOf[c], "left", Settled(c, "failed"))
      BY <1>8 DEF Refused
    <2>2. /\ Settled(c, "failed") \in [Slots -> CallRows]
          /\ \A d \in Slots : \/ Settled(c, "failed")[d] = call[d]
                             \/ /\ Settled(c, "failed")[d].pc # "renewed"
                                /\ RowSound(Settled(c, "failed")[d])
      BY <1>0, SettledTyped
    <2>3. /\ NoSession \in Stores /\ OneSession(NoSession) /\ NoSession.user = None
          /\ TabOf[c] \in Tabs /\ open' \subseteq Users
      BY <1>0, <1>a, <2>1, StoresTyped DEF BrowserTypeOK, NoSession
    <2> QED BY <2>1, <2>2, <2>3, NewSession
  <1>9. ASSUME NEW c \in Slots, Renewed(c) PROVE BrowserInv'
    <2> DEFINE t == TabOf[c]
               m == IF call[c].late = "no" THEN store[t].mixed ELSE call[c].late
               s == [store[t] EXCEPT !.owner = call[c].as, !.fresh = TRUE, !.mixed = m]
               r == [call[c] EXCEPT !.pc = "sent", !.early = TRUE, !.again = TRUE, !.late = "no"]
    <2>0. m \in {"no", "callback", "other", "left"}
      BY <1>a DEF Stores, CallRows
    <2>1. s \in Stores /\ s.user = store[t].user /\ s.mixed = m /\ s.owner = call[c].as
      <3>1. store[t] \in Stores /\ call[c].as \in Users \cup {None}
        BY <1>a DEF CallRows
      <3> HIDE DEF m, t
      <3> QED BY <2>0, <3>1 DEF Stores
    <2>2. /\ OneSession(s)
          /\ store[t].mixed # "no" => s.mixed # "no"
      <3>1. OneSession(store[t]) /\ RenewalTrue(call[c], store[t]) /\ call[c].pc = "renewed"
        BY <1>0, <1>9, <1>a DEF StoresTrue, RenewalsTrue, Renewed
      <3>2. call[c].late \in {"no", "other", "left"}
        BY <1>a DEF CallRows
      <3> HIDE DEF s
      <3> QED BY <2>1, <3>1, <3>2 DEF RenewalTrue, OneSession
    <2>3. r \in CallRows /\ r.pc = "sent" /\ RowSound(r)
      BY <1>0, <1>9, <1>a DEF Renewed, CallRows, RowsSound, RowSound
    <2>4. /\ disk' = s /\ store' = [store EXCEPT ![t] = s] /\ open' = open
          /\ call' = [call EXCEPT ![c] = r]
      BY <1>9 DEF Renewed, Set
    <2> HIDE DEF s, r
    <2>5. BrowserTypeOK' /\ StoresTrue'
      BY <1>0, <2>1, <2>2, <2>3, <2>4 DEF BrowserTypeOK, StoresTrue
    <2>6. RenewalsTrue'
      <3>1. ASSUME NEW d \in Slots, call'[d].pc = "renewed"
            PROVE  /\ call'[d] = call[d]
                   /\ store'[TabOf[d]].user = store[TabOf[d]].user
                   /\ store[TabOf[d]].mixed # "no" => store'[TabOf[d]].mixed # "no"
        BY <1>0, <1>a, <2>1, <2>2, <2>3, <2>4, <3>1 DEF BrowserTypeOK
      <3> QED BY <1>0, <3>1 DEF RenewalsTrue, RenewalTrue
    <2>7. RowsSound'
      BY <1>0, <2>3, <2>4 DEF RowsSound, RowSound, BrowserTypeOK
    <2> QED BY <2>5, <2>6, <2>7 DEF BrowserInv
  <1>10. ASSUME NEW c \in Slots, FinishLogout(c) \/ FinishLogin(c) \/ FinishMe(c)
         PROVE  BrowserInv'
    <2> DEFINE calls == [call EXCEPT ![c] = NoCall]
    <2>1. /\ calls \in [Slots -> CallRows]
          /\ \A d \in Slots : calls[d] = call[d] \/ (calls[d].pc # "renewed" /\ RowSound(calls[d]))
      BY <1>0, StoresTyped DEF BrowserTypeOK, NoCall
    <2> DEFINE Fits(s, how) == /\ OneSession(s) /\ Set(TabOf[c], s)
                               /\ how = "other" => s.user # None
                               /\ how = "left" => s.user = None
                               /\ call' = Overtaken(TabOf[c], how, calls)
    <2>2. \E s \in Stores, how \in {"other", "left"} : Fits(s, how)
      <3>1. CASE FinishLogout(c)
        <4>1. Fits(NoSession, "left")
          BY <3>1, StoresTyped DEF FinishLogout, NoSession
        <4> QED BY <4>1, StoresTyped
      <3>2. CASE FinishLogin(c)
        <4>1. call[c].who \in Users
          BY <1>0, <3>2 DEF FinishLogin, RowsSound, RowSound
        <4>2. Fits(Session(call[c].who, TRUE), "other")
          BY <3>2, <4>1, StoresTyped, BrowserType DEF FinishLogin, Session
        <4> QED BY <4>1, <4>2, StoresTyped
      <3>3. CASE FinishMe(c)
        <4> DEFINE r == [Session(call[c].who, ~call[c].again) EXCEPT !.user = call[c].as,
                           !.mixed = IF call[c].as = call[c].who THEN "no" ELSE "callback"]
        <4>1. r \in Stores /\ OneSession(r) /\ r.user = call[c].as
          BY <1>a DEF Session, Stores, CallRows, OneSession
        <4>2. CASE call[c].pc = "ok"
          <5>1. call[c].as # None
            BY <1>0, <3>3, <4>2 DEF FinishMe, RowsSound, RowSound
          <5>2. Fits(r, "other")
            BY <3>3, <4>1, <4>2, <5>1 DEF FinishMe
          <5> QED BY <4>1, <5>2
        <4>3. CASE call[c].pc # "ok"
          <5>1. Fits(NoSession, "left")
            BY <3>3, <4>3, StoresTyped DEF FinishMe, NoSession
          <5> QED BY <5>1, StoresTyped
        <4> QED BY <4>2, <4>3
      <3> QED BY <1>10, <3>1, <3>2, <3>3
    <2>3. open' = open
      BY <1>10 DEF FinishLogout, FinishLogin, FinishMe
    <2> HIDE DEF calls
    <2>4. PICK s \in Stores, how \in {"other", "left"} : Fits(s, how)
      BY <2>2
    <2> HIDE DEF calls
    <2> QED BY <1>0, <1>a, <2>1, <2>3, <2>4, NewSession DEF BrowserTypeOK
  <1>11. ASSUME NEW c \in Slots, FinishOther(c) PROVE BrowserInv'
    <2>1. NoCall.pc = "idle" /\ open' = open /\ store' = store /\ disk' = disk
      BY <1>11 DEF FinishOther, NoCall
    <2>2. call' = [call EXCEPT ![c] = NoCall]
      BY <1>11 DEF FinishOther
    <2> QED BY <1>0, <2>1, <2>2, StoresTyped, SameSession DEF BrowserTypeOK
  <1>12. ASSUME NEW t \in Tabs, AccessExpires(t) PROVE BrowserInv'
    <2>1. /\ store' = [store EXCEPT ![t] = [store[t] EXCEPT !.fresh = FALSE]]
          /\ open' = open /\ disk' = disk /\ call' = call
      BY <1>12 DEF AccessExpires
    <2>2. \A u \in Tabs : /\ store'[u] \in Stores /\ store'[u].user = store[u].user
                          /\ store'[u].owner = store[u].owner /\ store'[u].mixed = store[u].mixed
      BY <1>0, <2>1 DEF BrowserTypeOK, Stores
    <2>3. BrowserTypeOK' /\ StoresTrue'
      BY <1>0, <2>1, <2>2 DEF BrowserTypeOK, StoresTrue, OneSession
    <2>4. RenewalsTrue'
      BY <1>0, <1>a, <2>1, <2>2 DEF RenewalsTrue, RenewalTrue
    <2>5. RowsSound'
      BY <1>0, <2>1 DEF RowsSound
    <2> QED BY <2>3, <2>4, <2>5 DEF BrowserInv
  <1>13. ASSUME NEW u \in Users, ClosedElsewhere(u) PROVE BrowserInv'
    BY <1>0, <1>13, SameSession DEF ClosedElsewhere, BrowserTypeOK
  <1>14. CASE UNCHANGED bvars
    BY <1>14 DEF bvars, BrowserInv, BrowserTypeOK, StoresTrue, RenewalsTrue, RenewalTrue, RowsSound, RowSound
  <1> QED BY <1>1, <1>2, <1>3, <1>4, <1>5, <1>6, <1>7, <1>8, <1>9, <1>10, <1>11, <1>12, <1>13,
             <1>14 DEF BrowserNext, CallStep

LEMMA BrowserInvariant == BrowserSpec => []BrowserInv
  BY BrowserInitInv, BrowserStep, PTL DEF BrowserSpec

\* The store, its copy and the calls stay within their types.
THEOREM BrowserTyped == BrowserSpec => []BrowserTypeOK
  <1>1. BrowserInv => BrowserTypeOK
    BY DEF BrowserInv
  <1> QED BY BrowserInvariant, <1>1, PTL

\* However renewals, sign-ins, sign-outs, callbacks and page loads of any number of tabs
\* cross, a store holds the tokens of the user it shows, but for tokens of a callback and
\* for renewals overtaken by another user's coming, or, in a store that shows nobody, by
\* the clearing of the session.
THEOREM StoreAlwaysOneSession == BrowserSpec => []StoreIsOneSession
  <1>1. BrowserInv => StoreIsOneSession
    BY DEF BrowserInv, StoresTrue, OneSession, StoreIsOneSession
  <1> QED BY BrowserInvariant, <1>1, PTL

-----------------------------------------------------------------------------
(* Requests under way, never more than n of them; and the pages of a table. *)

\* What is done to each of them leaves no more of them.
LEMMA Images ==
    ASSUME NEW n \in Nat, NEW S, IsFiniteSet(S), Cardinality(S) <= n,
           NEW T, NEW f \in [S -> T], T = {f[x] : x \in S}
    PROVE  IsFiniteSet(T) /\ Cardinality(T) <= n
  <1>1. f \in Surjection(S, T)
    BY DEF Surjection
  <1>2. IsFiniteSet(T) /\ Cardinality(T) <= Cardinality(S)
    BY <1>1, FS_Surjection
  <1>3. Cardinality(T) \in Nat /\ Cardinality(S) \in Nat
    BY <1>2, FS_CardinalityType
  <1> QED BY <1>2, <1>3

\* One more is sent.
LEMMA OneMore ==
    ASSUME NEW n \in Nat, NEW S, IsFiniteSet(S), Cardinality(S) < n, NEW r
    PROVE  IsFiniteSet(S \cup {r}) /\ Cardinality(S \cup {r}) <= n
  <1>1. /\ IsFiniteSet(S \cup {r})
        /\ Cardinality(S \cup {r}) \in {Cardinality(S), Cardinality(S) + 1}
    BY FS_AddElement
  <1>2. Cardinality(S) \in Nat
    BY FS_CardinalityType
  <1> QED BY <1>1, <1>2

\* One is answered, or replaced by what it has become.
LEMMA OneFewer ==
    ASSUME NEW n \in Nat, NEW S, IsFiniteSet(S), Cardinality(S) <= n, NEW q \in S
    PROVE  /\ IsFiniteSet(S \ {q}) /\ Cardinality(S \ {q}) <= n
           /\ \A r : IsFiniteSet((S \ {q}) \cup {r}) /\ Cardinality((S \ {q}) \cup {r}) <= n
  <1>1. IsFiniteSet(S \ {q}) /\ Cardinality(S \ {q}) = Cardinality(S) - 1
    BY FS_RemoveElement
  <1>2. Cardinality(S) \in Nat
    BY FS_CardinalityType
  <1>3. Cardinality(S \ {q}) < n
    BY <1>1, <1>2
  <1>4. \A r : IsFiniteSet((S \ {q}) \cup {r}) /\ Cardinality((S \ {q}) \cup {r}) <= n
    BY <1>1, <1>3, OneMore
  <1> QED BY <1>1, <1>2, <1>4

\* More rows never need fewer pages.
LEMMA Division ==
    ASSUME NEW p \in Nat \ {0}, NEW a \in Nat, NEW b \in Nat, a <= b
    PROVE  /\ a \div p \in Nat /\ b \div p \in Nat /\ a \div p <= b \div p
           /\ p <= b => 1 <= b \div p
  <1> DEFINE x == a \div p
             y == b \div p
  <1>1. x \in Nat /\ y \in Nat
    BY SMT
  <1>2. p * x <= a
    BY SMT
  <1>3. b < p * y + p
    BY SMT
  <1> HIDE DEF x, y
  <1>4. p * x \in Nat /\ p * y \in Nat
    BY <1>1
  <1>5. ASSUME y + 1 <= x PROVE FALSE
    <2>1. p * (y + 1) = p * y + p
      BY <1>1
    <2>2. p * (y + 1) <= p * x
      BY <1>1, <1>5
    <2> QED BY <1>2, <1>3, <1>4, <2>1, <2>2
  <1>6. x <= y
    BY <1>1, <1>5
  <1>7. p <= b => 1 <= y
    BY <1>1, <1>3
  <1> QED BY <1>1, <1>6, <1>7 DEF x, y

-----------------------------------------------------------------------------
(* The tables of the staff.                                                *)

DialogNamed == dialog.kind \in {"edit", "delete"} => dialog.item # None
LoadGot     == load.pc = "read" => load.got \in Tables
PanelsShape == PanelsTypeOK /\ IsFiniteSet(saves) /\ DialogNamed /\ LoadGot

\* A change that has been made and whose answer is not there yet.
Unsaved == \E q \in saves : q.done

\* The list is right, or something is under way that will tell it.
ListTrue ==
    rows # None => rows = record \/ dubious \/ overdue \/ load.pc # "idle" \/ Unsaved

\* The list that is on its way is right, unless it is known to be off.
LoadTrue == load.pc = "read" => load.off \/ load.got = record \/ Unsaved

\* An invalidated list that is shown is being fetched.
OverdueLoads == mounted /\ load.pc = "idle" /\ overdue => dubious

\* The page exists, even when nobody looks at it.
TurnTrue == (turn < PageCount \/ shrunk) /\ (~mounted => turn = 0)

ListTold  == ListTrue /\ LoadTrue /\ OverdueLoads
PanelsInv == PanelsShape /\ ListTold /\ TurnTrue

\* The pages that a set of rows takes.
PagesOf(R) == IF R = {} THEN 1 ELSE (Cardinality(R) + PageSize - 1) \div PageSize

\* A list that has not become shorter has as many pages.
LEMMA PagesGrow ==
    ASSUME NEW R \in SUBSET Items, NEW S \in SUBSET Items, Cardinality(R) <= Cardinality(S)
    PROVE  PagesOf(R) \in Nat /\ 1 <= PagesOf(R) /\ PagesOf(S) \in Nat /\ PagesOf(R) <= PagesOf(S)
  <1>1. /\ IsFiniteSet(R) /\ IsFiniteSet(S)
        /\ Cardinality(R) \in Nat /\ Cardinality(S) \in Nat
    BY PanelsType, FS_Subset, FS_CardinalityType
  <1>2. (R = {} <=> Cardinality(R) = 0) /\ (S = {} <=> Cardinality(S) = 0)
    BY <1>1, FS_EmptySet
  <1> DEFINE a == Cardinality(R) + PageSize - 1
             b == Cardinality(S) + PageSize - 1
  <1>3. PageSize \in Nat \ {0}
    BY PanelsType
  <1>4. /\ R # {} => a \in Nat /\ PageSize <= a /\ a <= b
        /\ S # {} => b \in Nat /\ PageSize <= b
        /\ a <= a /\ b <= b
    BY <1>1, <1>2, <1>3
  <1>5. /\ R # {} => PagesOf(R) = a \div PageSize
        /\ S # {} => PagesOf(S) = b \div PageSize
        /\ R = {} => PagesOf(R) = 1
        /\ S = {} => PagesOf(S) = 1
        /\ S = {} => R = {}
    BY <1>1, <1>2 DEF PagesOf
  <1> HIDE DEF a, b
  <1>6. R # {} => a \div PageSize \in Nat /\ 1 <= a \div PageSize
    BY <1>3, <1>4, Division
  <1>7. S # {} => b \div PageSize \in Nat /\ 1 <= b \div PageSize
    BY <1>3, <1>4, Division
  <1>8. R # {} => a \div PageSize <= b \div PageSize
    BY <1>3, <1>4, <1>5, Division
  <1> QED BY <1>5, <1>6, <1>7, <1>8

LEMMA RowsTyped ==
    PanelsTypeOK => Rows \in SUBSET Items /\ PageCount = PagesOf(Rows)
  BY DEF Rows, Existing, PageCount, PagesOf

LEMMA LoadTyped ==
    NoLoad \in Loads /\ Loading \in Loads /\ NoLoad.pc = "idle" /\ Loading.pc = "asked"
  BY DEF NoLoad, Loading, Loads

LEMMA PanelsShapeStep == PanelsShape /\ [PanelsNext]_tvars => PanelsShape'
  <1> SUFFICES ASSUME PanelsShape, [PanelsNext]_tvars PROVE PanelsShape'
    OBVIOUS
  <1>0. PanelsTypeOK /\ IsFiniteSet(saves) /\ DialogNamed /\ LoadGot
    BY DEF PanelsShape
  <1>a. NoDialog \in Dialogs /\ NoDialog.kind = "none" /\ 0 \in 0..Cardinality(Items)
    BY PanelsType, FS_CardinalityType DEF NoDialog, Dialogs
  <1>b. /\ \A off \in BOOLEAN : [load EXCEPT !.off = off] \in Loads
        /\ load.off \in BOOLEAN /\ load = [load EXCEPT !.off = load.off]
    BY <1>0 DEF PanelsTypeOK, Loads
  \* A request is sent.
  <1>c. ASSUME NEW op \in {"create", "amend", "delete"}, NEW i \in Items,
               NEW v \in Values \cup {None}, Save(op, i, v)
        PROVE  PanelsShape'
    <2> DEFINE q == [op |-> op, item |-> i, value |-> v, done |-> FALSE, kept |-> TRUE]
    <2>1. q \in SaveRows
      BY DEF SaveRows
    <2>2. /\ Cardinality(saves) < MaxSaves /\ saves' = saves \cup {q}
          /\ UNCHANGED <<table, record, rows, load, overdue, mounted, turn, dialog, dubious, shrunk>>
      BY <1>c DEF Save
    <2> HIDE DEF q
    <2>3. IsFiniteSet(saves') /\ Cardinality(saves') <= MaxSaves
      BY <1>0, <2>2, OneMore, PanelsType
    <2> QED BY <1>0, <2>1, <2>2, <2>3 DEF PanelsShape, PanelsTypeOK, DialogNamed, LoadGot
  <1>1. ASSUME NEW old \in BOOLEAN, Mount(old) PROVE PanelsShape'
    BY <1>0, <1>1, <1>a, LoadTyped DEF Mount, PanelsShape, PanelsTypeOK, DialogNamed, LoadGot
  <1>2. CASE Unmount
    <2> DEFINE f == [q \in saves |-> [q EXCEPT !.kept = FALSE]]
    <2>1. saves' = {f[q] : q \in saves} /\ f \in [saves -> saves'] /\ saves' \subseteq SaveRows
      BY <1>0, <1>2 DEF Unmount, PanelsTypeOK, SaveRows
    <2> HIDE DEF f
    <2>2. IsFiniteSet(saves') /\ Cardinality(saves') <= MaxSaves
      BY <1>0, <2>1, Images, PanelsType DEF PanelsTypeOK
    <2> QED BY <1>0, <1>2, <1>a, <2>1, <2>2
            DEF Unmount, PanelsShape, PanelsTypeOK, DialogNamed, LoadGot
  <1>3. CASE Sort
    BY <1>0, <1>3, <1>a DEF Sort, PanelsShape, PanelsTypeOK, DialogNamed, LoadGot
  <1>4. ASSUME NEW n \in 0..Cardinality(Items), Turn(n) PROVE PanelsShape'
    BY <1>0, <1>4 DEF Turn, PanelsShape, PanelsTypeOK, DialogNamed, LoadGot
  <1>5. ASSUME NEW kind \in {"create", "edit", "delete"}, NEW i \in Items \cup {None}, Open(kind, i)
        PROVE  PanelsShape'
    <2> DEFINE d == [kind |-> kind, item |-> i]
    <2>1. d \in Dialogs /\ d.kind = kind /\ d.item = i
      BY DEF Dialogs
    <2>2. /\ dialog' = d
          /\ UNCHANGED <<table, record, rows, load, overdue, mounted, turn, saves, dubious, shrunk>>
      BY <1>5 DEF Open
    <2> HIDE DEF d
    <2>3. kind # "create" => i # None
      BY <1>0, <1>5, RowsTyped, PanelsType DEF Open, Clickable
    <2> QED BY <1>0, <2>1, <2>2, <2>3 DEF PanelsShape, PanelsTypeOK, DialogNamed, LoadGot
  <1>6. CASE Close
    BY <1>0, <1>6, <1>a DEF Close, PanelsShape, PanelsTypeOK, DialogNamed, LoadGot
  <1>7. ASSUME NEW i \in Items, NEW v \in Values, SubmitNew(i, v) \/ ChooseStatus(i, v)
        PROVE  PanelsShape'
    BY <1>7, <1>c DEF SubmitNew, ChooseStatus
  <1>8. dialog.kind \in {"edit", "delete"} => dialog.item \in Items
    BY <1>0 DEF DialogNamed, PanelsTypeOK, Dialogs
  <1>9. ASSUME NEW v \in Values \cup {None}, SubmitName(v) PROVE PanelsShape'
    BY <1>8, <1>9, <1>c DEF SubmitName
  <1>10. CASE ConfirmDelete
    BY <1>8, <1>10, <1>c DEF ConfirmDelete
  <1>11. ASSUME NEW q \in saves, SaveCommits(q) PROVE PanelsShape'
    <2> DEFINE r == [q EXCEPT !.done = TRUE]
    <2>1. q \in SaveRows /\ r \in SaveRows
      BY <1>0 DEF PanelsTypeOK, SaveRows
    <2>2. /\ record' = [record EXCEPT ![q.item] = q.value] /\ saves' = (saves \ {q}) \cup {r}
          /\ UNCHANGED <<table, rows, load, overdue, mounted, turn, dialog, dubious, shrunk>>
      BY <1>11 DEF SaveCommits
    <2> HIDE DEF r
    <2>3. IsFiniteSet(saves') /\ Cardinality(saves') <= MaxSaves
      BY <1>0, <2>2, OneFewer, PanelsType DEF PanelsTypeOK
    <2>4. record' \in Tables
      BY <1>0, <2>1, <2>2 DEF PanelsTypeOK, Tables, SaveRows
    <2> QED BY <1>0, <2>1, <2>2, <2>3, <2>4 DEF PanelsShape, PanelsTypeOK, DialogNamed, LoadGot
  <1>12. ASSUME NEW q \in saves, SaveRefused(q) \/ SaveAnswered(q) \/ SaveLost(q)
         PROVE  PanelsShape'
    <2>1. saves' = saves \ {q} /\ UNCHANGED <<table, record, rows, mounted, turn, shrunk>>
      BY <1>12 DEF SaveRefused, SaveAnswered, SaveLost
    <2>2. IsFiniteSet(saves') /\ Cardinality(saves') <= MaxSaves /\ saves' \subseteq SaveRows
      BY <1>0, <2>1, OneFewer, PanelsType DEF PanelsTypeOK
    <2>3. dialog' = dialog \/ dialog' = NoDialog
      BY <1>12 DEF SaveRefused, SaveAnswered, SaveLost
    <2>4. overdue' \in BOOLEAN /\ dubious' \in BOOLEAN
      BY <1>0, <1>12 DEF SaveRefused, SaveAnswered, SaveLost, Doubtful, PanelsTypeOK
    <2>5. load' \in Loads /\ LoadGot'
      <3>1. CASE load' = Loading
        BY <3>1, LoadTyped DEF LoadGot
      <3>2. CASE \E off \in BOOLEAN : load' = [load EXCEPT !.off = off]
        BY <1>0, <1>b, <3>2 DEF LoadGot, PanelsTypeOK, Loads
      <3> QED BY <1>0, <1>12, <1>b, <3>1, <3>2 DEF SaveRefused, SaveAnswered, SaveLost, Doubtful
    <2> QED BY <1>0, <1>a, <2>1, <2>2, <2>3, <2>4, <2>5 DEF PanelsShape, PanelsTypeOK, DialogNamed
  <1>13. ASSUME NEW i \in Items, NEW v \in Values \cup {None}, ChangedElsewhere(i, v)
         PROVE  PanelsShape'
    <2>1. load' \in Loads /\ LoadGot' /\ dubious' \in BOOLEAN
      BY <1>0, <1>13, <1>b DEF ChangedElsewhere, Doubtful, LoadGot, PanelsTypeOK, Loads
    <2> QED BY <1>0, <1>13, <2>1
            DEF ChangedElsewhere, PanelsShape, PanelsTypeOK, DialogNamed, Tables
  <1>14. CASE LoadAgain
    BY <1>0, <1>14, LoadTyped DEF LoadAgain, PanelsShape, PanelsTypeOK, DialogNamed, LoadGot
  <1>15. CASE LoadServed
    BY <1>0, <1>15 DEF LoadServed, PanelsShape, PanelsTypeOK, DialogNamed, LoadGot, Loads
  <1>16. CASE LoadComes \/ LoadFails
    BY <1>0, <1>16, <1>b, LoadTyped
    DEF LoadComes, LoadFails, PanelsShape, PanelsTypeOK, DialogNamed, LoadGot
  <1>17. CASE UNCHANGED tvars
    BY <1>0, <1>17 DEF tvars, PanelsShape, PanelsTypeOK, DialogNamed, LoadGot
  <1> QED BY <1>1, <1>2, <1>3, <1>4, <1>5, <1>6, <1>7, <1>9, <1>10, <1>11, <1>12, <1>13, <1>14,
             <1>15, <1>16, <1>17 DEF PanelsNext, SubmitNewZone, SubmitNewSpot

LEMMA ListStep == PanelsInv /\ [PanelsNext]_tvars => ListTold'
  <1> SUFFICES ASSUME PanelsInv, [PanelsNext]_tvars PROVE ListTold'
    OBVIOUS
  <1>0. PanelsShape /\ PanelsTypeOK /\ ListTold /\ ListTrue /\ LoadTrue /\ OverdueLoads
    BY DEF PanelsInv, PanelsShape, ListTold
  <1>l. load \in Loads /\ record \in Tables
    BY <1>0 DEF PanelsTypeOK
  <1>k. ASSUME UNCHANGED <<record, rows, load, overdue, dubious>>, Unsaved => Unsaved',
               mounted' => mounted
        PROVE  ListTold'
    BY <1>0, <1>k DEF ListTold, ListTrue, LoadTrue, OverdueLoads
  \* The fetch starts anew.
  <1>f. ASSUME load' = Loading, overdue' = FALSE PROVE ListTold'
    BY <1>f, LoadTyped DEF ListTold, ListTrue, LoadTrue, OverdueLoads
  <1>1. ASSUME NEW old \in BOOLEAN, Mount(old) PROVE ListTold'
    <2>1. CASE UNCHANGED <<load, overdue>> /\ (load.pc # "idle" \/ ~overdue)
      BY <1>0, <1>1, <2>1 DEF Mount, ListTold, ListTrue, LoadTrue, OverdueLoads, Unsaved
    <2> QED BY <1>0, <1>1, <1>f, <2>1 DEF Mount, PanelsTypeOK
  <1>2. CASE Unmount
    <2>1. Unsaved => Unsaved'
      <3> SUFFICES ASSUME NEW q \in saves, q.done PROVE Unsaved'
        BY DEF Unsaved
      <3>1. [q EXCEPT !.kept = FALSE].done
        BY <1>0 DEF PanelsTypeOK, SaveRows
      <3> QED BY <1>2, <3>1 DEF Unmount, Unsaved
    <2> QED BY <1>2, <1>k, <2>1 DEF Unmount
  <1>3. CASE Sort \/ Close \/ ConfirmDelete
    BY <1>3, <1>k DEF Sort, Close, ConfirmDelete, Save, Unsaved
  <1>4. ASSUME NEW n \in 0..Cardinality(Items), Turn(n) PROVE ListTold'
    BY <1>4, <1>k DEF Turn, Unsaved
  <1>5. ASSUME NEW kind, NEW i, Open(kind, i) PROVE ListTold'
    BY <1>5, <1>k DEF Open, Unsaved
  <1>6. ASSUME NEW i, NEW v, SubmitNew(i, v) \/ ChooseStatus(i, v) \/ SubmitName(v)
        PROVE  ListTold'
    BY <1>6, <1>k DEF SubmitNew, ChooseStatus, SubmitName, Save, Unsaved
  \* What has been saved, an answer will tell.
  <1>7. ASSUME NEW q \in saves, SaveCommits(q) PROVE ListTold'
    <2>1. [q EXCEPT !.done = TRUE].done
      BY <1>0 DEF PanelsTypeOK, SaveRows
    <2>2. Unsaved' /\ UNCHANGED <<rows, load, overdue, mounted, dubious>>
      BY <1>7, <2>1 DEF SaveCommits, Unsaved
    <2> QED BY <1>0, <2>2 DEF ListTold, ListTrue, LoadTrue, OverdueLoads
  <1>8. ASSUME NEW q \in saves, SaveRefused(q) PROVE ListTold'
    BY <1>8, <1>k DEF SaveRefused, Unsaved
  <1>9. ASSUME NEW q \in saves, SaveAnswered(q) PROVE ListTold'
    <2>1. CASE mounted /\ (rows # None \/ load.pc = "idle")
      BY <1>9, <1>f, <2>1 DEF SaveAnswered
    <2>2. CASE ~(mounted /\ (rows # None \/ load.pc = "idle"))
      <3>1. /\ load' = [load EXCEPT !.off = @ \/ load.pc = "read"]
            /\ overdue' = (overdue \/ (~mounted /\ (rows # None \/ load.pc # "idle")))
            /\ UNCHANGED <<record, rows, mounted, dubious>>
        BY <1>9, <2>2 DEF SaveAnswered
      <3>2. load'.pc = load.pc /\ (load'.pc = "read" => load'.off)
        BY <1>l, <3>1 DEF Loads
      <3> QED BY <1>0, <2>2, <3>1, <3>2 DEF ListTold, ListTrue, LoadTrue, OverdueLoads
    <2> QED BY <2>1, <2>2
  \* Something the browser is not told of: the history says so.
  <1>d. ASSUME UNCHANGED <<rows, overdue, mounted>>, NEW yes \in BOOLEAN, Doubtful(yes),
               yes \/ (record' = record /\ (Unsaved => Unsaved'))
        PROVE  ListTold'
    <2>1. /\ load'.pc = load.pc /\ load'.got = load.got /\ (load.off => load'.off)
          /\ yes /\ load.pc = "read" => load'.off
          /\ dubious => dubious'
          /\ yes => dubious'
      BY <1>d, <1>l DEF Doubtful, Loads
    <2> QED BY <1>0, <1>d, <2>1 DEF ListTold, ListTrue, LoadTrue, OverdueLoads
  <1>10. ASSUME NEW q \in saves, SaveLost(q) PROVE ListTold'
    <2>1. q.done \in BOOLEAN
      BY <1>0 DEF PanelsTypeOK, SaveRows
    <2> QED BY <1>10, <1>d, <2>1 DEF SaveLost, Unsaved
  <1>11. ASSUME NEW i \in Items, NEW v, ChangedElsewhere(i, v) PROVE ListTold'
    BY <1>11, <1>d DEF ChangedElsewhere
  <1>12. CASE LoadAgain
    BY <1>12, <1>f DEF LoadAgain
  <1>13. CASE LoadServed
    BY <1>0, <1>13, <1>l DEF LoadServed, Loads, ListTold, ListTrue, LoadTrue, OverdueLoads
  <1>14. CASE LoadComes
    BY <1>0, <1>14, LoadTyped DEF LoadComes, ListTold, ListTrue, LoadTrue, OverdueLoads, Unsaved
  <1>15. CASE LoadFails
    BY <1>15, LoadTyped DEF LoadFails, ListTold, ListTrue, LoadTrue, OverdueLoads
  <1>16. CASE UNCHANGED tvars
    BY <1>16, <1>k DEF tvars, Unsaved
  <1> QED BY <1>1, <1>2, <1>3, <1>4, <1>5, <1>6, <1>7, <1>8, <1>9, <1>10, <1>11, <1>12, <1>13,
             <1>14, <1>15, <1>16 DEF PanelsNext, SubmitNewZone, SubmitNewSpot

LEMMA TurnStep == PanelsInv /\ [PanelsNext]_tvars => TurnTrue'
  <1> SUFFICES ASSUME PanelsInv, [PanelsNext]_tvars PROVE TurnTrue'
    OBVIOUS
  <1>0. PanelsTypeOK /\ LoadGot /\ TurnTrue /\ Rows \in SUBSET Items /\ PageCount = PagesOf(Rows)
    BY RowsTyped DEF PanelsInv, PanelsShape
  <1>1. PageCount \in Nat /\ 1 <= PageCount /\ turn \in Nat
    <2>1. Cardinality(Rows) <= Cardinality(Rows)
      BY <1>0, PanelsType, FS_Subset, FS_CardinalityType
    <2> QED BY <1>0, <2>1, PagesGrow DEF PanelsTypeOK
  <1>2. CASE UNCHANGED <<rows, turn, shrunk, mounted>>
    BY <1>0, <1>2 DEF TurnTrue, PageCount, Rows
  <1>3. CASE rows' = rows /\ turn' = 0
    <2>1. PageCount' = PageCount
      BY <1>3 DEF PageCount, Rows
    <2> QED BY <1>1, <1>3, <2>1 DEF TurnTrue
  <1>4. ASSUME NEW n \in 0..Cardinality(Items), Turn(n) PROVE TurnTrue'
    <2>1. PageCount' = PageCount /\ turn' = n /\ mounted' /\ n \in Nat
      BY <1>4, PanelsType, FS_CardinalityType DEF Turn, PageCount, Rows
    <2>2. CASE n < PageCount
      BY <2>1, <2>2 DEF TurnTrue
    <2>3. CASE n + 1 = turn /\ shrunk /\ n >= PageCount
      BY <1>4, <2>1, <2>3 DEF Turn, TurnTrue
    <2> QED BY <1>0, <1>1, <1>4, <2>1, <2>2, <2>3 DEF Turn, TurnTrue
  <1>5. CASE LoadComes
    <2>1. Rows' = Existing(load.got) /\ load.got \in Tables
      BY <1>0, <1>5, PanelsType DEF LoadComes, LoadGot, Rows, Tables
    <2>2. Rows' \in SUBSET Items /\ PageCount' = PagesOf(Rows')
      BY <2>1 DEF Existing, PageCount, PagesOf
    <2>3. Cardinality(Rows) \in Nat /\ Cardinality(Rows') \in Nat
      BY <1>0, <2>2, PanelsType, FS_Subset, FS_CardinalityType
    <2>4. shrunk' \/ (~shrunk /\ Cardinality(Rows) <= Cardinality(Rows'))
      <3>1. shrunk' <=> shrunk \/ Cardinality(Existing(load.got)) < Cardinality(Rows)
        BY <1>5 DEF LoadComes
      <3>2. ~(Cardinality(Existing(load.got)) < Cardinality(Rows))
               => Cardinality(Rows) <= Cardinality(Rows')
        BY <2>1, <2>3
      <3> QED BY <3>1, <3>2
    <2>5. UNCHANGED <<turn, mounted>>
      BY <1>5 DEF LoadComes
    <2>6. shrunk' \/ (~shrunk /\ PageCount' \in Nat /\ PageCount <= PageCount')
      BY <1>0, <2>2, <2>4, PagesGrow
    <2> QED BY <1>0, <1>1, <2>5, <2>6 DEF TurnTrue
  <1>6. \/ UNCHANGED <<rows, turn, shrunk, mounted>>
        \/ rows' = rows /\ turn' = 0
        \/ \E n \in 0..Cardinality(Items) : Turn(n)
        \/ LoadComes
    BY DEF PanelsNext, SubmitNewZone, SubmitNewSpot, SubmitNew, SubmitName, ChooseStatus,
       ConfirmDelete, Save, Mount, Unmount, Sort, Open, Close, SaveCommits, SaveRefused,
       SaveAnswered, SaveLost, ChangedElsewhere, LoadAgain, LoadServed, LoadFails, tvars
  <1> QED BY <1>2, <1>3, <1>4, <1>5, <1>6

LEMMA PanelsInvariant == PanelsSpec => []PanelsInv
  <1>1. PanelsInit => PanelsInv
    <2> SUFFICES ASSUME PanelsInit PROVE PanelsInv
      OBVIOUS
    <2>1. /\ IsFiniteSet(saves) /\ Cardinality(saves) <= MaxSaves /\ saves = {}
          /\ turn \in 0..Cardinality(Items)
      BY FS_EmptySet, FS_CardinalityType, PanelsType DEF PanelsInit
    <2>2. NoDialog \in Dialogs /\ NoDialog.kind = "none"
      BY DEF NoDialog, Dialogs
    <2>3. PanelsShape
      BY <2>1, <2>2, LoadTyped DEF PanelsInit, PanelsShape, PanelsTypeOK, DialogNamed, LoadGot
    <2>4. ListTold
      BY LoadTyped DEF PanelsInit, ListTold, ListTrue, LoadTrue, OverdueLoads
    <2>5. TurnTrue
      BY DEF PanelsInit, TurnTrue, PageCount, Rows
    <2> QED BY <2>3, <2>4, <2>5 DEF PanelsInv
  <1>2. PanelsInv /\ [PanelsNext]_tvars => PanelsInv'
    BY PanelsShapeStep, ListStep, TurnStep DEF PanelsInv
  <1> QED BY <1>1, <1>2, PTL DEF PanelsSpec

\* The list, its fetch, the dialogs and the requests stay within their types.
THEOREM PanelsTyped == PanelsSpec => []PanelsTypeOK
  <1>1. PanelsInv => PanelsTypeOK
    BY DEF PanelsInv, PanelsShape
  <1> QED BY PanelsInvariant, <1>1, PTL

\* However many saves cross, however often the panel goes away: once every answer is there
\* the table has the rows of the database, and its page has rows, but for the named exceptions.
THEOREM TableAlwaysTrue == PanelsSpec => []TableTrue
  <1>1. PanelsInv => TableTrue
    BY DEF PanelsInv, ListTold, ListTrue, OverdueLoads, Unsaved, TurnTrue, TableTrue, PanelsQuiet
  <1> QED BY PanelsInvariant, <1>1, PTL

-----------------------------------------------------------------------------
(* The pages of a citizen.                                                 *)

LookupNamed == lookup.pc # "idle" => lookup.by # None
SentNamed   == \A q \in outgoing : q.op # "checkOut" => q.what # None
PagesShape  == PagesTypeOK /\ IsFiniteSet(outgoing) /\ LookupNamed /\ SentNamed

\* A change of the visitor that has been made and whose answer is not there yet.
Unanswered == \E q \in outgoing : q.done /\ q.by = visitor

\* The cache is right, or something is under way that will tell it.
CacheTrue ==
    visitor # None /\ seen # None =>
        \/ seen = owns[visitor] \/ doubt \/ expired
        \/ lookup.pc # "idle" \/ Unanswered

\* The answer that is on its way is the visitor's, and right, unless it is known to be off.
LookupTrue ==
    visitor # None /\ lookup.pc # "idle" =>
        \/ lookup.off
        \/ /\ lookup.by = visitor
           /\ lookup.pc = "read" => lookup.found = owns[visitor] \/ Unanswered

\* An invalidated cache that is watched is being fetched.
ExpiredFetched == Watches(visitor, at) /\ lookup.pc = "idle" /\ expired => doubt

Told     == CacheTrue /\ LookupTrue /\ ExpiredFetched
PagesInv == PagesShape /\ Told

LEMMA LookupTyped ==
    /\ NoLookup \in Lookups /\ NoLookup.pc = "idle"
    /\ \A u \in Citizens :
          /\ LookupOf(u) \in Lookups /\ LookupOf(u).pc = "asked"
          /\ LookupOf(u).by = u /\ u # None
  BY CitizensType DEF NoLookup, LookupOf, Lookups

\* The requests stay, and only the pages that wait for them change.
LEMMA KeptTyped ==
    ASSUME PagesShape, NEW f \in [outgoing -> SentRows],
           \A q \in outgoing : /\ f[q].op = q.op /\ f[q].what = q.what
                               /\ f[q].by = q.by /\ f[q].done = q.done,
           NEW R, R = {f[q] : q \in outgoing}
    PROVE  /\ R \subseteq SentRows /\ IsFiniteSet(R) /\ Cardinality(R) <= MaxSent
           /\ \A q \in R : q.op # "checkOut" => q.what # None
           /\ \A u : (\E q \in outgoing : q.done /\ q.by = u) => \E q \in R : q.done /\ q.by = u
  <1>1. R \subseteq SentRows /\ f \in [outgoing -> R]
    OBVIOUS
  <1>2. IsFiniteSet(outgoing) /\ Cardinality(outgoing) <= MaxSent
    BY DEF PagesShape, PagesTypeOK
  <1>3. IsFiniteSet(R) /\ Cardinality(R) <= MaxSent
    BY <1>1, <1>2, Images, CitizensType
  <1>4. \A q \in R : q.op # "checkOut" => q.what # None
    BY DEF PagesShape, SentNamed
  <1>5. \A u : (\E q \in outgoing : q.done /\ q.by = u) => \E q \in R : q.done /\ q.by = u
    OBVIOUS
  <1> QED BY <1>1, <1>3, <1>4, <1>5

\* A page is left.
LEMMA AbandonedTyped ==
    ASSUME PagesShape
    PROVE  /\ Abandoned \subseteq SentRows /\ IsFiniteSet(Abandoned)
           /\ Cardinality(Abandoned) <= MaxSent
           /\ \A q \in Abandoned : q.op # "checkOut" => q.what # None
           /\ \A u : (\E q \in outgoing : q.done /\ q.by = u) =>
                        \E q \in Abandoned : q.done /\ q.by = u
  <1> DEFINE f == [q \in outgoing |-> [q EXCEPT !.kept = "gone"]]
  <1>1. \A q \in outgoing : /\ f[q] \in SentRows /\ f[q].op = q.op /\ f[q].what = q.what
                            /\ f[q].by = q.by /\ f[q].done = q.done
    BY DEF PagesShape, PagesTypeOK, SentRows
  <1>2. Abandoned = {f[q] : q \in outgoing} /\ f \in [outgoing -> SentRows]
    BY <1>1 DEF Abandoned
  <1> HIDE DEF f
  <1>3. \A R : R = {f[q] : q \in outgoing} =>
           /\ R \subseteq SentRows /\ IsFiniteSet(R) /\ Cardinality(R) <= MaxSent
           /\ \A q \in R : q.op # "checkOut" => q.what # None
           /\ \A u : (\E q \in outgoing : q.done /\ q.by = u) => \E q \in R : q.done /\ q.by = u
    BY <1>1, <1>2, KeptTyped
  <1> QED BY <1>2, <1>3

\* A form is closed, or another one opened.
LEMMA ClosedTyped ==
    ASSUME PagesShape, NEW R,
           R = {IF q.kept = "form" THEN [q EXCEPT !.kept = "page"] ELSE q : q \in outgoing}
    PROVE  /\ R \subseteq SentRows /\ IsFiniteSet(R) /\ Cardinality(R) <= MaxSent
           /\ \A q \in R : q.op # "checkOut" => q.what # None
           /\ \A u : (\E q \in outgoing : q.done /\ q.by = u) => \E q \in R : q.done /\ q.by = u
  <1> DEFINE f == [q \in outgoing |-> IF q.kept = "form" THEN [q EXCEPT !.kept = "page"] ELSE q]
  <1>1. \A q \in outgoing : /\ f[q] \in SentRows /\ f[q].op = q.op /\ f[q].what = q.what
                            /\ f[q].by = q.by /\ f[q].done = q.done
    <2> SUFFICES ASSUME NEW q \in outgoing
                 PROVE  /\ f[q] \in SentRows /\ f[q].op = q.op /\ f[q].what = q.what
                        /\ f[q].by = q.by /\ f[q].done = q.done
      OBVIOUS
    <2>1. q \in SentRows /\ f[q] = IF q.kept = "form" THEN [q EXCEPT !.kept = "page"] ELSE q
      BY DEF PagesShape, PagesTypeOK
    <2> HIDE DEF f
    <2> QED BY <2>1 DEF SentRows
  <1>2. R = {f[q] : q \in outgoing} /\ f \in [outgoing -> SentRows]
    BY <1>1
  <1> HIDE DEF f
  <1> QED BY <1>1, <1>2, KeptTyped

\* One request more.
LEMMA SendTyped ==
    ASSUME PagesShape, visitor \in Citizens,
           NEW op \in Buttons, NEW what \in Places \cup {None}, NEW kept \in {"form", "page"},
           op # "checkOut" => what # None, Send(op, what, kept)
    PROVE  PagesShape'
  <1> DEFINE r == [op |-> op, what |-> what, by |-> visitor, done |-> FALSE, kept |-> kept]
  <1>1. r \in SentRows /\ r.op = op /\ r.what = what
    BY DEF SentRows
  <1>2. /\ Cardinality(outgoing) < MaxSent /\ outgoing' = outgoing \cup {r}
        /\ UNCHANGED <<desk, owns, visitor, at, seen, lookup, expired, form, doubt>>
    BY DEF Send
  <1> HIDE DEF r
  <1>3. IsFiniteSet(outgoing') /\ Cardinality(outgoing') <= MaxSent
    BY <1>2, OneMore, CitizensType DEF PagesShape
  <1>4. outgoing' \subseteq SentRows /\ SentNamed'
    BY <1>1, <1>2 DEF PagesShape, PagesTypeOK, SentNamed
  <1> QED BY <1>2, <1>3, <1>4 DEF PagesShape, PagesTypeOK, LookupNamed

LEMMA PagesShapeStep == PagesShape /\ [PagesNext]_pvars => PagesShape'
  <1> SUFFICES ASSUME PagesShape, [PagesNext]_pvars PROVE PagesShape'
    OBVIOUS
  <1>0. PagesTypeOK /\ IsFiniteSet(outgoing) /\ LookupNamed /\ SentNamed
    BY DEF PagesShape
  <1>a. visitor # None => visitor \in Citizens
    BY <1>0 DEF PagesTypeOK
  <1>b. LookupOf(visitor) \in Lookups \/ visitor = None
    BY <1>a, LookupTyped
  <1>1. ASSUME NEW u \in Citizens, NEW old \in BOOLEAN, VisitorComes(u, old)
        PROVE  PagesShape'
    <2>1. CASE lookup' = LookupOf(u) /\ expired' = FALSE
      BY <1>0, <1>1, <2>1, LookupTyped
      DEF VisitorComes, PagesShape, PagesTypeOK, LookupNamed, SentNamed
    <2>2. CASE lookup' = [lookup EXCEPT !.off = @ \/ lookup.pc # "idle"] /\ UNCHANGED expired
      BY <1>0, <1>1, <2>2
      DEF VisitorComes, PagesShape, PagesTypeOK, Lookups, LookupNamed, SentNamed
    <2> QED BY <1>1, <2>1, <2>2 DEF VisitorComes
  <1>2. ASSUME NEW u \in Citizens, NEW new \in SUBSET Places, Elsewhere(u, new) PROVE PagesShape'
    BY <1>0, <1>2 DEF Elsewhere, Doubted, PagesShape, PagesTypeOK, Lookups, LookupNamed, SentNamed
  <1>3. ASSUME NEW to \in {"away", at}, VisitorGoes(to) PROVE PagesShape'
    BY <1>0, <1>3, AbandonedTyped DEF VisitorGoes, PagesShape, PagesTypeOK, LookupNamed, SentNamed
  <1>4. ASSUME NEW page \in {"zone", "own"}, NEW old \in BOOLEAN, Arrive(page, old)
        PROVE  PagesShape'
    BY <1>0, <1>4, <1>a, LookupTyped
    DEF Arrive, Watches, PagesShape, PagesTypeOK, LookupNamed, SentNamed
  <1>5. CASE Leave
    BY <1>0, <1>5, AbandonedTyped DEF Leave, PagesShape, PagesTypeOK, LookupNamed, SentNamed
  <1>6. CASE CheckOut
    BY <1>6, <1>a, SendTyped DEF CheckOut, Buttons
  <1>7. ASSUME NEW s \in Places, CheckIn(s) \/ Reserve(s) \/ Cancel(s) PROVE PagesShape'
    BY <1>7, <1>a, SendTyped, CitizensType DEF CheckIn, Reserve, Cancel, Buttons
  <1>8. ASSUME NEW s \in Places, ToggleReserve(s) PROVE PagesShape'
    <2> DEFINE R == {IF q.kept = "form" THEN [q EXCEPT !.kept = "page"] ELSE q : q \in outgoing}
    <2>1. /\ outgoing' = R /\ form' \in Places \cup {None}
          /\ UNCHANGED <<desk, owns, visitor, at, seen, lookup, expired, doubt>>
      BY <1>8 DEF ToggleReserve
    <2>2. /\ R \subseteq SentRows /\ IsFiniteSet(R) /\ Cardinality(R) <= MaxSent
          /\ \A q \in R : q.op # "checkOut" => q.what # None
      BY ClosedTyped
    <2> HIDE DEF R
    <2> QED BY <1>0, <2>1, <2>2 DEF PagesShape, PagesTypeOK, LookupNamed, SentNamed
  <1>9. ASSUME NEW q \in outgoing, Commit(q) PROVE PagesShape'
    <2> DEFINE r == [q EXCEPT !.done = TRUE]
    <2>1. q \in SentRows /\ (q.op # "checkOut" => q.what \in Places)
      BY <1>0 DEF PagesTypeOK, SentNamed, SentRows
    <2>2. r \in SentRows /\ r.op = q.op /\ r.what = q.what
      BY <2>1 DEF SentRows
    <2>3. Effect(q) \in SUBSET Places /\ q.by \in Citizens
      BY <1>0, <2>1 DEF Effect, SentRows, Buttons, PagesTypeOK
    <2>4. /\ owns' = [owns EXCEPT ![q.by] = Effect(q)] /\ outgoing' = (outgoing \ {q}) \cup {r}
          /\ UNCHANGED <<desk, visitor, at, seen, lookup, expired, form, doubt>>
      BY <1>9 DEF Commit
    <2> HIDE DEF r
    <2>5. IsFiniteSet(outgoing') /\ Cardinality(outgoing') <= MaxSent
      BY <1>0, <2>4, OneFewer, CitizensType DEF PagesTypeOK
    <2>6. outgoing' \subseteq SentRows /\ SentNamed'
      BY <1>0, <2>1, <2>2, <2>4 DEF PagesTypeOK, SentNamed
    <2>7. owns' \in [Citizens -> SUBSET Places]
      BY <1>0, <2>3, <2>4 DEF PagesTypeOK
    <2> QED BY <1>0, <2>4, <2>5, <2>6, <2>7 DEF PagesShape, PagesTypeOK, LookupNamed
  <1>10. ASSUME NEW q \in outgoing, Decline(q) \/ AnswerComes(q) \/ AnswerLost(q)
         PROVE  PagesShape'
    <2>1. outgoing' = outgoing \ {q} /\ UNCHANGED <<desk, owns, visitor, at, seen>>
      BY <1>10 DEF Decline, AnswerComes, AnswerLost
    <2>2. /\ outgoing' \subseteq SentRows /\ IsFiniteSet(outgoing')
          /\ Cardinality(outgoing') <= MaxSent /\ SentNamed'
      BY <1>0, <1>10, <2>1, OneFewer, CitizensType DEF PagesTypeOK, SentNamed
    <2>3. form' \in Places \cup {None}
      BY <1>0, <1>10 DEF Decline, AnswerComes, AnswerLost, FormAfter, PagesTypeOK, SentRows
    <2>4. expired' \in BOOLEAN /\ doubt' \in BOOLEAN
      BY <1>0, <1>10 DEF Decline, AnswerComes, AnswerLost, Doubted, PagesTypeOK
    <2>5. lookup' \in Lookups /\ LookupNamed'
      <3>1. \A off \in BOOLEAN : [lookup EXCEPT !.off = off] \in Lookups
        BY <1>0 DEF PagesTypeOK, Lookups
      <3>2. CASE \E off \in BOOLEAN : lookup' = [lookup EXCEPT !.off = off]
        BY <1>0, <3>1, <3>2 DEF LookupNamed, PagesTypeOK, Lookups
      <3>3. CASE lookup' = LookupOf(visitor) /\ visitor # None
        BY <1>a, <3>3, LookupTyped DEF LookupNamed
      <3>4. lookup = [lookup EXCEPT !.off = lookup.off] /\ lookup.off \in BOOLEAN
        BY <1>0 DEF PagesTypeOK, Lookups
      <3> QED BY <1>0, <1>10, <3>2, <3>3, <3>4
              DEF Decline, AnswerComes, AnswerLost, Doubted, Watches
    <2> QED BY <1>0, <2>1, <2>2, <2>3, <2>4, <2>5 DEF PagesShape, PagesTypeOK
  <1>11. CASE LookAgain
    BY <1>0, <1>11, <1>a, LookupTyped
    DEF LookAgain, Watches, PagesShape, PagesTypeOK, LookupNamed, SentNamed
  <1>12. CASE LookUp
    <2>1. owns[lookup.by] \in SUBSET Places
      BY <1>0, <1>12 DEF LookUp, LookupNamed, PagesTypeOK, Lookups
    <2> QED BY <1>0, <1>12, <2>1
            DEF LookUp, PagesShape, PagesTypeOK, Lookups, LookupNamed, SentNamed
  <1>13. CASE LookupComes \/ LookupFails
    <2>1. lookup.found \in SUBSET Places /\ lookup.off \in BOOLEAN
      BY <1>0 DEF PagesTypeOK, Lookups
    <2> QED BY <1>0, <1>13, <2>1, LookupTyped
            DEF LookupComes, LookupFails, PagesShape, PagesTypeOK, LookupNamed, SentNamed
  <1>14. CASE UNCHANGED pvars
    BY <1>0, <1>14 DEF pvars, PagesShape, PagesTypeOK, LookupNamed, SentNamed
  <1> QED BY <1>1, <1>2, <1>3, <1>4, <1>5, <1>6, <1>7, <1>8, <1>9, <1>10, <1>11, <1>12, <1>13,
             <1>14 DEF PagesNext

\* One proof for all that can happen to the cache: each action is one step.
LEMMA PagesStep == PagesInv /\ [PagesNext]_pvars => PagesInv'
  <1> SUFFICES ASSUME PagesInv, [PagesNext]_pvars PROVE Told'
    BY PagesShapeStep DEF PagesInv
  <1>0. PagesShape /\ PagesTypeOK /\ CacheTrue /\ LookupTrue /\ ExpiredFetched
    BY DEF PagesInv, PagesShape, Told
  <1>l. lookup \in Lookups /\ visitor \in Citizens \cup {None} /\ owns \in [Citizens -> SUBSET Places]
    BY <1>0 DEF PagesTypeOK
  \* As long as all this stays, so does the invariant.
  <1>k. ASSUME UNCHANGED <<desk, owns, visitor, seen, lookup, expired, doubt>>,
               Unanswered => Unanswered',
               at' = at \/ at' = "away" \/ lookup.pc # "idle" \/ ~expired \/ doubt PROVE Told'
    <2>1. CacheTrue' /\ LookupTrue'
      BY <1>0, <1>k DEF CacheTrue, LookupTrue
    <2>2. ExpiredFetched'
      BY <1>0, <1>k DEF ExpiredFetched, Watches
    <2> QED BY <2>1, <2>2 DEF Told
  \* Whoever signs in over another session keeps what was watched.
  <1>1. ASSUME NEW u \in Citizens, NEW old \in BOOLEAN, VisitorComes(u, old) PROVE Told'
    <2>1. /\ visitor' = u /\ doubt' = (doubt \/ seen # None)
          /\ UNCHANGED <<desk, owns, at, seen, outgoing>>
      BY <1>1 DEF VisitorComes
    <2>2. CASE lookup' = LookupOf(u) /\ expired' = FALSE
      BY <1>l, <2>1, <2>2, LookupTyped DEF Told, CacheTrue, LookupTrue, ExpiredFetched
    <2>3. CASE /\ ~(visitor = None /\ Watches(u, at) /\ Stale(old))
               /\ lookup' = [lookup EXCEPT !.off = @ \/ lookup.pc # "idle"]
               /\ UNCHANGED expired
      <3>1. lookup'.pc = lookup.pc /\ (lookup.pc # "idle" => lookup'.off)
        BY <1>l, <2>3 DEF Lookups
      <3>2. CacheTrue' /\ LookupTrue'
        BY <2>1, <3>1 DEF CacheTrue, LookupTrue
      <3>3. ExpiredFetched'
        BY <1>0, <1>l, <2>1, <2>3, <3>1, CitizensType DEF ExpiredFetched, Watches, Stale
      <3> QED BY <3>2, <3>3 DEF Told
    <2> QED BY <1>1, <2>2, <2>3 DEF VisitorComes
  <1>2. ASSUME NEW u \in Citizens, NEW new \in SUBSET Places, Elsewhere(u, new) PROVE Told'
    <2>1. /\ visitor = u \/ visitor = None \/ owns'[visitor] = owns[visitor]
          /\ UNCHANGED <<desk, visitor, at, seen, expired, outgoing>>
      BY <1>2, <1>l DEF Elsewhere
    <2>2. /\ doubt' = (doubt \/ u = visitor)
          /\ lookup' = [lookup EXCEPT !.off = @ \/ (u = visitor /\ lookup.pc = "read")]
      BY <1>2 DEF Elsewhere, Doubted
    <2> QED BY <1>0, <2>1, <2>2, <1>l
            DEF Lookups, Told, CacheTrue, LookupTrue, ExpiredFetched, Unanswered, Watches
  <1>3. ASSUME NEW to \in {"away", at}, VisitorGoes(to) PROVE Told'
    BY <1>3 DEF VisitorGoes, Told, CacheTrue, LookupTrue, ExpiredFetched, Watches
  <1>4. ASSUME NEW page \in {"zone", "own"}, NEW old \in BOOLEAN, Arrive(page, old) PROVE Told'
    <2>1. CASE lookup' = LookupOf(visitor) /\ visitor # None
      BY <1>4, <1>l, <2>1, LookupTyped
      DEF Arrive, Told, CacheTrue, LookupTrue, ExpiredFetched
    <2>2. CASE UNCHANGED <<lookup, expired>>
      BY <1>0, <1>4, <2>2
      DEF Arrive, Stale, Told, CacheTrue, LookupTrue, ExpiredFetched, Unanswered, Watches
    <2> QED BY <1>4, <2>1, <2>2 DEF Arrive, Watches
  <1>5. CASE Leave
    BY <1>0, <1>5, <1>k, AbandonedTyped DEF Leave, Unanswered
  <1>6. CASE CheckOut
    BY <1>6, <1>k DEF CheckOut, Send, Unanswered
  <1>7. ASSUME NEW s \in Places, CheckIn(s) \/ Reserve(s) \/ Cancel(s) PROVE Told'
    BY <1>7, <1>k DEF CheckIn, Reserve, Cancel, Send, Unanswered
  <1>8. ASSUME NEW s \in Places, ToggleReserve(s) PROVE Told'
    <2>1. Unanswered => Unanswered'
      BY <1>0, <1>8, ClosedTyped DEF ToggleReserve, Unanswered
    <2> QED BY <1>8, <1>k, <2>1 DEF ToggleReserve
  \* What the visitor has changed, an answer will tell.
  <1>9. ASSUME NEW q \in outgoing, Commit(q) PROVE Told'
    <2> DEFINE r == [q EXCEPT !.done = TRUE]
    <2>1. q \in SentRows /\ r.done /\ r.by = q.by
      BY <1>0 DEF PagesTypeOK, SentRows
    <2>2. /\ owns' = [owns EXCEPT ![q.by] = Effect(q)] /\ outgoing' = (outgoing \ {q}) \cup {r}
          /\ ~q.done /\ UNCHANGED <<desk, visitor, at, seen, lookup, expired, form, doubt>>
      BY <1>9 DEF Commit
    <2> HIDE DEF r
    <2>3. Unanswered => Unanswered'
      BY <2>2 DEF Unanswered
    <2>4. visitor = q.by => Unanswered'
      BY <2>1, <2>2 DEF Unanswered
    <2>5. visitor # q.by /\ visitor # None => owns'[visitor] = owns[visitor]
      BY <1>l, <2>2
    <2> QED BY <1>0, <2>2, <2>3, <2>4, <2>5
            DEF Told, CacheTrue, LookupTrue, ExpiredFetched, Watches
  <1>10. ASSUME NEW q \in outgoing, Decline(q) PROVE Told'
    BY <1>10, <1>k DEF Decline, Unanswered
  \* An answer makes the cache be fetched, or marks it, and what was read before is off.
  <1>11. ASSUME NEW q \in outgoing, AnswerComes(q) PROVE Told'
    <2>1. UNCHANGED <<desk, owns, visitor, at, seen, doubt>> /\ outgoing' = outgoing \ {q}
      BY <1>11 DEF AnswerComes
    <2>2. CASE /\ ~Watches(visitor, at) /\ expired' = (seen # None \/ lookup.pc # "idle")
               /\ lookup' = [lookup EXCEPT !.off = @ \/ lookup.pc = "read"]
      BY <1>0, <1>l, <2>1, <2>2
      DEF Lookups, Told, CacheTrue, LookupTrue, ExpiredFetched, Watches, Unanswered
    <2>3. CASE /\ seen = None /\ lookup.pc # "idle" /\ expired' = expired
               /\ lookup' = [lookup EXCEPT !.off = @ \/ lookup.pc = "read"]
      BY <1>0, <1>l, <2>1, <2>3
      DEF Lookups, Told, CacheTrue, LookupTrue, ExpiredFetched, Watches, Unanswered
    <2>4. CASE Watches(visitor, at) /\ lookup' = LookupOf(visitor) /\ expired' = FALSE
      BY <1>l, <2>1, <2>4, LookupTyped
      DEF Told, CacheTrue, LookupTrue, ExpiredFetched, Watches
    <2> QED BY <1>11, <2>2, <2>3, <2>4 DEF AnswerComes
  <1>12. ASSUME NEW q \in outgoing, AnswerLost(q) PROVE Told'
    BY <1>0, <1>12, <1>l
    DEF AnswerLost, Doubted, Lookups, Told, CacheTrue, LookupTrue, ExpiredFetched, Unanswered,
        Watches
  <1>13. CASE LookAgain
    BY <1>13, <1>l, LookupTyped DEF LookAgain, Watches, Told, CacheTrue, LookupTrue, ExpiredFetched
  <1>14. CASE LookUp
    BY <1>0, <1>14, <1>l
    DEF LookUp, Lookups, Told, CacheTrue, LookupTrue, ExpiredFetched, Unanswered
  <1>15. CASE LookupComes
    BY <1>0, <1>15, <1>l, LookupTyped
    DEF LookupComes, Told, CacheTrue, LookupTrue, ExpiredFetched, Unanswered
  <1>16. CASE LookupFails
    BY <1>16, LookupTyped DEF LookupFails, Told, CacheTrue, LookupTrue, ExpiredFetched
  <1>17. CASE UNCHANGED pvars
    BY <1>17, <1>k DEF pvars, Unanswered
  <1> QED BY <1>1, <1>2, <1>3, <1>4, <1>5, <1>6, <1>7, <1>8, <1>9, <1>10, <1>11, <1>12, <1>13,
             <1>14, <1>15, <1>16, <1>17 DEF PagesNext

LEMMA PagesInvariant == PagesSpec => []PagesInv
  <1>1. PagesInit => PagesInv
    <2> SUFFICES ASSUME PagesInit PROVE PagesInv
      OBVIOUS
    <2>1. PagesShape
      <3>1. IsFiniteSet({}) /\ Cardinality({}) <= MaxSent
        BY FS_EmptySet, CitizensType
      <3>2. IsFiniteSet(outgoing) /\ Cardinality(outgoing) <= MaxSent /\ outgoing = {}
        BY <3>1 DEF PagesInit
      <3>3. owns \in [Citizens -> SUBSET Places] /\ seen \in (SUBSET Places) \cup {None}
        BY DEF PagesInit
      <3> QED BY <3>2, <3>3, LookupTyped
              DEF PagesInit, PagesShape, PagesTypeOK, LookupNamed, SentNamed
    <2>2. Told
      BY DEF PagesInit, Told, CacheTrue, LookupTrue, ExpiredFetched, Watches
    <2> QED BY <2>1, <2>2 DEF PagesInv
  <1> QED BY <1>1, PagesStep, PTL DEF PagesSpec

\* The cache, its fetch and the requests stay within their types, and never are there more
\* requests than the model allows.
THEOREM PagesTyped == PagesSpec => []PagesTypeOK
  <1>1. PagesInv => PagesTypeOK
    BY DEF PagesInv, PagesShape
  <1> QED BY PagesInvariant, <1>1, PTL

\* However many requests cross, whatever pages are left and whoever signs in meanwhile: once
\* every answer is there a page, and the header, show what their user has, but for the
\* named exceptions.
THEOREM PagesAlwaysTrue == PagesSpec => []PagesTrue
  <1>1. PagesInv => PagesTrue
    BY DEF PagesInv, Told, CacheTrue, ExpiredFetched, Unanswered, PagesTrue, PagesQuiet, Watches
  <1> QED BY PagesInvariant, <1>1, PTL
=============================================================================
