----------------------------- MODULE LiveProofs -----------------------------
(***************************************************************************)
(* Proofs about roles, the live map and the bell: for any staff, spots and  *)
(* readers, with and without failures.                                     *)
(***************************************************************************)
EXTENDS Roles, LiveMap, Inbox, FiniteSetTheorems, TLAPS

-----------------------------------------------------------------------------
(* Roles.                                                                  *)

\* A change in progress is about somebody else, and gives them a role there is.
ChangeShape ==
    \A u \in Staff : change[u].pc = "write" => /\ change[u].who \in Staff \ {u}
                                               /\ change[u].to \in RoleNames

\* A request for tokens in progress has the role of the row, unless that was written since.
AskedDated ==
    \A u \in Staff : asked[u].pc # "idle" =>
        /\ asked[u].found \in RoleNames
        /\ asked[u].found = role[u] \/ asked[u].off

RolesInv == RolesTypeOK /\ ChangeShape /\ AskedDated /\ AuthorityDated

LEMMA RowsTyped ==
    /\ Idle \in ChangeRows /\ Idle.pc = "idle"
    /\ \A v \in Staff, r \in RoleNames, l \in BOOLEAN :
          [pc |-> "write", who |-> v, to |-> r, lost |-> l] \in ChangeRows
    /\ Unasked \in AskRows /\ Unasked.pc = "idle"
    /\ \A how \in {"signIn", "renew"}, r \in RoleNames :
          [pc |-> how, found |-> r, off |-> FALSE] \in AskRows
  BY DEF Idle, ChangeRows, Unasked, AskRows

LEMMA RolesInitInv == RolesInit => RolesInv
  <1> SUFFICES ASSUME RolesInit PROVE RolesInv
    OBVIOUS
  <1>1. RolesTypeOK
    BY RowsTyped DEF RolesInit, RolesTypeOK, RoleNames
  <1>2. ChangeShape /\ AskedDated /\ AuthorityDated
    BY RowsTyped DEF RolesInit, ChangeShape, AskedDated, AuthorityDated
  <1> QED BY <1>1, <1>2 DEF RolesInv

\* A row is read for new tokens.
LEMMA AskInv ==
    ASSUME RolesInv, NEW u \in Staff, NEW how \in {"signIn", "renew"}, Ask(u, how, role[u])
    PROVE  RolesInv'
  <1> DEFINE r == [pc |-> how, found |-> role[u], off |-> FALSE]
  <1>1. asked' = [asked EXCEPT ![u] = r] /\ UNCHANGED <<role, token, live, shown, change, behind>>
    BY DEF Ask
  <1>2. r \in AskRows /\ r.found = role[u] /\ role[u] \in RoleNames
    BY RowsTyped DEF RolesInv, RolesTypeOK
  <1> HIDE DEF r
  <1>3. RolesTypeOK' /\ AskedDated'
    BY <1>1, <1>2 DEF RolesInv, RolesTypeOK, AskedDated
  <1> QED BY <1>1, <1>3 DEF RolesInv, ChangeShape, AuthorityDated

\* The tokens of u, the session and what is in progress change, and the rest stays.
LEMMA TokenInv ==
    ASSUME RolesInv, NEW u \in Staff, UNCHANGED <<role, change>>,
           \/ asked' = [asked EXCEPT ![u] = Unasked]
           \/ UNCHANGED asked,
           live' \in [Staff -> BOOLEAN], shown' \in [Staff -> RoleNames \cup {None}],
           NEW t \in RoleNames \cup {None}, token' = [token EXCEPT ![u] = t],
           behind' \subseteq Staff, \A v \in Staff \ {u} : v \in behind => v \in behind',
           t \in {None, role[u]} \/ u \in behind'
    PROVE  RolesInv'
  <1>1. RolesTypeOK'
    BY RowsTyped DEF RolesInv, RolesTypeOK
  <1>2. ChangeShape' /\ AskedDated'
    BY RowsTyped DEF RolesInv, RolesTypeOK, ChangeShape, AskedDated
  <1>3. AuthorityDated'
    <2> SUFFICES ASSUME NEW v \in Staff
                 PROVE  /\ token'[v] \in {None, role[v]} \/ v \in behind'
                        /\ change[v].pc = "write" => role[v] = "admin" \/ change[v].lost
      BY DEF AuthorityDated
    <2>1. CASE v = u
      BY <2>1 DEF RolesInv, RolesTypeOK, AuthorityDated
    <2>2. CASE v # u
      BY <2>2 DEF RolesInv, RolesTypeOK, AuthorityDated
    <2> QED BY <2>1, <2>2
  <1> QED BY <1>1, <1>2, <1>3 DEF RolesInv

LEMMA ForgetInv ==
    ASSUME RolesInv, NEW u \in Staff, Forget(u),
           asked' = [asked EXCEPT ![u] = Unasked] \/ UNCHANGED asked
    PROVE  RolesInv'
  <1>1. /\ token' = [token EXCEPT ![u] = None] /\ behind' = behind \ {u}
        /\ UNCHANGED <<role, change>>
        /\ live' \in [Staff -> BOOLEAN] /\ shown' \in [Staff -> RoleNames \cup {None}]
    BY DEF Forget, RolesInv, RolesTypeOK
  <1>2. behind' \subseteq Staff
    BY <1>1 DEF RolesInv, RolesTypeOK
  <1> QED BY <1>1, <1>2, TokenInv

LEMMA RolesStepInv == RolesInv /\ [RolesNext]_rvars => RolesInv'
  <1> SUFFICES ASSUME RolesInv, [RolesNext]_rvars PROVE RolesInv'
    OBVIOUS
  <1>0. RolesTypeOK /\ ChangeShape /\ AskedDated /\ AuthorityDated
    BY DEF RolesInv
  <1>1. CASE UNCHANGED rvars
    BY <1>0, <1>1
    DEF rvars, RolesInv, RolesTypeOK, ChangeShape, AskedDated, AuthorityDated
  <1>2. ASSUME NEW u \in Staff, SignInRead(u) \/ RenewRead(u) PROVE RolesInv'
    BY <1>2, AskInv DEF SignInRead, RenewRead
  <1>3. ASSUME NEW u \in Staff, TokensIssued(u) PROVE RolesInv'
    <2>1. /\ asked[u].found \in RoleNames
          /\ asked[u].found = role[u] \/ asked[u].off
          /\ asked' = [asked EXCEPT ![u] = Unasked] /\ UNCHANGED <<role, change>>
          /\ token' = [token EXCEPT ![u] = asked[u].found]
          /\ behind' = IF asked[u].off THEN behind \cup {u} ELSE behind \ {u}
      BY <1>0, <1>3 DEF TokensIssued, AskedDated
    <2>2. live' \in [Staff -> BOOLEAN] /\ shown' \in [Staff -> RoleNames \cup {None}]
      BY <1>0, <1>3, <2>1 DEF TokensIssued, RolesTypeOK
    <2>3. behind' \subseteq Staff
      BY <1>0, <2>1 DEF RolesTypeOK
    <2> QED BY <2>1, <2>2, <2>3, TokenInv
  <1>4. ASSUME NEW u \in Staff, TokensRefused(u) PROVE RolesInv'
    <2>1. CASE asked[u].pc = "renew"
      BY <1>4, <2>1, ForgetInv DEF TokensRefused
    <2>2. CASE asked[u].pc # "renew"
      BY <1>0, <1>4, <2>2, RowsTyped
      DEF TokensRefused, RolesInv, RolesTypeOK, ChangeShape, AskedDated, AuthorityDated
    <2> QED BY <2>1, <2>2
  <1>5. ASSUME NEW u \in Staff, TokenExpires(u) PROVE RolesInv'
    BY <1>0, <1>5
    DEF TokenExpires, RolesInv, RolesTypeOK, ChangeShape, AskedDated, AuthorityDated
  <1>6. ASSUME NEW u \in Staff, SignOut(u) PROVE RolesInv'
    BY <1>6, ForgetInv DEF SignOut
  \* Whoever is let in has the role, or it was written since it was read for the token.
  <1>7. ASSUME NEW u \in Staff, NEW v \in Staff, NEW r \in Given, ChangeRequest(u, v, r)
        PROVE  RolesInv'
    <2> DEFINE l   == u \in behind
               row == [pc |-> "write", who |-> v, to |-> r, lost |-> l]
    <2>1. /\ UNCHANGED <<role, token, live, shown, asked, behind>> /\ u # v
          /\ change' = [change EXCEPT ![u] = row] /\ token[u] = "admin"
      BY <1>7 DEF ChangeRequest, MayChoose, Allowed
    <2>a. l \in BOOLEAN /\ (u \in behind => l)
      OBVIOUS
    <2> HIDE DEF l
    <2>2. row \in ChangeRows /\ row.who = v /\ row.to = r /\ (u \in behind => row.lost)
      BY <2>a, GivenType, RowsTyped
    <2> HIDE DEF row
    <2>3. RolesTypeOK' /\ ChangeShape'
      BY <1>0, <2>1, <2>2, GivenType DEF RolesTypeOK, ChangeShape
    <2>4. role[u] = "admin" \/ row.lost
      BY <1>0, <2>1, <2>2, NoneIsNoPerson DEF AuthorityDated, RoleNames
    <2>5. AuthorityDated'
      BY <1>0, <2>1, <2>4 DEF AuthorityDated, RolesTypeOK
    <2> QED BY <1>0, <2>1, <2>3, <2>5 DEF RolesInv, AskedDated
  \* What was read of the role, for tokens that are asked for or held, is out of date.
  <1>8. ASSUME NEW u \in Staff, ChangeWrite(u) PROVE RolesInv'
    <2> DEFINE v == change[u].who
    <2>1. /\ v \in Staff \ {u} /\ change[u].to \in RoleNames
          /\ role' = [role EXCEPT ![v] = change[u].to]
          /\ change' = [change EXCEPT ![u] = Idle, ![v].lost = change[v].pc = "write"]
          /\ asked' = [asked EXCEPT ![v].off = asked[v].pc # "idle"]
          /\ behind' = IF token[v] # None THEN behind \cup {v} ELSE behind
          /\ UNCHANGED <<token, live, shown>>
      BY <1>0, <1>8 DEF ChangeWrite, ChangeShape
    <2> HIDE DEF v
    <2>2. /\ change' \in [Staff -> ChangeRows] /\ change'[u] = Idle
          /\ change'[v].pc = change[v].pc /\ change'[v].who = change[v].who
          /\ change'[v].to = change[v].to /\ (change[v].pc = "write" => change'[v].lost)
          /\ \A w \in Staff \ {u, v} : change'[w] = change[w]
      <3> DEFINE c == [change EXCEPT ![u] = Idle]
                 l == change[v].pc = "write"
      <3>1. c \in [Staff -> ChangeRows] /\ c[u] = Idle
            /\ \A w \in Staff \ {u} : c[w] = change[w]
        BY <1>0, RowsTyped DEF RolesTypeOK
      <3>2. l \in BOOLEAN /\ (change[v].pc = "write" => l)
        OBVIOUS
      <3>3. change' = [c EXCEPT ![v].lost = l]
        BY <1>0, <2>1 DEF RolesTypeOK
      <3> HIDE DEF c, l
      <3>4. c[v] \in ChangeRows /\ change'[v] = [c[v] EXCEPT !.lost = l]
            /\ \A w \in Staff \ {v} : change'[w] = c[w]
        BY <2>1, <3>1, <3>3
      <3>5. change'[v] \in ChangeRows /\ change'[v].lost = l
            /\ change'[v].pc = c[v].pc /\ change'[v].who = c[v].who /\ change'[v].to = c[v].to
        BY <3>2, <3>4 DEF ChangeRows
      <3>6. change' \in [Staff -> ChangeRows]
        BY <2>1, <3>1, <3>3, <3>4, <3>5
      <3> QED BY <2>1, <3>1, <3>2, <3>4, <3>5, <3>6
    <2>3. /\ asked' \in [Staff -> AskRows] /\ asked'[v].pc = asked[v].pc
          /\ asked'[v].found = asked[v].found /\ asked'[v].off = (asked[v].pc # "idle")
          /\ \A w \in Staff \ {v} : asked'[w] = asked[w]
      BY <1>0, <2>1 DEF RolesTypeOK, AskRows
    <2>4. RolesTypeOK'
      BY <1>0, <2>1, <2>2, <2>3 DEF RolesTypeOK
    <2>5. ChangeShape'
      BY <1>0, <2>1, <2>2, RowsTyped DEF ChangeShape
    <2>6. AskedDated'
      BY <1>0, <2>1, <2>3 DEF AskedDated, RolesTypeOK
    <2>7. AuthorityDated'
      <3> SUFFICES ASSUME NEW w \in Staff
                   PROVE  /\ token[w] \in {None, role'[w]} \/ w \in behind'
                          /\ change'[w].pc = "write" => role'[w] = "admin" \/ change'[w].lost
        BY <2>1 DEF AuthorityDated
      <3>1. CASE w = v
        BY <2>1, <2>2, <3>1
      <3>2. CASE w # v
        BY <1>0, <2>1, <2>2, <3>2, RowsTyped DEF AuthorityDated, RolesTypeOK
      <3> QED BY <3>1, <3>2
    <2> QED BY <2>4, <2>5, <2>6, <2>7 DEF RolesInv
  <1>9. ASSUME NEW u \in Staff, ChangeFails(u) PROVE RolesInv'
    BY <1>0, <1>9, RowsTyped
    DEF ChangeFails, RolesInv, RolesTypeOK, ChangeShape, AskedDated, AuthorityDated
  <1> QED BY <1>1, <1>2, <1>3, <1>4, <1>5, <1>6, <1>7, <1>8, <1>9 DEF RolesNext

LEMMA RolesInvariant == RolesSpec => []RolesInv
  BY RolesInitInv, RolesStepInv, PTL DEF RolesSpec

\* The state of roles and tokens stays within its type.
THEOREM RolesTyped == RolesSpec => []RolesTypeOK
  <1>1. RolesInv => RolesTypeOK
    BY DEF RolesInv
  <1> QED BY RolesInvariant, <1>1, PTL

\* However sign-ins, renewals and role changes overlap, whoever acts on a role that they no
\* longer have lost it after it was read for their token (auth.service.ts 127-145).
THEOREM AuthorityAlwaysDated == RolesSpec => []AuthorityDated
  <1>1. RolesInv => AuthorityDated
    BY DEF RolesInv
  <1> QED BY RolesInvariant, <1>1, PTL

-----------------------------------------------------------------------------
(* The map.                                                                *)

\* The page is in the room of its zone while it is open and connected, messages come only
\* there, and what it has missed meanwhile it owes only until it is connected again.
RoomTrue ==
    /\ room # "out" => page = "open" /\ known /\ sock = "up"
    /\ page = "open" /\ sock = "up" => room # "out"
    /\ wire # <<>> => room = "in"
    /\ owed # {} => page = "open" /\ known /\ sock # "up"

\* Connecting again does not start the first fetch anew: its answer is known to be off.
FirstFetch == list = None /\ fetch.pc = "read" => owed \subseteq fetch.bad

\* The last message about p that is on its way has the status there is.
Tells(p) ==
    \E k \in DOMAIN wire :
       /\ wire[k].spot = p /\ wire[k].colour = status[p]
       /\ \A j \in DOMAIN wire : j > k => wire[j].spot # p

\* The list may be wrong about p, or something will tell it.
Marked(p) == p \in wrong \cup due \cup owed \cup OnWire
\* So may the answer, or something that comes after it will.
Corrected(p) == p \in fetch.bad \cup due \cup owed \/ Tells(p)

ListSound ==
    list # None /\ fetch.pc = "idle" => \A p \in MapSpots : list[p] = status[p] \/ Marked(p)
SnapSound ==
    fetch.pc = "read" =>
        /\ fetch.snap \in Lists
        /\ \A p \in MapSpots : fetch.snap[p] = status[p] \/ Corrected(p)

MapSound == FirstFetch /\ ListSound /\ SnapSound
MapInv   == MapTypeOK /\ RoomTrue /\ MapSound

LEMMA FetchTyped ==
    /\ NoFetch \in FetchRows /\ NoFetch.pc = "idle"
    /\ Asked \in FetchRows /\ Asked.pc = "asked"
  BY DEF NoFetch, Asked, FetchRows

LEMMA WireTyped ==
    ASSUME MapTypeOK
    PROVE  OnWire \in SUBSET MapSpots /\ \A k \in DOMAIN wire : wire[k] \in Messages
  <1>1. \A k \in DOMAIN wire : wire[k] \in Messages
    BY DEF MapTypeOK
  <1> QED BY <1>1 DEF OnWire, Messages

LEMMA SpoiltTyped ==
    ASSUME MapTypeOK, NEW ps \in SUBSET MapSpots
    PROVE  /\ Spoilt(ps) \in FetchRows
           /\ Spoilt(ps).pc = fetch.pc /\ Spoilt(ps).snap = fetch.snap
           /\ fetch.pc = "read" => Spoilt(ps).bad = fetch.bad \cup ps
           /\ fetch.pc # "read" => Spoilt(ps) = fetch
  BY DEF MapTypeOK, Spoilt, FetchRows

\* The list and the answer stay; a spot changes only if something will tell of it.
LEMMA SoundKept ==
    ASSUME MapSound, list' = list, fetch'.pc = fetch.pc, fetch'.snap = fetch.snap,
           \A p \in MapSpots : Marked(p)' \/ (status'[p] = status[p] /\ ~Marked(p)),
           fetch.pc = "read" =>
              \A p \in MapSpots : Corrected(p)' \/ (status'[p] = status[p] /\ ~Corrected(p))
    PROVE  ListSound' /\ SnapSound'
  BY DEF MapSound, ListSound, SnapSound

\* The fetch starts anew.
LEMMA SoundAsked == ASSUME fetch' = Asked PROVE MapSound'
  BY FetchTyped DEF MapSound, FirstFetch, ListSound, SnapSound

\* Some spots change, or are not heard of: they are marked, or owed.
LEMMA SpotsMissed ==
    ASSUME MapInv, NEW ps \in SUBSET MapSpots, Missed(ps) \/ Repaired(ps), list' = list,
           \A p \in MapSpots \ ps :
              /\ status'[p] = status[p]
              /\ p \in due => p \in due'
              /\ p \in OnWire => p \in OnWire'
              /\ Tells(p) => Tells(p)'
    PROVE  MapSound'
  <1>0. MapTypeOK /\ MapSound /\ FirstFetch
    BY DEF MapInv, MapSound
  <1>1. /\ fetch'.pc = fetch.pc /\ fetch'.snap = fetch.snap
        /\ fetch.pc = "read" => fetch'.bad \in {fetch.bad, fetch.bad \cup ps}
    BY <1>0, SpoiltTyped DEF Missed, Repaired
  <1>2. /\ owed \subseteq owed' /\ wrong \subseteq wrong'
        /\ owed' \subseteq owed \cup ps
        /\ ps \subseteq wrong' \/ ps \subseteq owed'
    BY DEF Missed, Repaired
  <1>3. fetch.pc = "read" => fetch.bad \subseteq fetch'.bad
    BY <1>1
  <1>4. fetch.pc = "read" => ps \subseteq fetch'.bad \/ (ps \subseteq owed' /\ list # None)
    BY <1>0, SpoiltTyped DEF Missed, Repaired
  <1>5. \A p \in MapSpots : Marked(p)' \/ (status'[p] = status[p] /\ ~Marked(p))
    BY <1>2 DEF Marked
  <1>6. fetch.pc = "read" =>
           \A p \in MapSpots : Corrected(p)' \/ (status'[p] = status[p] /\ ~Corrected(p))
    BY <1>2, <1>3, <1>4 DEF Corrected
  <1>7. FirstFetch'
    <2>1. list = None /\ fetch.pc = "read" => ps \subseteq fetch'.bad
      BY <1>4
    <2> QED BY <1>0, <1>1, <1>2, <1>3, <2>1 DEF FirstFetch
  <1> QED BY <1>0, <1>1, <1>5, <1>6, <1>7, SoundKept DEF MapSound

LEMMA MapTypeStep == MapTypeOK /\ [MapNext]_mvars => MapTypeOK'
  <1> SUFFICES ASSUME MapTypeOK, [MapNext]_mvars PROVE MapTypeOK'
    OBVIOUS
  <1>0. OnWire \in SUBSET MapSpots /\ owed \in SUBSET MapSpots /\ fetch \in FetchRows
    BY WireTyped DEF MapTypeOK
  <1>s. \A ps \in SUBSET MapSpots : Spoilt(ps) \in FetchRows
    BY SpoiltTyped
  <1>m. ASSUME NEW ps \in SUBSET MapSpots, Missed(ps)
        PROVE  wrong' \subseteq MapSpots /\ fetch' \in FetchRows /\ owed' \subseteq MapSpots
    BY <1>m, <1>s DEF Missed, MapTypeOK
  <1>r. ASSUME NEW ps \in SUBSET MapSpots, Repaired(ps)
        PROVE  wrong' \subseteq MapSpots /\ fetch' \in FetchRows /\ owed' \subseteq MapSpots
    BY <1>r, <1>s DEF Repaired, MapTypeOK
  <1>1. ASSUME NEW p \in MapSpots, NEW c \in Colours, Change(p, c) PROVE MapTypeOK'
    BY <1>1 DEF Change, MapTypeOK, Lists
  <1>2. ASSUME NEW p \in MapSpots, NEW c \in Colours, SilentChange(p, c) PROVE MapTypeOK'
    BY <1>2, <1>m DEF SilentChange, MapTypeOK, Lists
  <1>3. ASSUME NEW p \in MapSpots, Publish(p) PROVE MapTypeOK'
    <2> DEFINE m == [spot |-> p, colour |-> status[p]]
    <2>1. m \in Messages
      BY DEF Messages, MapTypeOK, Lists
    <2>2. CASE wire' = Append(wire, m) /\ UNCHANGED <<fetch, owed, wrong>>
      <3> HIDE DEF m
      <3> QED BY <1>3, <2>1, <2>2 DEF Publish, MapTypeOK
    <2>3. CASE wire' = wire /\ (Repaired({p}) \/ Missed({p}))
      <3>1. wrong' \subseteq MapSpots /\ fetch' \in FetchRows /\ owed' \subseteq MapSpots
        BY <2>3, <1>m, <1>r
      <3> QED BY <1>3, <2>3, <3>1 DEF Publish, MapTypeOK
    <2> QED BY <1>3, <2>2, <2>3 DEF Publish
  <1>4. ASSUME NEW p \in MapSpots, PublishFails(p) PROVE MapTypeOK'
    BY <1>4, <1>m DEF PublishFails, MapTypeOK
  <1>5. CASE HandleZoneJoin \/ Wanted \/ ZonesCome
    BY <1>5 DEF HandleZoneJoin, Wanted, ZonesCome, MapTypeOK
  <1>6. CASE Connect
    BY <1>6, FetchTyped DEF Connect, Restarted, MapTypeOK
  <1>7. ASSUME NEW to \in {"down", "off"}, Disconnect(to) PROVE MapTypeOK'
    BY <1>0, <1>7, <1>r DEF Disconnect, MapTypeOK
  <1>8. CASE Deliver
    <2>1. wire # <<>> /\ wire \in Seq(Messages)
      BY <1>8 DEF Deliver, MapTypeOK
    <2>2. Head(wire) \in Messages /\ Tail(wire) \in Seq(Messages)
      BY <2>1
    <2>3. Head(wire).spot \in MapSpots /\ Head(wire).colour \in Colours
      BY <2>2 DEF Messages
    <2>4. list' \in Lists \cup {None}
      BY <1>8, <2>3 DEF Deliver, MapTypeOK, Lists
    <2>5. fetch' \in FetchRows /\ wrong' \subseteq MapSpots
      BY <1>8, <1>s, <2>3 DEF Deliver, MapTypeOK
    <2>6. wire' \in Seq(Messages) /\ UNCHANGED <<status, due, sock, room, page, known, owed>>
      BY <1>8, <2>2 DEF Deliver
    <2> QED BY <2>4, <2>5, <2>6 DEF MapTypeOK
  <1>9. ASSUME NEW stale \in BOOLEAN, Visit(stale) PROVE MapTypeOK'
    BY <1>9, FetchTyped DEF Visit, MapTypeOK
  <1>10. CASE LeavePage
    <2> DEFINE ps == OnWire \cup owed
    <2>1. ps \in SUBSET MapSpots
      BY <1>0
    <2>2. fetch' = Spoilt(ps) /\ wrong' = wrong \cup ps /\ wire' = <<>>
      BY <1>10 DEF LeavePage
    <2>3. fetch' \in FetchRows /\ wrong' \subseteq MapSpots /\ wire' \in Seq(Messages)
      BY <1>s, <2>1, <2>2 DEF MapTypeOK
    <2> QED BY <1>10, <2>3 DEF LeavePage, MapTypeOK
  <1>11. CASE Refetch
    <2>1. fetch' \in FetchRows /\ UNCHANGED <<status, due, sock, room, wire, page, known, list, owed, wrong>>
      BY <1>11, FetchTyped DEF Refetch
    <2> QED BY <2>1 DEF MapTypeOK
  <1>12. CASE ServeList
    BY <1>12 DEF ServeList, MapTypeOK, FetchRows
  <1>13. CASE ListComes \/ ListFails \/ Forgotten
    <2>1. fetch.snap \in Lists \cup {None} /\ fetch.bad \subseteq MapSpots
      BY <1>0 DEF FetchRows
    <2> QED BY <1>13, <2>1, FetchTyped DEF ListComes, ListFails, Forgotten, MapTypeOK
  <1>14. CASE UNCHANGED mvars
    BY <1>14 DEF mvars, MapTypeOK
  <1> QED BY <1>1, <1>2, <1>3, <1>4, <1>5, <1>6, <1>7, <1>8, <1>9, <1>10, <1>11, <1>12, <1>13,
             <1>14 DEF MapNext

LEMMA RoomStep == MapTypeOK /\ RoomTrue /\ [MapNext]_mvars => RoomTrue'
  <1> SUFFICES ASSUME MapTypeOK, RoomTrue, [MapNext]_mvars PROVE RoomTrue'
    OBVIOUS
  <1>1. CASE UNCHANGED <<sock, room, wire, page, known, owed>>
    BY <1>1 DEF RoomTrue
  <1>2. ASSUME NEW p \in MapSpots, NEW c \in Colours, Change(p, c) \/ SilentChange(p, c)
        PROVE  RoomTrue'
    BY <1>1, <1>2 DEF Change, SilentChange, Missed
  <1>3. ASSUME NEW p \in MapSpots, Publish(p) PROVE RoomTrue'
    BY <1>3 DEF Publish, Repaired, Missed, RoomTrue
  <1>4. ASSUME NEW p \in MapSpots, PublishFails(p) PROVE RoomTrue'
    BY <1>1, <1>4 DEF PublishFails, Missed
  <1>5. CASE HandleZoneJoin \/ Wanted \/ ZonesCome
    BY <1>5 DEF HandleZoneJoin, Wanted, ZonesCome, RoomTrue, MapTypeOK
  <1>6. CASE Connect
    BY <1>6 DEF Connect, RoomTrue
  <1>7. ASSUME NEW to \in {"down", "off"}, Disconnect(to) PROVE RoomTrue'
    <2>1. wire = <<>> => OnWire = {}
      BY DEF OnWire
    <2> QED BY <1>7, <2>1 DEF Disconnect, Repaired, RoomTrue
  <1>8. CASE Deliver
    BY <1>8 DEF Deliver, RoomTrue
  <1>9. ASSUME NEW stale \in BOOLEAN, Visit(stale) PROVE RoomTrue'
    BY <1>9 DEF Visit, RoomTrue
  <1>10. CASE LeavePage \/ ServeList
    BY <1>10 DEF LeavePage, ServeList, RoomTrue
  <1>11. CASE Refetch \/ ListComes \/ ListFails \/ Forgotten \/ UNCHANGED mvars
    BY <1>1, <1>11 DEF Refetch, ListComes, ListFails, Forgotten, mvars
  <1> QED BY <1>2, <1>3, <1>4, <1>5, <1>6, <1>7, <1>8, <1>9, <1>10, <1>11 DEF MapNext

LEMMA SoundStep == MapInv /\ [MapNext]_mvars => MapSound'
  <1> SUFFICES ASSUME MapInv, [MapNext]_mvars PROVE MapSound'
    OBVIOUS
  <1>0. MapTypeOK /\ RoomTrue /\ MapSound /\ FirstFetch /\ ListSound /\ SnapSound
    BY DEF MapInv, MapSound
  <1>t. OnWire \in SUBSET MapSpots /\ owed \in SUBSET MapSpots /\ fetch \in FetchRows
    BY <1>0, WireTyped DEF MapTypeOK
  \* Only what is marked, and what the answer is known to miss, becomes more.
  <1>k. ASSUME list' = list, fetch' = fetch, UNCHANGED <<status, due, wire, owed, wrong>>
        PROVE  MapSound'
    BY <1>0, <1>k DEF MapSound, FirstFetch, ListSound, SnapSound, Marked, Corrected, Tells, OnWire
  <1>1. ASSUME NEW p \in MapSpots, NEW c \in Colours, Change(p, c) PROVE MapSound'
    <2>1. /\ UNCHANGED <<list, fetch, wire, owed, wrong>> /\ due' = due \cup {p}
          /\ \A q \in MapSpots : q # p => status'[q] = status[q]
      BY <1>0, <1>1 DEF Change, MapTypeOK, Lists
    <2>2. \A q \in MapSpots : Marked(q)' \/ (status'[q] = status[q] /\ ~Marked(q))
      BY <2>1 DEF Marked, OnWire
    <2>3. \A q \in MapSpots : Corrected(q)' \/ (status'[q] = status[q] /\ ~Corrected(q))
      BY <2>1 DEF Corrected, Tells
    <2>4. FirstFetch'
      BY <1>0, <2>1 DEF FirstFetch
    <2> QED BY <1>0, <2>1, <2>2, <2>3, <2>4, SoundKept DEF MapSound
  <1>2. ASSUME NEW p \in MapSpots, NEW c \in Colours, SilentChange(p, c) PROVE MapSound'
    <2>1. \A q \in MapSpots \ {p} :
             /\ status'[q] = status[q] /\ due' = due
             /\ q \in OnWire => q \in OnWire'
             /\ Tells(q) => Tells(q)'
      BY <1>0, <1>2 DEF SilentChange, MapTypeOK, Lists, OnWire, Tells
    <2> QED BY <1>2, <2>1, SpotsMissed DEF SilentChange
  <1>3. ASSUME NEW p \in MapSpots, Publish(p) PROVE MapSound'
    <2> DEFINE m == [spot |-> p, colour |-> status[p]]
    <2>1. /\ due' = due \ {p} /\ status' = status /\ list' = list
      BY <1>3 DEF Publish
    <2>2. CASE wire' = wire /\ (Repaired({p}) \/ Missed({p}))
      <3>1. \A q \in MapSpots \ {p} :
               /\ status'[q] = status[q] /\ (q \in due => q \in due')
               /\ q \in OnWire => q \in OnWire'
               /\ Tells(q) => Tells(q)'
        BY <2>1, <2>2 DEF OnWire, Tells
      <3> QED BY <2>1, <2>2, <3>1, SpotsMissed
    <2>3. CASE wire' = Append(wire, m) /\ UNCHANGED <<fetch, owed, wrong>>
      <3>1. m.spot = p /\ m.colour = status[p]
        OBVIOUS
      <3> HIDE DEF m
      <3>2. wire \in Seq(Messages) /\ Len(wire) \in Nat
        BY <1>0 DEF MapTypeOK
      <3>3. /\ Len(wire') = Len(wire) + 1
            /\ DOMAIN wire = 1..Len(wire) /\ DOMAIN wire' = 1..(Len(wire) + 1)
            /\ wire'[Len(wire) + 1] = m
            /\ \A k \in 1..Len(wire) : wire'[k] = wire[k]
        BY <2>3, <3>2
      <3>4. Tells(p)' /\ p \in OnWire'
        BY <2>1, <3>1, <3>2, <3>3 DEF Tells, OnWire
      <3>5. \A q \in MapSpots : q # p => (Tells(q) => Tells(q)') /\ (q \in OnWire => q \in OnWire')
        <4> SUFFICES ASSUME NEW q \in MapSpots, q # p
                     PROVE  (Tells(q) => Tells(q)') /\ (q \in OnWire => q \in OnWire')
          OBVIOUS
        <4>1. Tells(q) => Tells(q)'
          BY <2>1, <3>1, <3>2, <3>3 DEF Tells
        <4>2. q \in OnWire => q \in OnWire'
          BY <3>2, <3>3 DEF OnWire
        <4> QED BY <4>1, <4>2
      <3>6. \A q \in MapSpots : Marked(q)' \/ (status'[q] = status[q] /\ ~Marked(q))
        BY <2>1, <2>3, <3>4, <3>5 DEF Marked
      <3>7. \A q \in MapSpots : Corrected(q)' \/ (status'[q] = status[q] /\ ~Corrected(q))
        BY <2>1, <2>3, <3>4, <3>5 DEF Corrected
      <3>8. FirstFetch'
        BY <1>0, <2>1, <2>3 DEF FirstFetch
      <3> QED BY <1>0, <2>1, <2>3, <3>6, <3>7, <3>8, SoundKept DEF MapSound
    <2> QED BY <1>3, <2>2, <2>3 DEF Publish
  <1>4. ASSUME NEW p \in MapSpots, PublishFails(p) PROVE MapSound'
    <2>1. \A q \in MapSpots \ {p} :
             /\ status'[q] = status[q] /\ (q \in due => q \in due')
             /\ q \in OnWire => q \in OnWire'
             /\ Tells(q) => Tells(q)'
      BY <1>4 DEF PublishFails, OnWire, Tells
    <2> QED BY <1>4, <2>1, SpotsMissed DEF PublishFails
  <1>5. CASE HandleZoneJoin \/ Wanted \/ ZonesCome
    BY <1>5, <1>k DEF HandleZoneJoin, Wanted, ZonesCome
  \* What the page was owed it fetches, unless its first fetch has not come and is off.
  <1>6. CASE Connect
    <2>1. CASE page = "open" /\ known
      <3>1. CASE fetch' = Asked
        BY <3>1, SoundAsked
      <3>2. CASE list = None /\ fetch.pc # "idle" /\ fetch' = fetch
        <4>1. UNCHANGED <<status, due, wire, list, wrong>> /\ owed' = {}
          BY <1>6, <2>1 DEF Connect
        <4>2. FirstFetch' /\ ListSound'
          BY <3>2, <4>1 DEF FirstFetch, ListSound
        <4>3. fetch.pc = "read" => \A q \in MapSpots : Corrected(q) => Corrected(q)'
          BY <1>0, <3>2, <4>1 DEF FirstFetch, Corrected, Tells
        <4>4. SnapSound'
          BY <1>0, <3>2, <4>1, <4>3 DEF SnapSound
        <4> QED BY <4>2, <4>4 DEF MapSound
      <3> QED BY <1>6, <2>1, <3>1, <3>2 DEF Connect, Restarted
    <2>2. CASE page = "open" /\ ~known
      BY <1>0, <1>6, <1>k, <2>2 DEF Connect, RoomTrue
    <2>3. CASE page # "open"
      BY <1>6, <1>k, <2>3 DEF Connect
    <2> QED BY <2>1, <2>2, <2>3
  <1>7. ASSUME NEW to \in {"down", "off"}, Disconnect(to) PROVE MapSound'
    <2>1. \A q \in MapSpots \ OnWire :
             status'[q] = status[q] /\ due' = due /\ (Tells(q) => Tells(q)')
      BY <1>7 DEF Disconnect, OnWire, Tells
    <2>2. Repaired(OnWire) /\ list' = list
      BY <1>7 DEF Disconnect
    <2> QED BY <1>t, <2>1, <2>2, SpotsMissed
  \* A message that is overtaken has another one behind it, or marks the list; an answer
  \* that it contradicts is known to be off.
  <1>8. CASE Deliver
    <2> DEFINE m == Head(wire)
               more == m.spot \in due \/ \E k \in 2..Len(wire) : wire[k].spot = m.spot
    <2>1. wire # <<>> /\ wire \in Seq(Messages) /\ Len(wire) \in Nat
      BY <1>0, <1>8 DEF Deliver, MapTypeOK
    <2>2. /\ Len(wire) >= 1 /\ m = wire[1] /\ m.spot \in MapSpots /\ m.colour \in Colours
          /\ DOMAIN wire = 1..Len(wire) /\ wire' = Tail(wire)
          /\ Len(wire') = Len(wire) - 1 /\ DOMAIN wire' = 1..(Len(wire) - 1)
          /\ \A k \in 1..(Len(wire) - 1) : wire'[k] = wire[k + 1]
      <3>1. m \in Messages /\ Len(wire) >= 1 /\ m = wire[1]
        BY <2>1
      <3>2. wire' = Tail(wire)
        BY <1>8 DEF Deliver
      <3>3. /\ DOMAIN wire = 1..Len(wire) /\ Len(wire') = Len(wire) - 1
            /\ DOMAIN wire' = 1..(Len(wire) - 1)
            /\ \A k \in 1..(Len(wire) - 1) : wire'[k] = wire[k + 1]
        BY <2>1, <3>1, <3>2
      <3> QED BY <3>1, <3>2, <3>3 DEF Messages
    <2>3. /\ UNCHANGED <<status, due, owed>>
          /\ list' = IF list = None THEN None ELSE [list EXCEPT ![m.spot] = m.colour]
          /\ fetch' = IF fetch.pc = "read" /\ fetch.snap[m.spot] # m.colour
                        THEN Spoilt({m.spot}) ELSE fetch
          /\ wrong' = CASE m.colour = status[m.spot] -> wrong \ {m.spot}
                        [] m.colour # status[m.spot] /\ ~more -> wrong \cup {m.spot}
                        [] OTHER -> wrong
      BY <1>8 DEF Deliver
    <2>4. more => m.spot \in due \/ m.spot \in OnWire'
      <3> SUFFICES ASSUME NEW k \in 2..Len(wire), wire[k].spot = m.spot PROVE m.spot \in OnWire'
        OBVIOUS
      <3>1. k - 1 \in DOMAIN wire' /\ wire'[k - 1] = wire[k]
        BY <2>1, <2>2
      <3> QED BY <3>1 DEF OnWire
    <2> HIDE DEF m, more
    <2>5. \A q \in MapSpots : q # m.spot /\ q \in OnWire => q \in OnWire'
      <3> SUFFICES ASSUME NEW k \in DOMAIN wire, wire[k].spot # m.spot
                   PROVE  wire[k].spot \in OnWire'
        BY DEF OnWire
      <3>1. k - 1 \in DOMAIN wire' /\ wire'[k - 1] = wire[k]
        BY <2>1, <2>2
      <3> QED BY <3>1 DEF OnWire
    <2>6. \A q \in MapSpots : Tells(q) => Tells(q)' \/ (q = m.spot /\ m.colour = status[q])
      <3> SUFFICES ASSUME NEW q \in MapSpots, NEW k \in DOMAIN wire,
                          wire[k].spot = q, wire[k].colour = status[q],
                          \A j \in DOMAIN wire : j > k => wire[j].spot # q,
                          k # 1
                   PROVE  Tells(q)'
        BY <2>2 DEF Tells
      <3>1. k - 1 \in DOMAIN wire' /\ wire'[k - 1] = wire[k]
        BY <2>1, <2>2
      <3>2. \A j \in DOMAIN wire' : j > k - 1 => wire'[j].spot # q
        BY <2>1, <2>2
      <3> QED BY <2>3, <3>1, <3>2 DEF Tells
    <2>7. owed = {} /\ owed' = {}
      BY <1>0, <2>1, <2>3 DEF RoomTrue
    <2>8. /\ fetch'.pc = fetch.pc /\ fetch'.snap = fetch.snap
          /\ fetch.pc = "read" /\ fetch.snap[m.spot] # m.colour
                => fetch'.bad = fetch.bad \cup {m.spot}
          /\ fetch.snap[m.spot] = m.colour => fetch' = fetch
      BY <1>0, <2>2, <2>3, SpoiltTyped
    <2>9. ListSound'
      <3> SUFFICES ASSUME list' # None, fetch'.pc = "idle", NEW q \in MapSpots
                   PROVE  list'[q] = status'[q] \/ Marked(q)'
        BY DEF ListSound
      <3>1. /\ list \in Lists /\ list' = [list EXCEPT ![m.spot] = m.colour]
            /\ list[q] = status[q] \/ Marked(q)
        BY <1>0, <2>3, <2>8 DEF MapTypeOK, ListSound
      <3>2. CASE q # m.spot
        <4>1. list'[q] = list[q] /\ status' = status /\ (q \in wrong => q \in wrong')
          BY <2>3, <3>1, <3>2 DEF Lists
        <4> QED BY <2>3, <2>5, <3>1, <3>2, <4>1 DEF Marked
      <3>3. CASE q = m.spot /\ m.colour = status[q]
        BY <2>3, <3>1, <3>3 DEF Lists
      <3>4. CASE q = m.spot /\ m.colour # status[q]
        BY <2>3, <2>4, <3>4 DEF Marked
      <3> QED BY <3>2, <3>3, <3>4
    <2>10. SnapSound'
      <3> SUFFICES ASSUME fetch'.pc = "read", NEW q \in MapSpots
                   PROVE  fetch'.snap[q] = status'[q] \/ Corrected(q)'
        BY <1>0, <2>8 DEF SnapSound
      <3>1. fetch.snap \in Lists /\ (fetch.snap[q] = status[q] \/ Corrected(q))
        BY <1>0, <2>8 DEF SnapSound
      <3>2. fetch.bad \subseteq fetch'.bad
        BY <2>8
      <3> QED BY <2>3, <2>6, <2>8, <3>1, <3>2 DEF Corrected
    <2> QED BY <2>7, <2>9, <2>10 DEF MapSound, FirstFetch
  <1>9. ASSUME NEW stale \in BOOLEAN, Visit(stale) PROVE MapSound'
    <2>1. CASE fetch' = Asked
      BY <2>1, SoundAsked
    <2>2. CASE fetch' = fetch
      BY <1>9, <1>k, <2>2 DEF Visit
    <2> QED BY <1>9, <2>1, <2>2 DEF Visit
  <1>10. CASE LeavePage
    <2> DEFINE ps == OnWire \cup owed
    <2>1. /\ UNCHANGED <<status, due, list>> /\ wire' = <<>> /\ owed' = {}
          /\ wrong' = wrong \cup ps /\ fetch' = Spoilt(ps) /\ ps \in SUBSET MapSpots
      BY <1>10, <1>t DEF LeavePage
    <2> HIDE DEF ps
    <2>2. /\ fetch'.pc = fetch.pc /\ fetch'.snap = fetch.snap
          /\ fetch.pc = "read" => fetch'.bad = fetch.bad \cup ps
      BY <1>0, <2>1, SpoiltTyped
    <2>3. \A q \in MapSpots : Marked(q)' \/ (status'[q] = status[q] /\ ~Marked(q))
      BY <2>1 DEF Marked, ps
    <2>4. fetch.pc = "read" =>
             \A q \in MapSpots : Corrected(q)' \/ (status'[q] = status[q] /\ ~Corrected(q))
      <3>1. \A q : Tells(q) => q \in OnWire
        BY DEF Tells, OnWire
      <3> QED BY <2>1, <2>2, <3>1 DEF Corrected, ps
    <2>5. FirstFetch'
      BY <2>1 DEF FirstFetch
    <2> QED BY <1>0, <2>1, <2>2, <2>3, <2>4, <2>5, SoundKept DEF MapSound
  <1>11. CASE Refetch
    BY <1>11, SoundAsked DEF Refetch
  <1>12. CASE ServeList
    <2>1. fetch'.pc = "read" /\ fetch'.snap = status /\ owed' = {} /\ status' = status
      BY <1>12 DEF ServeList
    <2> QED BY <1>0, <2>1 DEF MapSound, FirstFetch, ListSound, SnapSound, MapTypeOK
  <1>13. CASE ListComes
    <2>1. /\ fetch.pc = "read" /\ list' = fetch.snap /\ wrong' = fetch.bad /\ fetch'.pc = "idle"
          /\ UNCHANGED <<status, due, wire, owed>>
      BY <1>13, FetchTyped DEF ListComes
    <2>2. \A q : Tells(q) => q \in OnWire
      BY DEF Tells, OnWire
    <2>3. ListSound'
      BY <1>0, <2>1, <2>2 DEF ListSound, SnapSound, Marked, Corrected, OnWire
    <2> QED BY <2>1, <2>3 DEF MapSound, FirstFetch, SnapSound
  <1>14. CASE ListFails
    BY <1>14, FetchTyped DEF ListFails, MapSound, FirstFetch, ListSound, SnapSound, Marked
  <1>15. CASE Forgotten
    BY <1>15 DEF Forgotten, MapSound, FirstFetch, ListSound, SnapSound
  <1>16. CASE UNCHANGED mvars
    BY <1>16, <1>k DEF mvars
  <1> QED BY <1>1, <1>2, <1>3, <1>4, <1>5, <1>6, <1>7, <1>8, <1>9, <1>10, <1>11, <1>12, <1>13,
             <1>14, <1>15, <1>16 DEF MapNext

LEMMA MapInvariant == MapSpec => []MapInv
  <1>1. MapInit => MapInv
    <2> SUFFICES ASSUME MapInit PROVE MapInv
      OBVIOUS
    <2>1. MapTypeOK
      <3>1. wire \in Seq(Messages) /\ due \subseteq MapSpots /\ owed \subseteq MapSpots
            /\ wrong \subseteq MapSpots
        BY DEF MapInit
      <3> QED BY <3>1, FetchTyped DEF MapInit, MapTypeOK
    <2>2. RoomTrue /\ MapSound
      BY FetchTyped DEF MapInit, RoomTrue, MapSound, FirstFetch, ListSound, SnapSound
    <2> QED BY <2>1, <2>2 DEF MapInv
  <1>2. MapInv /\ [MapNext]_mvars => MapInv'
    BY MapTypeStep, RoomStep, SoundStep DEF MapInv
  <1> QED BY <1>1, <1>2, PTL DEF MapSpec

\* The rows of the spots, the messages, the list and its fetch stay within their types.
THEOREM MapTyped == MapSpec => []MapTypeOK
  <1>1. MapInv => MapTypeOK
    BY DEF MapInv
  <1> QED BY MapInvariant, <1>1, PTL

\* However changes, messages, answers, connections and visits cross: once everything has
\* arrived a map that says it is live shows the statuses there are, but for the named
\* exceptions (useParkingSocket.ts 49-55).
THEOREM ScreenAlwaysTrue == MapSpec => []ScreenTrue
  <1>1. MapInv => ScreenTrue
    BY DEF MapInv, RoomTrue, MapSound, ListSound, Marked, OnWire, ScreenTrue, ShownLive, MapQuiet
  <1> QED BY MapInvariant, <1>1, PTL

-----------------------------------------------------------------------------
(* The bell.                                                               *)

\* Counting the unread ones makes a number.
LEMMA CountIsNat == ASSUME NEW S \in SUBSET NoteIds PROVE Cardinality(S) \in Nat
  BY InboxType, FS_Subset, FS_CardinalityType

LEMMA InboxInitType == InboxInit => InboxTypeOK
  <1> SUFFICES ASSUME InboxInit PROVE InboxTypeOK
    OBVIOUS
  <1>1. note \in [NoteIds -> NoteRows]
    BY DEF InboxInit, NoteRows
  <1>2. count \in CountRows
    BY DEF InboxInit, CountRows
  <1> QED BY <1>1, <1>2 DEF InboxInit, InboxTypeOK

LEMMA UnreadTyped == ASSUME NEW u PROVE Unread(u) \subseteq NoteIds
  BY DEF Unread

LEMMA AskTyped ==
    ASSUME count \in CountRows, user \in Readers \cup {None}, NEW u \in Readers \cup {None}
    PROVE  /\ AskCount \in CountRows
           /\ [AskCount EXCEPT !.whose = u] \in CountRows
           /\ \A b \in BOOLEAN : [count EXCEPT !.bad = b] \in CountRows
           /\ Outlived(count) \in CountRows
  BY DEF AskCount, Outlived, CountRows

LEMMA InboxStepType == InboxTypeOK /\ [InboxNext]_ivars => InboxTypeOK'
  <1> SUFFICES ASSUME InboxTypeOK, [InboxNext]_ivars PROVE InboxTypeOK'
    OBVIOUS
  <1> USE DEF InboxTypeOK
  <1>0. /\ AskCount \in CountRows /\ Outlived(count) \in CountRows
        /\ \A u \in Readers : [AskCount EXCEPT !.whose = u] \in CountRows
        /\ \A b \in BOOLEAN : [count EXCEPT !.bad = b] \in CountRows
    BY AskTyped
  <1>u. ASSUME NEW ns, Unheard(ns) PROVE amiss' \in BOOLEAN /\ count' \in CountRows
    BY <1>u, <1>0 DEF Unheard
  <1>1. CASE UNCHANGED ivars
    BY <1>1 DEF ivars
  <1>2. ASSUME NEW n \in NoteIds, NEW u \in Readers, CreateNote(n, u) PROVE InboxTypeOK'
    BY <1>2 DEF CreateNote, NoteRows
  <1>3. ASSUME NEW n \in NoteIds, PublishNote(n) PROVE InboxTypeOK'
    BY <1>3, <1>u DEF PublishNote
  <1>4. ASSUME NEW n \in NoteIds, PublishNoteFails(n) PROVE InboxTypeOK'
    BY <1>4, <1>u DEF PublishNoteFails
  <1>5. ASSUME NEW n \in NoteIds, Ring(n) PROVE InboxTypeOK'
    <2>1. CASE user = None
      BY <1>5, <2>1 DEF Ring
    <2>2. CASE user # None
      <3>1. bell' \in Nat \cup {None}
        BY <1>5, <2>2 DEF Ring
      <3>2. count' \in CountRows /\ amiss' \in BOOLEAN
        BY <1>5, <2>2, <1>0 DEF Ring
      <3> QED BY <1>5, <3>1, <3>2 DEF Ring
    <2> QED BY <2>1, <2>2
  <1>6. ASSUME NEW n \in NoteIds, MarkElsewhere(n) PROVE InboxTypeOK'
    BY <1>6, <1>u DEF MarkElsewhere, NoteRows
  <1>7. CASE JoinOwnRoom \/ ConnectAs \/ MapOpens \/ TokenEnds \/ TokenRenewed
    BY <1>7 DEF JoinOwnRoom, ConnectAs, MapOpens, TokenEnds, TokenRenewed
  <1>8. CASE CutOff
    BY <1>8, <1>u DEF CutOff
  <1>9. ASSUME NEW u \in Readers, NEW old \in BOOLEAN, SessionBegins(u, old) PROVE InboxTypeOK'
    BY <1>9, <1>0 DEF SessionBegins
  <1>10. CASE SignsOutHere \/ SessionRefused
    BY <1>10, <1>0 DEF SignsOutHere, SessionRefused
  <1>11. CASE RefetchCount
    BY <1>11, <1>0 DEF RefetchCount
  <1>12. CASE CountUnread
    BY <1>12, UnreadTyped DEF CountUnread, CountRows
  <1>13. CASE CountComes
    <2>1. bell' \in Nat
      BY <1>13, CountIsNat DEF CountComes, CountRows
    <2>2. amiss' \in BOOLEAN
      BY <1>13 DEF CountComes, CountRows
    <2>3. count' \in CountRows
      BY <1>13 DEF CountComes, CountRows
    <2> QED BY <1>13, <2>1, <2>2, <2>3 DEF CountComes
  <1>14. CASE CountFails
    BY <1>14 DEF CountFails, CountRows
  <1>15. ASSUME NEW ns \in SUBSET NoteIds, MarkRead(ns) PROVE InboxTypeOK'
    BY <1>15 DEF MarkRead, NoteRows
  <1>16. CASE MarkAnswered
    BY <1>16, <1>0 DEF MarkAnswered
  <1>17. CASE MarkUnanswered
    BY <1>17, <1>0 DEF MarkUnanswered
  <1> QED BY <1>1, <1>2, <1>3, <1>4, <1>5, <1>6, <1>7, <1>8, <1>9, <1>10, <1>11, <1>12,
             <1>13, <1>14, <1>15, <1>16, <1>17 DEF InboxNext

\* The state of the bell stays within its type.
THEOREM InboxTyped == InboxSpec => []InboxTypeOK
  BY InboxInitType, InboxStepType, PTL DEF InboxSpec

LEMMA OwnRoomStep == InboxTypeOK /\ OwnRoomOnly /\ [InboxNext]_ivars => OwnRoomOnly'
  <1> SUFFICES ASSUME InboxTypeOK, OwnRoomOnly, [InboxNext]_ivars PROVE OwnRoomOnly'
    OBVIOUS
  <1> USE DEF OwnRoomOnly
  \* Joining takes the user of the store, and leaving forgets.
  <1>1. CASE ConnectAs \/ CutOff \/ SignsOutHere
    BY <1>1 DEF ConnectAs, CutOff, SignsOutHere
  \* The user changes and the socket stays: kept.
  <1>2. CASE SessionRefused
    BY <1>2 DEF SessionRefused, InboxTypeOK
  <1>3. ASSUME NEW u \in Readers, NEW old \in BOOLEAN, SessionBegins(u, old) PROVE OwnRoomOnly'
    BY <1>3 DEF SessionBegins, InboxTypeOK
  \* Nothing else touches the three.
  <1>4. CASE UNCHANGED <<ears, user, kept>>
    BY <1>4
  <1>5. CASE \E n \in NoteIds :
               \/ \E u \in Readers : CreateNote(n, u)
               \/ PublishNote(n) \/ PublishNoteFails(n) \/ Ring(n) \/ MarkElsewhere(n)
    BY <1>4, <1>5 DEF CreateNote, PublishNote, PublishNoteFails, Ring, MarkElsewhere
  <1>6. CASE JoinOwnRoom \/ MapOpens \/ TokenEnds \/ TokenRenewed
    BY <1>4, <1>6 DEF JoinOwnRoom, MapOpens, TokenEnds, TokenRenewed
  <1>7. CASE RefetchCount \/ CountUnread \/ CountComes \/ CountFails
    BY <1>4, <1>7 DEF RefetchCount, CountUnread, CountComes, CountFails
  <1>8. CASE (\E ns \in SUBSET NoteIds : MarkRead(ns)) \/ MarkAnswered \/ MarkUnanswered
    BY <1>4, <1>8 DEF MarkRead, MarkAnswered, MarkUnanswered
  <1>9. CASE UNCHANGED ivars
    BY <1>4, <1>9 DEF ivars
  <1> QED BY <1>1, <1>2, <1>3, <1>5, <1>6, <1>7, <1>8, <1>9 DEF InboxNext

\* The socket is in nobody's private room but that of the one signed in, unless a session
\* has ended without a sign-out (Header.tsx 111-121).
THEOREM OnlyOwnRoom == InboxSpec => []OwnRoomOnly
  <1>1. InboxInit => OwnRoomOnly
    BY DEF InboxInit, OwnRoomOnly
  <1> QED BY <1>1, InboxTyped, OwnRoomStep, PTL DEF InboxSpec

\* A notification is somebody's before it is published or counted, and published once.
NotesTrue ==
    /\ unsent \cap pushed = {}
    /\ \A n \in unsent \cup pushed \cup count.base \cup count.snap : note[n].to # None
    /\ count.pc # "idle" => count.whose # None

\* Those that the bell stands for: a push that is still to come will ring.
Counted == {n \in Unread(user) : n \notin unsent \cup pushed \/ n \in count.base}
BellSound ==
    user # None /\ bell # None /\ ~amiss /\ ~marking /\ count.pc = "idle"
        => bell = Cardinality(Counted)
\* No bell, and nothing that will bring it: only after a failed fetch.
BellAsked == user # None /\ bell = None /\ count.pc = "idle" => amiss

\* What was counted is unread, and what is unread was counted or will ring.
Followed ==
    /\ count.snap \subseteq Unread(user)
    /\ Unread(user) \subseteq count.snap \cup unsent \cup pushed
CountSound ==
    user # None /\ count.pc # "idle" /\ ~count.bad =>
        count.whose = user /\ (count.pc = "read" /\ ~marking => Followed)

BadgeSound == BellSound /\ BellAsked /\ CountSound
BadgeInv   == InboxTypeOK /\ NotesTrue /\ BadgeSound

LEMMA AskShape ==
    ASSUME InboxTypeOK
    PROVE  /\ AskCount.pc = "asked" /\ AskCount.whose = user /\ AskCount.snap = {}
           /\ AskCount.base = count.base
           /\ \A u : /\ [AskCount EXCEPT !.whose = u].pc = "asked"
                     /\ [AskCount EXCEPT !.whose = u].whose = u
                     /\ [AskCount EXCEPT !.whose = u].snap = {}
                     /\ [AskCount EXCEPT !.whose = u].base = count.base
           /\ Outlived(count).pc = count.pc /\ Outlived(count).whose = count.whose
           /\ Outlived(count).snap = count.snap /\ Outlived(count).base = count.base
           /\ count.pc # "idle" => Outlived(count).bad
           /\ \A b : /\ [count EXCEPT !.bad = b].pc = count.pc
                     /\ [count EXCEPT !.bad = b].whose = count.whose
                     /\ [count EXCEPT !.bad = b].snap = count.snap
                     /\ [count EXCEPT !.bad = b].base = count.base
                     /\ [count EXCEPT !.bad = b].bad = b
  BY DEF InboxTypeOK, CountRows, AskCount, Outlived

LEMMA NotesStep == InboxTypeOK /\ NotesTrue /\ [InboxNext]_ivars => NotesTrue'
  <1> SUFFICES ASSUME InboxTypeOK, NotesTrue, [InboxNext]_ivars PROVE NotesTrue'
    OBVIOUS
  <1>t. /\ note \in [NoteIds -> NoteRows] /\ unsent \subseteq NoteIds /\ pushed \subseteq NoteIds
        /\ count.base \subseteq NoteIds /\ count.snap \subseteq NoteIds
    BY DEF InboxTypeOK, CountRows
  \* The owner of a notification never changes.
  <1>k. ASSUME \A n \in NoteIds : note[n].to # None => note'[n].to = note[n].to,
               unsent' \cap pushed' = {},
               unsent' \cup pushed' \subseteq unsent \cup pushed,
               count'.base \subseteq count.base \cup count.snap, count'.snap \subseteq count.snap,
               count'.pc # "idle" => count'.whose # None
        PROVE  NotesTrue'
    BY <1>t, <1>k DEF NotesTrue
  <1>c. UNCHANGED count \/ count' = Outlived(count) \/ (\E b : count' = [count EXCEPT !.bad = b])
          => /\ count'.base = count.base /\ count'.snap = count.snap
             /\ count'.pc # "idle" => count'.whose # None
    <2>1. CASE UNCHANGED count
      BY <2>1 DEF NotesTrue
    <2>2. CASE count' = Outlived(count)
      BY <2>2, AskShape DEF NotesTrue
    <2>3. ASSUME NEW b, count' = [count EXCEPT !.bad = b]
          PROVE  /\ count'.base = count.base /\ count'.snap = count.snap
                 /\ count'.pc # "idle" => count'.whose # None
      BY <2>3, AskShape DEF NotesTrue
    <2> QED BY <2>1, <2>2, <2>3
  <1>a. (count' = AskCount /\ user # None)
            \/ (\E u \in Readers : count' = [AskCount EXCEPT !.whose = u])
          => count'.base = count.base /\ count'.snap = {} /\ count'.whose # None
    <2>1. CASE count' = AskCount /\ user # None
      BY <2>1, AskShape
    <2>2. ASSUME NEW u \in Readers, count' = [AskCount EXCEPT !.whose = u]
          PROVE  count'.base = count.base /\ count'.snap = {} /\ count'.whose # None
      BY <2>2, AskShape, InboxType
    <2> QED BY <2>1, <2>2
  <1>1. ASSUME NEW n \in NoteIds, NEW u \in Readers, CreateNote(n, u) PROVE NotesTrue'
    <2>1. \A k \in NoteIds : note'[k].to = IF k = n THEN u ELSE note[k].to
      BY <1>1, <1>t DEF CreateNote, NoteRows
    <2>2. n \notin pushed
      BY <1>1 DEF CreateNote, NotesTrue
    <2> QED BY <1>1, <1>t, <2>1, <2>2, InboxType DEF CreateNote, NotesTrue
  <1>2. ASSUME NEW n \in NoteIds, PublishNote(n) \/ PublishNoteFails(n) \/ Ring(n) PROVE NotesTrue'
    <2>1. UNCHANGED count \/ \E b : count' = [count EXCEPT !.bad = b]
      BY <1>2 DEF PublishNote, PublishNoteFails, Ring, Unheard
    <2>2. /\ note' = note /\ unsent' \cap pushed' = {}
          /\ unsent' \cup pushed' \subseteq unsent \cup pushed
      BY <1>2 DEF PublishNote, PublishNoteFails, Ring, NotesTrue
    <2> QED BY <1>c, <1>k, <2>1, <2>2
  <1>3. ASSUME NEW n \in NoteIds, MarkElsewhere(n) PROVE NotesTrue'
    <2>1. \A k \in NoteIds : note'[k].to = note[k].to
      BY <1>3, <1>t DEF MarkElsewhere, NoteRows
    <2>2. \E b : count' = [count EXCEPT !.bad = b]
      BY <1>3 DEF MarkElsewhere, Unheard
    <2> QED BY <1>3, <1>c, <1>k, <2>1, <2>2 DEF MarkElsewhere, NotesTrue
  <1>4. ASSUME NEW ns \in SUBSET NoteIds, MarkRead(ns) PROVE NotesTrue'
    <2>1. \A k \in NoteIds : note'[k].to = note[k].to
      BY <1>4, <1>t DEF MarkRead, NoteRows
    <2> QED BY <1>4, <1>c, <1>k, <2>1 DEF MarkRead, NotesTrue
  <1>5. CASE CutOff
    <2>1. \E b : count' = [count EXCEPT !.bad = b]
      BY <1>5 DEF CutOff, Unheard
    <2> QED BY <1>5, <1>c, <1>k, <2>1 DEF CutOff
  <1>6. ASSUME NEW u \in Readers, NEW old \in BOOLEAN, SessionBegins(u, old) PROVE NotesTrue'
    <2>1. count' = [AskCount EXCEPT !.whose = u] \/ count' = Outlived(count)
      BY <1>6 DEF SessionBegins
    <2> QED BY <1>6, <1>a, <1>c, <1>k, <2>1 DEF SessionBegins, NotesTrue
  <1>7. CASE SignsOutHere \/ SessionRefused
    BY <1>7, <1>c, <1>k DEF SignsOutHere, SessionRefused, NotesTrue
  <1>8. CASE RefetchCount
    BY <1>8, <1>a, <1>k DEF RefetchCount, NotesTrue
  <1>9. CASE CountUnread
    <2>1. /\ count'.snap = Unread(count.whose) /\ count'.base = count.base
          /\ count'.whose = count.whose /\ count.whose # None
          /\ UNCHANGED <<note, unsent, pushed>>
      BY <1>9 DEF CountUnread, InboxTypeOK, CountRows, NotesTrue
    <2>2. \A n \in count'.snap : note[n].to # None
      BY <2>1 DEF Unread
    <2> QED BY <2>1, <2>2 DEF NotesTrue
  <1>10. CASE CountComes \/ CountFails
    <2>1. /\ count'.snap = {} /\ count'.base \in {count.snap, count.base} /\ count'.pc = "idle"
          /\ UNCHANGED <<note, unsent, pushed>>
      BY <1>10 DEF CountComes, CountFails, InboxTypeOK, CountRows
    <2> QED BY <1>k, <2>1 DEF NotesTrue
  <1>11. CASE MarkAnswered \/ MarkUnanswered
    <2>1. /\ \/ count' = AskCount /\ user # None
             \/ count' = count
             \/ \E b : count' = [count EXCEPT !.bad = b]
          /\ UNCHANGED <<note, unsent, pushed>>
      BY <1>11 DEF MarkAnswered, MarkUnanswered
    <2> QED BY <1>a, <1>c, <1>k, <2>1 DEF NotesTrue
  <1>12. CASE JoinOwnRoom \/ ConnectAs \/ MapOpens \/ TokenEnds \/ TokenRenewed \/ UNCHANGED ivars
    BY <1>12, <1>c, <1>k
    DEF JoinOwnRoom, ConnectAs, MapOpens, TokenEnds, TokenRenewed, ivars, NotesTrue
  <1> QED BY <1>1, <1>2, <1>3, <1>4, <1>5, <1>6, <1>7, <1>8, <1>9, <1>10, <1>11, <1>12
          DEF InboxNext

\* Nothing happens to the bell but that other notifications come and go.
LEMMA BadgeKept ==
    ASSUME BadgeSound, user' = user, bell' = bell, ~amiss' => ~amiss, ~marking' => ~marking,
           count'.pc = count.pc, count'.whose = count.whose, count'.snap = count.snap,
           ~count'.bad => ~count.bad,
           user # None /\ ~amiss' => Counted' = Counted,
           user # None /\ count.pc = "read" /\ ~count'.bad /\ Followed => Followed'
    PROVE  BadgeSound'
  BY DEF BadgeSound, BellSound, BellAsked, CountSound

\* The count is asked for, for the one signed in.
LEMMA BadgeAsked ==
    ASSUME count'.pc = "asked", count'.whose = user' PROVE BadgeSound'
  BY DEF BadgeSound, BellSound, BellAsked, CountSound

\* Nobody is signed in.
LEMMA BadgeNobody == ASSUME user' = None PROVE BadgeSound'
  BY DEF BadgeSound, BellSound, BellAsked, CountSound

\* Something about ns is not heard: if it concerns the user, the history says so.
LEMMA BadgeUnheard ==
    ASSUME BadgeInv, NEW ns \in SUBSET NoteIds, Unheard(ns), user' = user, bell' = bell,
           marking' = marking,
           note' \in [NoteIds -> NoteRows],
           \A n \in NoteIds : note'[n].to = note[n].to /\ (n \notin ns => note'[n] = note[n]),
           \A n \in NoteIds \ ns : n \in unsent \cup pushed <=> n \in unsent' \cup pushed'
    PROVE  BadgeSound'
  <1> DEFINE mine == \E n \in ns : note[n].to = user
  <1>1. InboxTypeOK /\ NotesTrue /\ BadgeSound
    BY DEF BadgeInv
  <1>2. amiss' = (amiss \/ mine) /\ count' = [count EXCEPT !.bad = @ \/ (mine /\ count.pc = "read")]
    BY DEF Unheard
  <1>3. ~mine => \A n \in ns : note[n].to # user
    OBVIOUS
  <1> HIDE DEF mine
  <1>4. /\ count'.pc = count.pc /\ count'.whose = count.whose /\ count'.snap = count.snap
        /\ count'.base = count.base /\ (count'.bad <=> count.bad \/ (mine /\ count.pc = "read"))
    BY <1>1, <1>2 DEF InboxTypeOK, CountRows
  <1>5. ~mine => \A n \in NoteIds : n \in Unread(user)' <=> n \in Unread(user)
    BY <1>3 DEF Unread
  <1>6. ~mine => \A n \in Unread(user) : n \notin ns
    BY <1>3 DEF Unread
  <1>7. ~mine => Counted' = Counted
    BY <1>4, <1>5, <1>6 DEF Counted, Unread
  <1>8. ~mine /\ Followed => Followed'
    BY <1>1, <1>4, <1>5, <1>6 DEF Followed, Unread, InboxTypeOK, CountRows
  <1>9. (~amiss' => ~amiss /\ ~mine) /\ (~count'.bad => ~count.bad)
    BY <1>2, <1>4
  <1>10. count.pc = "read" /\ ~count'.bad => ~mine
    BY <1>4
  <1> QED BY <1>1, <1>4, <1>7, <1>8, <1>9, <1>10, BadgeKept

LEMMA BadgeStep == BadgeInv /\ [InboxNext]_ivars => BadgeSound'
  <1> SUFFICES ASSUME BadgeInv, [InboxNext]_ivars PROVE BadgeSound'
    OBVIOUS
  <1>0. InboxTypeOK /\ NotesTrue /\ BadgeSound /\ BellSound /\ BellAsked /\ CountSound
    BY DEF BadgeInv, BadgeSound
  <1>t. /\ note \in [NoteIds -> NoteRows] /\ unsent \subseteq NoteIds /\ pushed \subseteq NoteIds
        /\ count \in CountRows
    BY <1>0 DEF InboxTypeOK
  <1>k. ASSUME UNCHANGED <<note, unsent, user, pushed, bell, count, marking, amiss>>
        PROVE  BadgeSound'
    BY <1>0, <1>k DEF BadgeSound, BellSound, BellAsked, CountSound, Followed, Counted, Unread
  \* One that was not counted, and will ring.
  <1>1. ASSUME NEW n \in NoteIds, NEW u \in Readers, CreateNote(n, u) PROVE BadgeSound'
    <2>1. /\ \A k \in NoteIds : k # n => note'[k] = note[k]
          /\ note[n].to = None /\ unsent' = unsent \cup {n}
          /\ UNCHANGED <<user, pushed, bell, count, marking, amiss>>
      BY <1>1, <1>t DEF CreateNote
    <2>2. n \notin count.base
      BY <1>0, <2>1 DEF NotesTrue
    <2>3. user # None => \A k \in NoteIds : k \in Unread(user)' /\ k # n <=> k \in Unread(user)
      BY <2>1 DEF Unread
    <2>4. user # None => Counted' = Counted
      BY <2>1, <2>2, <2>3 DEF Counted, Unread
    <2>5. user # None /\ Followed => Followed'
      BY <2>1, <2>3 DEF Followed, Unread
    <2> QED BY <1>0, <2>1, <2>4, <2>5, BadgeKept
  <1>2. ASSUME NEW n \in NoteIds, PublishNote(n) PROVE BadgeSound'
    <2>1. CASE Unheard({n}) /\ pushed' = pushed
      BY <1>2, <1>t, <2>1, BadgeUnheard DEF PublishNote
    <2>2. CASE pushed' = pushed \cup {n} /\ UNCHANGED <<amiss, count>>
      <3>1. /\ unsent' \cup pushed' = unsent \cup pushed
            /\ UNCHANGED <<note, user, bell, count, marking, amiss>>
        BY <1>2, <2>2 DEF PublishNote
      <3>2. Counted' = Counted /\ (Followed => Followed')
        BY <3>1 DEF Counted, Followed, Unread
      <3> QED BY <1>0, <3>1, <3>2, BadgeKept
    <2> QED BY <1>2, <2>1, <2>2 DEF PublishNote
  <1>3. ASSUME NEW n \in NoteIds, PublishNoteFails(n) PROVE BadgeSound'
    BY <1>3, <1>t, BadgeUnheard DEF PublishNoteFails
  <1>4. ASSUME NEW n \in NoteIds, MarkElsewhere(n) PROVE BadgeSound'
    <2>1. /\ \A k \in NoteIds : note'[k].to = note[k].to /\ (k # n => note'[k] = note[k])
          /\ note' \in [NoteIds -> NoteRows]
      BY <1>4, <1>t DEF MarkElsewhere, NoteRows
    <2> QED BY <1>4, <2>1, BadgeUnheard DEF MarkElsewhere
  <1>5. CASE CutOff
    BY <1>5, <1>t, BadgeUnheard DEF CutOff
  \* One more, unless it was counted already or is not to be counted.
  <1>6. ASSUME NEW n \in NoteIds, Ring(n) PROVE BadgeSound'
    <2>1. CASE user = None
      BY <1>6, <2>1, BadgeNobody DEF Ring
    <2>2. CASE user # None
      <3>1. /\ n \in pushed /\ pushed' = pushed \ {n}
            /\ UNCHANGED <<note, unsent, user, marking>>
            /\ bell' = IF bell = None THEN 1 ELSE bell + 1
            /\ amiss' = (amiss \/ n \in count.base \/ n \notin Unread(user))
        BY <1>6, <2>2 DEF Ring
      <3>2. /\ count'.pc = count.pc /\ count'.whose = count.whose
            /\ count'.snap = count.snap /\ count'.base = count.base
            /\ count'.bad <=> count.bad \/ (count.pc = "read" /\ n \notin count.snap)
        BY <1>6, <1>t, <2>2 DEF Ring, CountRows
      <3>3. BellSound'
        <4> SUFFICES ASSUME ~amiss', ~marking', count'.pc = "idle", bell' # None
                     PROVE  bell' = Cardinality(Counted')
          BY DEF BellSound
        <4>1. ~amiss /\ n \notin count.base /\ n \in Unread(user)
          BY <3>1
        <4>2. bell # None /\ bell = Cardinality(Counted)
          BY <1>0, <2>2, <3>1, <3>2, <4>1 DEF BellAsked, BellSound
        <4>3. n \notin unsent /\ n \notin Counted
          BY <1>0, <3>1, <4>1 DEF NotesTrue, Counted
        <4>4. Counted' = Counted \cup {n}
          BY <3>1, <3>2, <4>1, <4>3 DEF Counted, Unread
        <4>5. IsFiniteSet(Counted)
          BY InboxType, FS_Subset DEF Counted, Unread
        <4>6. Cardinality(Counted \cup {n}) = Cardinality(Counted) + 1
          BY <4>3, <4>5, FS_AddElement
        <4> QED BY <3>1, <4>2, <4>4, <4>6
      <3>4. BellAsked'
        BY <1>0, <2>2, <3>1, <3>2, InboxType DEF BellAsked, InboxTypeOK
      <3>5. CountSound'
        <4>1. count.pc = "read" /\ ~count'.bad /\ Followed => Followed'
          BY <3>1, <3>2 DEF Followed, Unread
        <4> QED BY <1>0, <3>1, <3>2, <4>1 DEF CountSound
      <3> QED BY <3>3, <3>4, <3>5 DEF BadgeSound
    <2> QED BY <2>1, <2>2
  \* What was cached, or is on its way, for somebody else is known to be wrong.
  <1>7. ASSUME NEW u \in Readers, NEW old \in BOOLEAN, SessionBegins(u, old) PROVE BadgeSound'
    <2>1. CASE count' = [AskCount EXCEPT !.whose = u]
      <3>1. user' = u /\ count'.pc = "asked" /\ count'.whose = u
        <4>1. user' = u
          BY <1>7 DEF SessionBegins
        <4>2. [AskCount EXCEPT !.whose = u].pc = "asked" /\ [AskCount EXCEPT !.whose = u].whose = u
          BY <1>0, AskShape
        <4> QED BY <2>1, <4>1, <4>2
      <3> QED BY <3>1 DEF BadgeSound, BellSound, BellAsked, CountSound
    <2>2. CASE count' = Outlived(count) /\ (count.pc # "idle" \/ bell # None)
      <3>1. /\ bell' = bell /\ (bell # None => amiss')
            /\ count'.pc = count.pc /\ (count.pc # "idle" => count'.bad)
        BY <1>0, <1>7, <2>2, AskShape DEF SessionBegins
      <3> QED BY <2>2, <3>1 DEF BadgeSound, BellSound, BellAsked, CountSound
    <2> QED BY <1>7, <2>1, <2>2 DEF SessionBegins
  <1>8. CASE SignsOutHere \/ SessionRefused
    BY <1>8, BadgeNobody DEF SignsOutHere, SessionRefused
  <1>9. CASE RefetchCount
    BY <1>0, <1>9, AskShape, BadgeAsked DEF RefetchCount
  <1>10. CASE CountUnread
    <2>1. /\ count.pc = "asked" /\ count'.pc = "read" /\ count'.snap = Unread(count.whose)
          /\ count'.whose = count.whose /\ count'.bad = count.bad
          /\ UNCHANGED <<note, unsent, user, pushed, marking>>
      BY <1>10, <1>t DEF CountUnread, CountRows
    <2>2. user # None /\ ~count'.bad => count'.whose = user /\ Followed'
      BY <1>0, <2>1 DEF CountSound, Followed, Unread
    <2> QED BY <2>1, <2>2 DEF BadgeSound, BellSound, BellAsked, CountSound
  \* The bell stands for what was counted, and for nothing else.
  <1>11. CASE CountComes
    <2>1. /\ count.pc = "read" /\ bell' = Cardinality(count.snap) /\ amiss' = count.bad
          /\ count'.pc = "idle" /\ count'.base = count.snap
          /\ UNCHANGED <<note, unsent, user, pushed, marking>>
      BY <1>11, <1>t DEF CountComes, CountRows
    <2>2. BellSound'
      <3> SUFFICES ASSUME user # None, ~count.bad, ~marking PROVE Counted' = count.snap
        BY <2>1 DEF BellSound
      <3>1. Followed
        BY <1>0, <2>1 DEF CountSound
      <3>2. Unread(user)' = Unread(user)
        BY <2>1 DEF Unread
      <3> QED BY <2>1, <3>1, <3>2 DEF Counted, Followed
    <2>3. bell' # None
      BY <1>t, <2>1, CountIsNat, InboxType DEF CountRows
    <2> QED BY <2>1, <2>2, <2>3 DEF BadgeSound, BellAsked, CountSound
  <1>12. CASE CountFails
    BY <1>12, <1>t DEF CountFails, CountRows, BadgeSound, BellSound, BellAsked, CountSound
  <1>13. ASSUME NEW ns \in SUBSET NoteIds, MarkRead(ns) PROVE BadgeSound'
    BY <1>0, <1>13 DEF MarkRead, BadgeSound, BellSound, BellAsked, CountSound
  <1>14. CASE MarkAnswered
    <2>1. CASE bell = None /\ count.pc # "idle"
      <3>1. /\ count'.pc = count.pc /\ count'.whose = count.whose
            /\ count'.bad <=> count.bad \/ count.pc = "read"
            /\ UNCHANGED <<user, bell>>
        BY <1>14, <1>t, <2>1 DEF MarkAnswered, CountRows
      <3> QED BY <1>0, <2>1, <3>1 DEF BadgeSound, BellSound, BellAsked, CountSound
    <2>2. CASE count' = AskCount /\ user' = user
      BY <1>0, <2>2, AskShape, BadgeAsked
    <2>3. CASE user' = None
      BY <2>3, BadgeNobody
    <2> QED BY <1>14, <2>1, <2>2, <2>3 DEF MarkAnswered
  <1>15. CASE MarkUnanswered
    <2>1. /\ count'.pc = count.pc /\ count'.whose = count.whose
          /\ count'.bad <=> count.bad \/ count.pc = "read"
          /\ amiss' /\ UNCHANGED <<user, bell>>
      BY <1>15, <1>t DEF MarkUnanswered, CountRows
    <2> QED BY <1>0, <2>1 DEF BadgeSound, BellSound, BellAsked, CountSound
  <1>16. CASE JoinOwnRoom \/ ConnectAs \/ MapOpens \/ TokenEnds \/ TokenRenewed \/ UNCHANGED ivars
    BY <1>16, <1>k DEF JoinOwnRoom, ConnectAs, MapOpens, TokenEnds, TokenRenewed, ivars
  <1> QED BY <1>1, <1>2, <1>3, <1>4, <1>5, <1>6, <1>7, <1>8, <1>9, <1>10, <1>11, <1>12, <1>13,
             <1>14, <1>15, <1>16 DEF InboxNext

\* However pushes, answers, readings and sessions cross: once everything has arrived the badge
\* shows how many of the user's notifications are unread, but for the named exceptions.
THEOREM BadgeAlwaysTrue == InboxSpec => []BadgeTrue
  <1>1. InboxInit => BadgeInv
    <2> SUFFICES ASSUME InboxInit PROVE BadgeInv
      OBVIOUS
    <2>1. NotesTrue /\ BadgeSound
      BY DEF InboxInit, NotesTrue, BadgeSound, BellSound, BellAsked, CountSound
    <2> QED BY <2>1, InboxInitType DEF BadgeInv
  <1>2. BadgeInv /\ [InboxNext]_ivars => BadgeInv'
    BY InboxStepType, NotesStep, BadgeStep DEF BadgeInv
  <1>3. BadgeInv => BadgeTrue
    <2>1. unsent = {} /\ pushed = {} => Counted = Unread(user)
      BY DEF Counted
    <2> QED BY <2>1 DEF BadgeInv, BadgeSound, BellSound, BadgeTrue, InboxQuiet
  <1> QED BY <1>1, <1>2, <1>3, PTL DEF InboxSpec
=============================================================================
