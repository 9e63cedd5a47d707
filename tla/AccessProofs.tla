---------------------------- MODULE AccessProofs ----------------------------
(***************************************************************************)
(* Theorems about Access, for every set of accounts, requests, tabs and    *)
(* tokens.                                                                 *)
(***************************************************************************)
EXTENDS Access, TLAPS

USE NobodyAssumption, ActorsAssumption

(***************************************************************************)
(* Type correctness, with what an actor holds where it is.                 *)
(***************************************************************************)
RequestsHold ==
  \A r \in Requests :
    /\ requestPc[r] \in {"write", "revoke", "apply"} =>
         request[r].target \in Admins
    /\ request[r].op = "disable" => request[r].role = "admin"

TabsHold ==
  \A c \in Clients :
    /\ clientPc[c] # "idle" => account[c] \in Admins
    /\ clientPc[c] \in {"burn", "check", "undo"} =>
         /\ held[c] \in Tokens
         /\ token[held[c]] # "free"
         /\ owner[held[c]] = account[c]

\* A token that was issued has a login, and the login's first token was too.
LoginsKnown ==
  \A t \in Tokens : token[t] # "free" =>
    login[t] \in Tokens /\ token[login[t]] # "free"

Typed == TypeOK /\ RequestsHold /\ TabsHold /\ LoginsKnown

LEMMA InitTyped == Init => Typed
<1> SUFFICES ASSUME Init PROVE Typed
  OBVIOUS
<1>1. NoOp \in Asked
  BY DEF NoOp, Asked, Roles
<1>2. TypeOK
  <2>1. \A t \in Tokens : token[t] = "free" <=> owner[t] = Nobody
    BY DEF Init
  <2>2. QED BY <1>1, <2>1 DEF Init, TypeOK
<1>3. RequestsHold /\ TabsHold /\ LoginsKnown
  BY DEF Init, RequestsHold, TabsHold, LoginsKnown, NoOp
<1>4. QED BY <1>2, <1>3 DEF Typed

LEMMA BurnType ==
  ASSUME Typed, NEW S
  PROVE  /\ Burn(S) \in [Tokens -> {"free", "live", "burnt"}]
         /\ \A t \in Tokens : /\ Burn(S)[t] = "free" <=> token[t] = "free"
                              /\ Burn(S)[t] = "live" <=> token[t] = "live" /\ t \notin S
BY DEF Burn, Typed, TypeOK

LEMMA RequestTyped ==
  ASSUME Typed, NEW r \in Requests, Request(r)
  PROVE  Typed'
<1> USE DEF Typed, TypeOK, RequestsHold, TabsHold, LoginsKnown, RequestOnly,
            roster, table, tabs, Actors
<1>e. ASSUME RequestEnds(r)
      PROVE  /\ requestPc' \in [Requests -> {"new", "write", "revoke", "apply",
                                             "done"}]
             /\ request' \in [Requests -> Asked]
             /\ caught' \in [Actors -> SUBSET Tokens]
             /\ RequestsHold'
  BY <1>e DEF RequestEnds, NoOp, Asked, Roles
<1>1. CASE \E op \in {"update", "disable", "enable", "reset"}, target \in Admins,
              newRole \in Roles : RequestRead(r, op, target, newRole)
  <2>1. PICK op \in {"update", "disable", "enable", "reset"}, target \in Admins,
             newRole \in Roles : RequestRead(r, op, target, newRole)
    BY <1>1
  <2>2. [op |-> op, target |-> target, role |-> newRole,
         was |-> IF op \in {"update", "disable"} THEN role[target]
                 ELSE "admin"] \in Asked
    BY DEF Asked, Roles
  <2>3. /\ request' \in [Requests -> Asked]
        /\ request'[r].target = target
        /\ request'[r].op = "disable" => request'[r].role = "admin"
    BY <2>1, <2>2 DEF RequestRead
  <2>4. RequestsHold'
    BY <2>1, <2>3 DEF RequestRead
  <2>5. QED BY <2>1, <2>3, <2>4 DEF RequestRead
<1>2. CASE UpdateWrite(r)
  <2>1. request[r].role \in Roles
    BY DEF Asked
  <2>2. QED BY <1>2, <1>e, <2>1 DEF UpdateWrite
<1>3. CASE DisableWrite(r)
  <2>1. CASE disabled[request[r].target]
    BY <1>3, <2>1, <1>e DEF DisableWrite
  <2>2. CASE ~disabled[request[r].target]
    <3>1. disabled' = [disabled EXCEPT ![request[r].target] = TRUE]
          /\ requestPc' = [requestPc EXCEPT ![r] = "revoke"]
          /\ requestPc[r] = "write"
          /\ UNCHANGED <<request, caught, role, overtaken>> /\ RequestOnly
      BY <1>3, <2>2 DEF DisableWrite
    <3>2. disabled' \in [Admins -> BOOLEAN]
      BY <3>1
    <3>3. QED BY <3>1, <3>2
  <2>3. QED BY <2>1, <2>2
<1>4. CASE RequestRefused(r)
  BY <1>4, <1>e DEF RequestRefused
<1>5. CASE EnableWrite(r)
  BY <1>5, <1>e DEF EnableWrite
<1>6. CASE RevokeAllStarts(r)
  BY <1>6 DEF RevokeAllStarts, LiveOf
<1>7. CASE RevokeAllEnds(r)
  BY <1>7, <1>e, BurnType DEF RevokeAllEnds
<1>8. QED
  BY <1>1, <1>2, <1>3, <1>4, <1>5, <1>6, <1>7 DEF Request

LEMMA ClientTyped ==
  ASSUME Typed, NEW c \in Clients, Client(c)
  PROVE  Typed'
<1> USE DEF Typed, TypeOK, RequestsHold, TabsHold, LoginsKnown, ClientOnly,
            roster, asked, table, Actors
<1>e. ASSUME TabEnds(c)
      PROVE  /\ clientPc' \in [Clients -> {"idle", "issue", "burn", "check",
                                           "undo", "revoke", "apply"}]
             /\ held' \in [Clients -> Tokens \cup {Nobody}]
             /\ account' \in [Clients -> Admins \cup {Nobody}]
             /\ caught' \in [Actors -> SUBSET Tokens]
             /\ \A d \in Clients \ {c} : /\ clientPc'[d] = clientPc[d]
                                         /\ held'[d] = held[d]
                                         /\ account'[d] = account[d]
             /\ clientPc'[c] = "idle"
  BY <1>e DEF TabEnds
<1>1. ASSUME NEW a \in Admins, LoginCheck(c, a) PROVE Typed'
  BY <1>1 DEF LoginCheck, Tab
<1>2. ASSUME NEW t \in Tokens, LoginIssue(c, t) PROVE Typed'
  BY <1>2 DEF LoginIssue, Tab, Insert
<1>3. ASSUME NEW t \in Tokens, RotateRead(c, t) PROVE Typed'
  BY <1>3 DEF RotateRead, Tab
<1>4. ASSUME NEW t \in Tokens, RotateBurn(c, t) PROVE Typed'
  BY <1>4, BurnType DEF RotateBurn, Tab, Insert
<1>5. CASE RotateStale(c)
  BY <1>5, <1>e DEF RotateStale
<1>6. CASE CheckEnabled(c)
  BY <1>6, <1>e DEF CheckEnabled, Tab
<1>7. CASE UndoSession(c)
  BY <1>7, <1>e, BurnType, SMTT(30) DEF UndoSession
<1>8. CASE ReuseStarts(c)
  BY <1>8 DEF ReuseStarts, Tab, LiveOf
<1>9. CASE ReuseEnds(c)
  BY <1>9, <1>e, BurnType DEF ReuseEnds
<1>10. QED
  BY <1>1, <1>2, <1>3, <1>4, <1>5, <1>6, <1>7, <1>8, <1>9 DEF Client

LEMMA NextTyped == Typed /\ [Next]_vars => Typed'
<1> SUFFICES ASSUME Typed, [Next]_vars PROVE Typed'
  OBVIOUS
<1>1. CASE \E r \in Requests : Request(r)
  BY <1>1, RequestTyped
<1>2. CASE \E c \in Clients : Client(c)
  BY <1>2, ClientTyped
<1>3. CASE \E t \in Tokens : Logout(t)
  BY <1>3, BurnType DEF Logout, Typed, TypeOK, RequestsHold, TabsHold,
     LoginsKnown, ClientOnly, roster, asked, tabs
<1>4. CASE UNCHANGED vars
  BY <1>4 DEF vars, roster, asked, table, tabs, Typed, TypeOK, RequestsHold,
     TabsHold, LoginsKnown
<1>5. QED
  BY <1>1, <1>2, <1>3, <1>4 DEF Next

\* Every variable keeps its type: no tab deals with an account that is not
\* there, and a token has an owner exactly when it was issued.
THEOREM TypeCorrect == Spec => []TypeOK
<1>1. Typed => TypeOK
  BY DEF Typed
<1>2. QED
  BY InitTyped, NextTyped, <1>1, PTL DEF Spec

(***************************************************************************)
(* The developers.  A request that takes its target for no developer is    *)
(* right, unless the target was promoted meanwhile.                        *)
(***************************************************************************)
HoldsTrue == \A a \in Admins : Holding(a) # {} => role[a] = "admin"

DevelopersInv == overtaken \/ (ActiveDevelopers # {} /\ HoldsTrue)

LEMMA RosterKept ==
  ASSUME DevelopersInv, UNCHANGED roster,
         \A a \in Admins : Holding(a)' \subseteq Holding(a)
  PROVE  DevelopersInv'
BY DEF DevelopersInv, HoldsTrue, ActiveDevelopers, Active, roster

\* A request that ends holds nothing.
LEMMA EndsHold ==
  ASSUME Typed, NEW r \in Requests, RequestEnds(r)
  PROVE  \A a \in Admins : Holding(a)' = Holding(a) \ {r}
BY DEF RequestEnds, Holding, Typed, TypeOK

LEMMA RequestKeepsDeveloper ==
  ASSUME Typed, DevelopersInv, NEW r \in Requests, Request(r)
  PROVE  DevelopersInv'
<1> USE DEF Typed, TypeOK
<1>0. DevelopersInv' <=> (overtaken' \/ (ActiveDevelopers' # {} /\ HoldsTrue'))
  BY DEF DevelopersInv
<1>1. ASSUME NEW op \in {"update", "disable", "enable", "reset"},
             NEW target \in Admins, NEW newRole \in Roles,
             RequestRead(r, op, target, newRole)
      PROVE  DevelopersInv'
  <2>1. UNCHANGED roster
    BY <1>1 DEF RequestRead
  <2>2. ASSUME NEW a \in Admins, NEW x \in Holding(a)'
        PROVE  x \in Holding(a) \/ role[a] = "admin"
    <3>1. CASE x = r
      BY <1>1, <2>2, <3>1 DEF RequestRead, Holding
    <3>2. CASE x # r
      BY <1>1, <2>2, <3>2 DEF RequestRead, Holding
    <3>3. QED BY <3>1, <3>2
  <2>3. QED
    BY <2>1, <2>2 DEF DevelopersInv, HoldsTrue, ActiveDevelopers, Active, roster
<1>2. CASE UpdateWrite(r)
  <2> DEFINE q == request[r]
  <2>1. q.target \in Admins /\ q.role \in Roles /\ q.was \in Roles
    BY <1>2 DEF UpdateWrite, RequestsHold, Asked
  <2>2. /\ role' = [role EXCEPT ![q.target] = q.role]
        /\ overtaken' = (overtaken \/ /\ role[q.target] = "admin"
                                      /\ q.role = "developer"
                                      /\ Holding(q.target) \ {r} # {})
        /\ q.was = "developer" /\ q.role = "admin" => Another(q.target)
        /\ RequestEnds(r) /\ UNCHANGED disabled
        /\ requestPc[r] = "write" /\ q.op = "update"
    BY <1>2 DEF UpdateWrite
  <2>3. SUFFICES ASSUME ~overtaken' PROVE ActiveDevelopers' # {} /\ HoldsTrue'
    BY <1>0
  <2>4. ActiveDevelopers # {} /\ HoldsTrue
    BY <2>2, <2>3 DEF DevelopersInv
  <2>5. HoldsTrue'
    <3> SUFFICES ASSUME NEW a \in Admins, Holding(a)' # {}
                 PROVE  role'[a] = "admin"
      BY DEF HoldsTrue
    <3>1. Holding(a) \ {r} # {}
      BY <2>2, EndsHold
    <3>2. role[a] = "admin"
      BY <2>4, <3>1 DEF HoldsTrue
    <3>3. CASE a = q.target
      BY <2>1, <2>2, <2>3, <3>1, <3>2, <3>3 DEF Roles
    <3>4. CASE a # q.target
      BY <2>1, <2>2, <3>2, <3>4
    <3>5. QED BY <3>3, <3>4
  <2>6. ActiveDevelopers' # {}
    <3>1. CASE q.role = "developer"
      BY <2>1, <2>2, <2>4, <3>1 DEF ActiveDevelopers, Active
    <3>2. CASE q.role = "admin" /\ q.was = "developer"
      BY <2>1, <2>2, <3>2 DEF ActiveDevelopers, Active, Another
    <3>3. CASE q.role = "admin" /\ q.was = "admin"
      <4>1. r \in Holding(q.target)
        BY <2>2, <3>3 DEF Holding
      <4>2. role[q.target] = "admin"
        BY <2>1, <2>4, <4>1 DEF HoldsTrue
      <4>3. role' = role
        BY <2>1, <2>2, <3>3, <4>2
      <4>4. QED BY <2>2, <2>4, <4>3 DEF ActiveDevelopers, Active
    <3>4. QED BY <2>1, <3>1, <3>2, <3>3 DEF Roles
  <2>7. QED BY <2>5, <2>6
<1>3. CASE DisableWrite(r)
  <2> DEFINE a == request[r].target
  <2>1. a \in Admins /\ request[r].was \in Roles /\ request[r].role \in Roles
    BY <1>3 DEF DisableWrite, RequestsHold, Asked
  <2>2. UNCHANGED <<role, overtaken>>
        /\ request[r].op = "disable" /\ requestPc[r] = "write"
        /\ (request[r].was = "developer" => Another(a))
    BY <1>3 DEF DisableWrite
  <2>3. CASE disabled[a]
    <3>1. RequestEnds(r) /\ UNCHANGED roster
      BY <1>3, <2>2, <2>3 DEF DisableWrite, roster
    <3>2. QED BY <3>1, EndsHold, RosterKept
  <2>4. CASE ~disabled[a]
    <3>1. /\ disabled' = [disabled EXCEPT ![a] = TRUE]
          /\ requestPc' = [requestPc EXCEPT ![r] = "revoke"]
          /\ UNCHANGED request
      BY <1>3, <2>4 DEF DisableWrite
    <3>2. SUFFICES ASSUME ~overtaken' PROVE ActiveDevelopers' # {} /\ HoldsTrue'
      BY <1>0
    <3>3. ActiveDevelopers # {} /\ HoldsTrue
      BY <2>2, <3>2 DEF DevelopersInv
    <3>4. HoldsTrue'
      <4>1. \A b \in Admins : Holding(b)' \subseteq Holding(b)
        BY <3>1 DEF Holding
      <4>2. QED BY <2>2, <3>3, <4>1 DEF HoldsTrue
    <3>5. \A b \in Admins \ {a} : disabled'[b] = disabled[b]
      BY <3>1
    <3>6. ActiveDevelopers' # {}
      <4>1. CASE Another(a)
        BY <2>2, <3>5, <4>1 DEF Another, ActiveDevelopers, Active
      <4>2. CASE request[r].was = "admin"
        <5>1. request[r].role = "admin" => r \in Holding(a)
          BY <2>2, <4>2 DEF Holding
        <5>2. request[r].role = "admin"
          BY <2>2 DEF RequestsHold
        <5>3. role[a] = "admin"
          BY <2>1, <3>3, <5>1, <5>2 DEF HoldsTrue
        <5>4. a \notin ActiveDevelopers
          BY <5>3 DEF ActiveDevelopers
        <5>5. QED BY <2>2, <3>3, <3>5, <5>4 DEF ActiveDevelopers, Active
      <4>3. QED BY <2>1, <2>2, <4>1, <4>2 DEF Roles
    <3>7. QED BY <3>4, <3>6
  <2>5. QED BY <2>3, <2>4
<1>4. CASE RequestRefused(r)
  BY <1>4, EndsHold, RosterKept DEF RequestRefused
<1>5. CASE EnableWrite(r)
  <2>1. /\ RequestEnds(r) /\ UNCHANGED <<role, overtaken>>
        /\ disabled' = [disabled EXCEPT ![request[r].target] = FALSE]
    BY <1>5 DEF EnableWrite
  <2>2. \A a \in Admins : Active(a) => Active(a)'
    BY <2>1 DEF Active
  <2>3. QED
    BY <2>1, <2>2, EndsHold DEF DevelopersInv, HoldsTrue, ActiveDevelopers
<1>6. CASE RevokeAllStarts(r)
  <2>1. \A a \in Admins : Holding(a)' \subseteq Holding(a)
    BY <1>6 DEF RevokeAllStarts, Holding
  <2>2. QED BY <1>6, <2>1, RosterKept DEF RevokeAllStarts
<1>7. CASE RevokeAllEnds(r)
  BY <1>7, EndsHold, RosterKept DEF RevokeAllEnds
<1>8. QED
  BY <1>1, <1>2, <1>3, <1>4, <1>5, <1>6, <1>7 DEF Request

LEMMA NextKeepsDeveloper == Typed /\ DevelopersInv /\ [Next]_vars => DevelopersInv'
<1> SUFFICES ASSUME Typed, DevelopersInv, [Next]_vars PROVE DevelopersInv'
  OBVIOUS
<1>1. CASE \E r \in Requests : Request(r)
  BY <1>1, RequestKeepsDeveloper
<1>2. ASSUME UNCHANGED <<roster, asked>> PROVE DevelopersInv'
  BY <1>2 DEF roster, asked, DevelopersInv, HoldsTrue, Holding,
     ActiveDevelopers, Active
<1>3. ASSUME NEW c \in Clients, Client(c) PROVE UNCHANGED <<roster, asked>>
  BY <1>3 DEF Client, LoginCheck, LoginIssue, RotateRead, RotateBurn,
     RotateStale, CheckEnabled, UndoSession, ReuseStarts, ReuseEnds, ClientOnly
<1>4. ASSUME NEW t \in Tokens, Logout(t) PROVE UNCHANGED <<roster, asked>>
  BY <1>4 DEF Logout, ClientOnly
<1>5. CASE UNCHANGED vars
  BY <1>2, <1>5 DEF vars
<1>6. QED
  BY <1>1, <1>2, <1>3, <1>4, <1>5 DEF Next

\* Developers that disable or demote one another at once, by any number of
\* requests, never leave the panel without one, as long as nobody is promoted
\* under a request that takes him for a plain admin.
THEOREM SomeoneRemains == Spec => []DeveloperRemains
<1>1. Init => DevelopersInv
  BY DEF Init, DevelopersInv, HoldsTrue, Holding, ActiveDevelopers, Active
<1>2. DevelopersInv => DeveloperRemains
  BY DEF DevelopersInv, DeveloperRemains
<1>3. QED
  BY InitTyped, NextTyped, NextKeepsDeveloper, <1>1, <1>2, PTL DEF Spec

(***************************************************************************)
(* One login, one live session.                                            *)
(***************************************************************************)

\* Burning tokens and keeping the rest takes nothing from it.
LEMMA BurnKeepsOne ==
  ASSUME Typed, OneSessionPerLogin, NEW S, token' = Burn(S), login' = login
  PROVE  OneSessionPerLogin'
BY BurnType DEF OneSessionPerLogin

LEMMA NextKeepsOne ==
  Typed /\ OneSessionPerLogin /\ [Next]_vars => OneSessionPerLogin'
<1> SUFFICES ASSUME Typed, OneSessionPerLogin, [Next]_vars
             PROVE  OneSessionPerLogin'
  OBVIOUS
<1>1. ASSUME UNCHANGED <<token, login>> PROVE OneSessionPerLogin'
  BY <1>1 DEF OneSessionPerLogin
<1>2. ASSUME NEW r \in Requests, Request(r) PROVE OneSessionPerLogin'
  <2>1. CASE RevokeAllEnds(r)
    BY <2>1, BurnKeepsOne DEF RevokeAllEnds
  <2>2. CASE ~RevokeAllEnds(r)
    BY <1>1, <1>2, <2>2 DEF Request, RequestRead, UpdateWrite, DisableWrite,
       RequestRefused, EnableWrite, RevokeAllStarts, RequestOnly, table
  <2>3. QED BY <2>1, <2>2
<1>3. ASSUME NEW c \in Clients, NEW t \in Tokens, LoginIssue(c, t)
      PROVE  OneSessionPerLogin'
  BY <1>3 DEF LoginIssue, Insert, OneSessionPerLogin, Typed, TypeOK, LoginsKnown
<1>4. ASSUME NEW c \in Clients, NEW t \in Tokens, RotateBurn(c, t)
      PROVE  OneSessionPerLogin'
  <2>1. held[c] \in Tokens /\ token[held[c]] = "live" /\ token[t] = "free"
    BY <1>4 DEF RotateBurn, Insert, Tab, Typed, TabsHold
  <2>2. token' = [Burn({held[c]}) EXCEPT ![t] = "live"]
        /\ login' = [login EXCEPT ![t] = login[held[c]]]
    BY <1>4 DEF RotateBurn, Insert
  <2>3. \A u \in Tokens \ {t} :
          /\ login'[u] = login[u]
          /\ token'[u] = "live" => token[u] = "live" /\ u # held[c]
    BY <2>2, BurnType DEF Typed, TypeOK
  <2>4. login'[t] = login[held[c]]
    BY <2>2 DEF Typed, TypeOK
  <2>5. QED BY <2>1, <2>3, <2>4 DEF OneSessionPerLogin
<1>5. ASSUME NEW c \in Clients, Client(c) PROVE OneSessionPerLogin'
  <2>1. CASE UndoSession(c) \/ ReuseEnds(c)
    BY <2>1, BurnKeepsOne DEF UndoSession, ReuseEnds
  <2>2. CASE ~UndoSession(c) /\ ~ReuseEnds(c)
    BY <1>1, <1>3, <1>4, <1>5, <2>2 DEF Client, LoginCheck, RotateRead,
       RotateStale, CheckEnabled, ReuseStarts, table
  <2>3. QED BY <2>1, <2>2
<1>6. ASSUME NEW t \in Tokens, Logout(t) PROVE OneSessionPerLogin'
  BY <1>6, BurnKeepsOne DEF Logout
<1>7. QED
  BY <1>1, <1>2, <1>5, <1>6 DEF Next, vars, table

\* A refresh token is exchanged for one session, whichever tabs exchange it.
THEOREM OneLoginOneSession == Spec => []OneSessionPerLogin
<1>1. Init => OneSessionPerLogin
  BY DEF Init, OneSessionPerLogin
<1>2. QED
  BY InitTyped, NextTyped, NextKeepsOne, <1>1, PTL DEF Spec

(***************************************************************************)
(* Disabling.  A live session of a disabled account is about to be taken   *)
(* by a revokeAll, has been taken by one, or is still looked at by the tab *)
(* that made it.                                                           *)
(***************************************************************************)
ToRevoke(a) == \E r \in Requests : requestPc[r] = "revoke" /\ request[r].target = a
Taken(a, t) == \E r \in Requests : /\ requestPc[r] = "apply"
                                   /\ request[r].target = a
                                   /\ t \in caught[r]

DisabledInv ==
  \A a \in Admins : disabled[a] =>
    \A t \in LiveOf(a) : ToRevoke(a) \/ Taken(a, t) \/ BeingIssued(t)

LEMMA RequestKeepsOut ==
  ASSUME Typed, DisabledInv, NEW r \in Requests, Request(r)
  PROVE  DisabledInv'
<1> SUFFICES ASSUME NEW a \in Admins, disabled'[a], NEW t \in LiveOf(a)'
             PROVE  ToRevoke(a)' \/ Taken(a, t)' \/ BeingIssued(t)'
  BY DEF DisabledInv
<1> USE DEF Typed, TypeOK
<1>1. t \in LiveOf(a)
  <2>1. CASE RevokeAllEnds(r)
    BY <2>1, BurnType DEF RevokeAllEnds, LiveOf
  <2>2. CASE ~RevokeAllEnds(r)
    BY <2>2 DEF Request, RequestRead, UpdateWrite, DisableWrite,
       RequestRefused, EnableWrite, RevokeAllStarts, RequestOnly, table, LiveOf
  <2>3. QED BY <2>1, <2>2
<1>2. ASSUME BeingIssued(t) PROVE BeingIssued(t)'
  BY <1>2 DEF BeingIssued, Request, RequestRead, UpdateWrite, DisableWrite,
     RequestRefused, EnableWrite, RevokeAllStarts, RevokeAllEnds, RequestOnly,
     tabs
\* Whatever the other requests do goes on.
<1>3. ASSUME NEW x \in Requests \ {r}
      PROVE  requestPc'[x] = requestPc[x] /\ request'[x] = request[x]
             /\ caught'[x] = caught[x]
  BY <1>3 DEF Actors, Request, RequestRead, UpdateWrite, DisableWrite,
     RequestRefused, EnableWrite, RevokeAllStarts, RevokeAllEnds, RequestEnds
<1>4. CASE DisableWrite(r) /\ ~disabled[request[r].target]
             /\ a = request[r].target
  BY <1>4 DEF DisableWrite, ToRevoke
<1>5. CASE /\ requestPc[r] \notin {"revoke", "apply"}
           /\ ~(DisableWrite(r) /\ ~disabled[request[r].target]
                  /\ a = request[r].target)
  <2>1. disabled[a]
    BY <1>5 DEF Request, RequestRead, UpdateWrite, DisableWrite,
       RequestRefused, EnableWrite, RevokeAllStarts, RevokeAllEnds, roster
  <2>2. ToRevoke(a) => ToRevoke(a)'
    BY <1>3, <1>5 DEF ToRevoke
  <2>3. Taken(a, t) => Taken(a, t)'
    BY <1>3, <1>5 DEF Taken
  <2>4. QED BY <1>1, <1>2, <2>1, <2>2, <2>3 DEF DisabledInv
<1>6. CASE RevokeAllStarts(r)
  <2>1. disabled[a]
    BY <1>6 DEF RevokeAllStarts, roster
  <2>2. CASE request[r].target = a
    <3>1. t \in caught'[r]
      BY <1>1, <1>6, <2>2 DEF RevokeAllStarts, Actors
    <3>2. QED BY <1>6, <2>2, <3>1 DEF RevokeAllStarts, Taken
  <2>3. CASE request[r].target # a
    <3>1. ToRevoke(a) => ToRevoke(a)'
      BY <1>3, <2>3 DEF ToRevoke
    <3>2. Taken(a, t) => Taken(a, t)'
      BY <1>3, <2>3 DEF Taken
    <3>3. QED BY <1>1, <1>2, <2>1, <3>1, <3>2 DEF DisabledInv
  <2>4. QED BY <2>2, <2>3
<1>7. CASE RevokeAllEnds(r)
  <2>1. disabled[a]
    BY <1>7 DEF RevokeAllEnds, roster
  <2>2. t \notin caught[r]
    BY <1>7, BurnType DEF RevokeAllEnds, LiveOf
  <2>3. ToRevoke(a) => ToRevoke(a)'
    BY <1>3, <1>7 DEF ToRevoke, RevokeAllEnds
  <2>4. Taken(a, t) => Taken(a, t)'
    BY <1>3, <2>2 DEF Taken
  <2>5. QED BY <1>1, <1>2, <2>1, <2>3, <2>4 DEF DisabledInv
<1>8. QED
  BY <1>4, <1>5, <1>6, <1>7 DEF Request, RequestRead, UpdateWrite,
     DisableWrite, RequestRefused, EnableWrite, RevokeAllStarts, RevokeAllEnds

\* A new session is looked at by the tab that makes it; the others stay as they
\* are, or end.
LEMMA ClientKeepsOut ==
  ASSUME Typed, DisabledInv, NEW c \in Clients, Client(c)
  PROVE  DisabledInv'
<1> SUFFICES ASSUME NEW a \in Admins, disabled'[a], NEW t \in LiveOf(a)'
             PROVE  ToRevoke(a)' \/ Taken(a, t)' \/ BeingIssued(t)'
  BY DEF DisabledInv
<1> USE DEF Typed, TypeOK
<1>1. UNCHANGED <<roster, asked>>
  BY DEF Client, LoginCheck, LoginIssue, RotateRead, RotateBurn,
     RotateStale, CheckEnabled, UndoSession, ReuseStarts, ReuseEnds, ClientOnly
<1>2. \A r \in Requests : caught'[r] = caught[r]
  BY DEF Actors, Client, LoginCheck, LoginIssue, RotateRead, RotateBurn,
     RotateStale, CheckEnabled, UndoSession, ReuseStarts, ReuseEnds, TabEnds
<1>3. disabled[a] /\ (ToRevoke(a) => ToRevoke(a)') /\ (Taken(a, t) => Taken(a, t)')
  BY <1>1, <1>2 DEF roster, asked, ToRevoke, Taken
<1>4. ASSUME NEW d \in Clients \ {c}
      PROVE  clientPc'[d] = clientPc[d] /\ held'[d] = held[d]
  BY <1>4 DEF Client, LoginCheck, LoginIssue, RotateRead, RotateBurn,
     RotateStale, CheckEnabled, UndoSession, ReuseStarts, ReuseEnds, TabEnds, Tab
<1>5. CASE \E u \in Tokens : LoginIssue(c, u) \/ RotateBurn(c, u)
  <2>1. PICK u \in Tokens : LoginIssue(c, u) \/ RotateBurn(c, u)
    BY <1>5
  <2>2. clientPc'[c] = "check" /\ held'[c] = u
    BY <2>1 DEF LoginIssue, RotateBurn, Tab
  <2>3. CASE t = u
    BY <2>2, <2>3 DEF BeingIssued
  <2>4. CASE t # u
    <3>1. t \in LiveOf(a)
      BY <2>1, <2>4, BurnType DEF LoginIssue, RotateBurn, Insert, LiveOf
    <3>2. ~(clientPc[c] \in {"check", "undo"})
      BY <2>1 DEF LoginIssue, RotateBurn, Tab
    <3>3. BeingIssued(t) => BeingIssued(t)'
      BY <1>4, <3>2 DEF BeingIssued
    <3>4. QED BY <1>3, <3>1, <3>3 DEF DisabledInv
  <2>5. QED BY <2>3, <2>4
<1>6. CASE ~\E u \in Tokens : LoginIssue(c, u) \/ RotateBurn(c, u)
  <2>1. t \in LiveOf(a)
    <3>1. CASE UndoSession(c) \/ ReuseEnds(c)
      BY <3>1, BurnType DEF UndoSession, ReuseEnds, LiveOf
    <3>2. CASE ~UndoSession(c) /\ ~ReuseEnds(c)
      BY <1>6, <3>2 DEF Client, LoginCheck, RotateRead, RotateStale,
         CheckEnabled, ReuseStarts, table, LiveOf
    <3>3. QED BY <3>1, <3>2
  <2>2. ASSUME clientPc[c] \in {"check", "undo"}, held[c] = t
        PROVE  BeingIssued(t)'
    <3>1. disabled[account[c]]
      BY <1>3, <2>1, <2>2 DEF TabsHold, LiveOf
    <3>2. CASE CheckEnabled(c)
      BY <2>2, <3>1, <3>2 DEF CheckEnabled, Tab, BeingIssued
    <3>3. CASE UndoSession(c)
      BY <2>2, <3>3, BurnType DEF UndoSession, LiveOf
    <3>4. QED
      BY <1>6, <2>2, <3>2, <3>3 DEF Client, LoginCheck, RotateRead,
         RotateStale, ReuseStarts, ReuseEnds, Tab
  <2>3. BeingIssued(t) => BeingIssued(t)'
    BY <1>4, <2>2 DEF BeingIssued
  <2>4. QED BY <1>3, <2>1, <2>3 DEF DisabledInv
<1>7. QED BY <1>5, <1>6

LEMMA NextKeepsOut == Typed /\ DisabledInv /\ [Next]_vars => DisabledInv'
<1> SUFFICES ASSUME Typed, DisabledInv, [Next]_vars PROVE DisabledInv'
  OBVIOUS
<1>1. CASE \E r \in Requests : Request(r)
  BY <1>1, RequestKeepsOut
<1>2. CASE \E c \in Clients : Client(c)
  BY <1>2, ClientKeepsOut
<1>3. ASSUME NEW t \in Tokens, Logout(t) PROVE DisabledInv'
  <2>1. \A a \in Admins : LiveOf(a)' \subseteq LiveOf(a)
    BY <1>3, BurnType DEF Logout, LiveOf
  <2>2. UNCHANGED <<roster, asked, tabs, caught>>
    BY <1>3 DEF Logout, ClientOnly
  <2>3. QED
    BY <2>1, <2>2 DEF DisabledInv, ToRevoke, Taken, BeingIssued, roster, asked,
       tabs
<1>4. CASE UNCHANGED vars
  BY <1>4 DEF vars, roster, asked, table, tabs, DisabledInv, ToRevoke, Taken,
     BeingIssued, LiveOf
<1>5. QED
  BY <1>1, <1>2, <1>3, <1>4 DEF Next

\* Once disabling is over no session of the account is left but one that its
\* own tab is about to end, however logins and refreshes raced with it.
THEOREM DisabledStaysOut == Spec => []DisabledIsOut
<1>1. Init => DisabledInv
  BY DEF Init, DisabledInv
<1>2. DisabledInv => DisabledIsOut
  BY DEF DisabledInv, DisabledIsOut, Disabling, ToRevoke, Taken
<1>3. QED
  BY InitTyped, NextTyped, NextKeepsOut, <1>1, <1>2, PTL DEF Spec
=============================================================================
