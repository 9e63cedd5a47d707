------------------------------- MODULE Access -------------------------------
(***************************************************************************)
(* The admins of the panel and their sessions.  Developers manage admins   *)
(* (role, disabled) by requests that read the admin first and write later; *)
(* browsers log in, exchange their refresh token for a new one and log     *)
(* out, several tabs at a time.                                            *)
(*                                                                         *)
(* A transaction is one step.  revokeAll is two: an UPDATE takes its rows  *)
(* from the snapshot it starts with, so a session that is inserted while   *)
(* it waits for a row escapes it.                                          *)
(***************************************************************************)
EXTENDS Naturals, FiniteSets

CONSTANTS
  Admins,      \* the accounts
  Requests,    \* requests of developers; each performs one operation
  Clients,     \* browser tabs
  Tokens,      \* bound: refresh tokens that are ever issued
  Nobody       \* no admin, or no token

ASSUME NobodyAssumption == Nobody \notin Admins \cup Tokens
ASSUME ActorsAssumption == Requests \cap Clients = {}

VARIABLES
  role, disabled,     \* AdminUser.role, and whether disabledAt is set
  overtaken,          \* was an admin promoted while a request still holds
                      \* that he was none?
  requestPc, request, \* where each request is; what it was asked and has read
  token, owner,       \* the AdminSession of each token, and whose it is
  login,              \* the token of the login it descends from
  clientPc, held,     \* where each tab is, and the token it deals with
  account,            \* ... and the account
  caught              \* the rows a revokeAll has taken

roster  == <<role, disabled, overtaken>>
asked   == <<requestPc, request>>
table   == <<token, owner, login>>
tabs    == <<clientPc, held, account>>
vars    == <<roster, asked, table, tabs, caught>>

Roles   == {"developer", "admin"}
NoOp    == [op |-> "none", target |-> Nobody, was |-> "admin",
            role |-> "admin"]
Asked   == [op : {"none", "update", "disable", "enable", "reset"},
            target : Admins \cup {Nobody}, was : Roles, role : Roles]
Actors  == Requests \cup Clients

TypeOK ==
  /\ role \in [Admins -> Roles]
  /\ disabled \in [Admins -> BOOLEAN]
  /\ overtaken \in BOOLEAN
  /\ requestPc \in [Requests -> {"new", "write", "revoke", "apply", "done"}]
  /\ request \in [Requests -> Asked]
  /\ token \in [Tokens -> {"free", "live", "burnt"}]
  /\ owner \in [Tokens -> Admins \cup {Nobody}]
  /\ login \in [Tokens -> Tokens \cup {Nobody}]
  /\ \A t \in Tokens : token[t] = "free" <=> owner[t] = Nobody
  /\ clientPc \in [Clients -> {"idle", "issue", "burn", "check", "undo",
                               "revoke", "apply"}]
  /\ held \in [Clients -> Tokens \cup {Nobody}]
  /\ account \in [Clients -> Admins \cup {Nobody}]
  /\ caught \in [Actors -> SUBSET Tokens]

Active(a) == ~disabled[a]
ActiveDevelopers == {a \in Admins : role[a] = "developer" /\ Active(a)}

\* The first developer is made by the seed script.
Init ==
  /\ role \in [Admins -> Roles]
  /\ disabled = [a \in Admins |-> FALSE]
  /\ \E a \in Admins : role[a] = "developer"
  /\ overtaken = FALSE
  /\ requestPc = [r \in Requests |-> "new"]
  /\ request = [r \in Requests |-> NoOp]
  /\ token = [t \in Tokens |-> "free"]
  /\ owner = [t \in Tokens |-> Nobody]
  /\ login = [t \in Tokens |-> Nobody]
  /\ clientPc = [c \in Clients |-> "idle"]
  /\ held = [c \in Clients |-> Nobody]
  /\ account = [c \in Clients |-> Nobody]
  /\ caught = [x \in Actors |-> {}]

(***************************************************************************)
(* SessionService.                                                         *)
(***************************************************************************)
LiveOf(a) == {t \in Tokens : token[t] = "live" /\ owner[t] = a}

\* A new row for a token nobody has had.
Insert(t, a, first, others) ==
  /\ token[t] = "free"
  /\ token' = [others EXCEPT ![t] = "live"]
  /\ owner' = [owner EXCEPT ![t] = a]
  /\ login' = [login EXCEPT ![t] = first]

\* UPDATE ... SET revoked WHERE not revoked.
Burn(S) == [t \in Tokens |-> IF t \in S /\ token[t] = "live" THEN "burnt"
                             ELSE token[t]]

(***************************************************************************)
(* AdminsService: update, disable, enable, resetPassword.                  *)
(***************************************************************************)
RequestOnly == UNCHANGED <<table, tabs>>

RequestEnds(r) ==
  /\ requestPc' = [requestPc EXCEPT ![r] = "done"]
  /\ request' = [request EXCEPT ![r] = NoOp]
  /\ caught' = [caught EXCEPT ![r] = {}]

\* A developer asks; the admin is read.  Nobody disables, demotes or resets
\* himself, and who is (not) disabled is left so.  A reset writes the password,
\* which is not part of the model, and goes on to revokeAll.
RequestRead(r, op, target, newRole) ==
  /\ requestPc[r] = "new"
  /\ \E actor \in ActiveDevelopers :
       \/ actor # target
       \/ op = "enable"
       \/ op = "update" /\ (role[target] = "developer" => newRole = "developer")
  /\ op = "disable" => Active(target)
  /\ op = "enable" => disabled[target]
  /\ op # "update" => newRole = "admin"
  /\ request' = [request EXCEPT ![r] =
                   [op |-> op, target |-> target, role |-> newRole,
                    was |-> IF op \in {"update", "disable"} THEN role[target]
                            ELSE "admin"]]
  /\ requestPc' = [requestPc EXCEPT ![r] = IF op = "reset" THEN "revoke"
                                           ELSE "write"]
  /\ UNCHANGED <<roster, caught>>
  /\ RequestOnly

\* Mutant: the target is counted as a developer that remains.
AnotherOrHimself(a) == ActiveDevelopers # {}

\* assertAnotherActiveDeveloper, the active developers locked until the end
\* of the transaction.
Another(a) == ActiveDevelopers \ {a} # {}

\* Requests that would disable a, or leave him no developer, and hold that he
\* is none.
Holding(a) == {r \in Requests : /\ requestPc[r] = "write"
                                /\ request[r].op \in {"update", "disable"}
                                /\ request[r].target = a
                                /\ request[r].was = "admin"
                                /\ request[r].role = "admin"}

UpdateWrite(r) ==
  LET q == request[r]
  IN  /\ requestPc[r] = "write" /\ q.op = "update"
      /\ q.was = "developer" /\ q.role = "admin" => Another(q.target)
      /\ role' = [role EXCEPT ![q.target] = q.role]
      /\ overtaken' = (overtaken \/ /\ role[q.target] = "admin"
                                    /\ q.role = "developer"
                                    /\ Holding(q.target) \ {r} # {})
      /\ RequestEnds(r)
      /\ UNCHANGED disabled
      /\ RequestOnly

\* A second click finds the admin disabled and ends there.
DisableWrite(r) ==
  LET a == request[r].target
  IN  /\ requestPc[r] = "write" /\ request[r].op = "disable"
      /\ request[r].was = "developer" => Another(a)
      /\ IF disabled[a]
         THEN RequestEnds(r) /\ UNCHANGED disabled
         ELSE /\ disabled' = [disabled EXCEPT ![a] = TRUE]
              /\ requestPc' = [requestPc EXCEPT ![r] = "revoke"]
              /\ UNCHANGED <<request, caught>>
      /\ UNCHANGED <<role, overtaken>>
      /\ RequestOnly

\* The last active developer is neither demoted nor disabled.
RequestRefused(r) ==
  /\ requestPc[r] = "write"
  /\ request[r].op \in {"update", "disable"}
  /\ request[r].was = "developer" /\ request[r].role = "admin"
  /\ ~Another(request[r].target)
  /\ RequestEnds(r)
  /\ UNCHANGED roster
  /\ RequestOnly

EnableWrite(r) ==
  /\ requestPc[r] = "write" /\ request[r].op = "enable"
  /\ disabled' = [disabled EXCEPT ![request[r].target] = FALSE]
  /\ RequestEnds(r)
  /\ UNCHANGED <<role, overtaken>>
  /\ RequestOnly

RevokeAllStarts(r) ==
  /\ requestPc[r] = "revoke"
  /\ requestPc' = [requestPc EXCEPT ![r] = "apply"]
  /\ caught' = [caught EXCEPT ![r] = LiveOf(request[r].target)]
  /\ UNCHANGED <<roster, request>>
  /\ RequestOnly

\* Mutant: disabling does not end the sessions there are.
RevokeNothing(r) ==
  /\ requestPc[r] = "apply"
  /\ RequestEnds(r)
  /\ UNCHANGED <<roster, table, tabs>>

RevokeAllEnds(r) ==
  /\ requestPc[r] = "apply"
  /\ token' = Burn(caught[r])
  /\ RequestEnds(r)
  /\ UNCHANGED <<roster, owner, login, tabs>>

(***************************************************************************)
(* AuthService: login, refresh, logout.                                    *)
(***************************************************************************)
ClientOnly == UNCHANGED <<roster, asked>>

Tab(c, from, to) ==
  /\ clientPc[c] = from
  /\ clientPc' = [clientPc EXCEPT ![c] = to]

TabEnds(c) ==
  /\ clientPc' = [clientPc EXCEPT ![c] = "idle"]
  /\ held' = [held EXCEPT ![c] = Nobody]
  /\ account' = [account EXCEPT ![c] = Nobody]
  /\ caught' = [caught EXCEPT ![c] = {}]

\* The account is read, then the password is verified, which takes long.
LoginCheck(c, a) ==
  /\ Active(a)
  /\ Tab(c, "idle", "issue")
  /\ account' = [account EXCEPT ![c] = a]
  /\ UNCHANGED <<table, held, caught>>
  /\ ClientOnly

LoginIssue(c, t) ==
  /\ Tab(c, "issue", "check")
  /\ Insert(t, account[c], t, token)
  /\ held' = [held EXCEPT ![c] = t]
  /\ UNCHANGED <<account, caught>>
  /\ ClientOnly

\* rotate reads the session.  One that was burnt within REUSE_GRACE_MS is
\* another tab's race, and nothing happens; for one burnt earlier, which may be
\* any, all sessions of the account are revoked.
RotateRead(c, t) ==
  /\ \/ token[t] = "live" /\ Tab(c, "idle", "burn")
     \/ token[t] = "burnt" /\ Tab(c, "idle", "revoke")
  /\ held' = [held EXCEPT ![c] = t]
  /\ account' = [account EXCEPT ![c] = owner[t]]
  /\ UNCHANGED <<table, caught>>
  /\ ClientOnly

\* Mutant: the token is burnt by its id, whoever else has burnt it.
BurnAnyway(c, t) ==
  /\ Tab(c, "burn", "check")
  /\ Insert(t, account[c], login[held[c]], Burn({held[c]}))
  /\ held' = [held EXCEPT ![c] = t]
  /\ UNCHANGED <<account, caught>>
  /\ ClientOnly

\* One transaction: burnt if it is live still, and a new one in its place.
RotateBurn(c, t) ==
  /\ Tab(c, "burn", "check")
  /\ token[held[c]] = "live"
  /\ Insert(t, account[c], login[held[c]], Burn({held[c]}))
  /\ held' = [held EXCEPT ![c] = t]
  /\ UNCHANGED <<account, caught>>
  /\ ClientOnly

RotateStale(c) ==
  /\ clientPc[c] = "burn"
  /\ token[held[c]] # "live"
  /\ TabEnds(c)
  /\ UNCHANGED table
  /\ ClientOnly

\* Mutant: the account is not looked at again.
CheckNothing(c) ==
  /\ clientPc[c] = "check"
  /\ TabEnds(c)
  /\ UNCHANGED table
  /\ ClientOnly

\* revokeIfDisabled, after the new session is there.
CheckEnabled(c) ==
  /\ clientPc[c] = "check"
  /\ IF disabled[account[c]]
     THEN Tab(c, "check", "undo") /\ UNCHANGED <<held, account, caught>>
     ELSE TabEnds(c)
  /\ UNCHANGED table
  /\ ClientOnly

UndoSession(c) ==
  /\ clientPc[c] = "undo"
  /\ token' = Burn({held[c]})
  /\ TabEnds(c)
  /\ UNCHANGED <<owner, login>>
  /\ ClientOnly

ReuseStarts(c) ==
  /\ Tab(c, "revoke", "apply")
  /\ caught' = [caught EXCEPT ![c] = LiveOf(account[c])]
  /\ UNCHANGED <<table, held, account>>
  /\ ClientOnly

ReuseEnds(c) ==
  /\ clientPc[c] = "apply"
  /\ token' = Burn(caught[c])
  /\ TabEnds(c)
  /\ UNCHANGED <<owner, login>>
  /\ ClientOnly

Logout(t) ==
  /\ token[t] = "live"
  /\ token' = Burn({t})
  /\ UNCHANGED <<owner, login, tabs, caught>>
  /\ ClientOnly

(***************************************************************************)
(* The specification.                                                      *)
(***************************************************************************)
Request(r) ==
  \/ \E op \in {"update", "disable", "enable", "reset"}, target \in Admins,
        newRole \in Roles : RequestRead(r, op, target, newRole)
  \/ UpdateWrite(r)
  \/ DisableWrite(r)
  \/ RequestRefused(r)
  \/ EnableWrite(r)
  \/ RevokeAllStarts(r)
  \/ RevokeAllEnds(r)

Client(c) ==
  \/ \E a \in Admins : LoginCheck(c, a)
  \/ \E t \in Tokens : LoginIssue(c, t) \/ RotateRead(c, t) \/ RotateBurn(c, t)
  \/ RotateStale(c)
  \/ CheckEnabled(c)
  \/ UndoSession(c)
  \/ ReuseStarts(c)
  \/ ReuseEnds(c)

Next ==
  \/ \E r \in Requests : Request(r)
  \/ \E c \in Clients : Client(c)
  \/ \E t \in Tokens : Logout(t)

Spec == Init /\ [][Next]_vars

(***************************************************************************)
(* Safety.                                                                 *)
(***************************************************************************)

\* Somebody can always manage the admins: two developers that disable or
\* demote each other at once do not both succeed.  (Unless an admin was
\* promoted while a request still took him for none.)
DeveloperRemains == overtaken \/ ActiveDevelopers # {}

\* One login is one live session, however many tabs exchange its token at the
\* same time.
OneSessionPerLogin ==
  \A t, u \in Tokens :
    token[t] = "live" /\ token[u] = "live" /\ login[t] = login[u] => t = u

\* Disabling is over: the sessions of the account are, too, those included
\* that were issued or exchanged while it happened; so enabling it again does
\* not bring one back.
Disabling(a) == \E r \in Requests : /\ requestPc[r] \in {"revoke", "apply"}
                                    /\ request[r].target = a
BeingIssued(t) == \E c \in Clients : /\ clientPc[c] \in {"check", "undo"}
                                     /\ held[c] = t
DisabledIsOut ==
  \A a \in Admins : disabled[a] /\ ~Disabling(a) =>
    \A t \in LiveOf(a) : BeingIssued(t)

(***************************************************************************)
(* What a comment of the code says, and its steps do not keep (README).    *)
(***************************************************************************)

\* update: the last developer is not demoted.
LastDeveloperStays == ActiveDevelopers # {}
=============================================================================
