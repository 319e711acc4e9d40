------------------------------ MODULE Accounts ------------------------------
(***************************************************************************)
(* The accounts of a household: the first administrator, invitations and   *)
(* recovery links, sign-in and its throttling, sessions, the calendar feed *)
(* token and the deletion of a member (store/auth.go, calendar_tokens.go,  *)
(* web/auth.go and the handlers that call them).                            *)
(*                                                                         *)
(* A request takes several steps: what it reads first (its session, the    *)
(* throttle, the account, a check of the password) and the writes it ends  *)
(* with; other requests run in between.  A password is named by how many   *)
(* there were before it, its era: a session and a calendar token have the  *)
(* one they were authorized under, as the request read it, and the one     *)
(* that was current when they were written; no write compares the two.     *)
(* Names, addresses and hashes are not modelled.  Only web handlers create *)
(* accounts: the first is the administrator, every other a member.         *)
(***************************************************************************)
EXTENDS Naturals, FiniteSets

CONSTANTS
  Clients,     \* network identities, each with one request in flight
  Emails,      \* addresses
  Links,       \* rows of auth_tokens, invitations and recovery links
  MaxUsers,    \* accounts at a time
  MaxEra,      \* password changes
  Slots,       \* 8: password hashes computed at a time
  Threshold,   \* 5: failures that block
  Window,      \* 15 minutes, in ticks
  Budget       \* requests in all

ASSUME AccountsAssumption ==
  /\ {MaxUsers, Slots, Threshold, Window} \subseteq Nat \ {0}
  /\ {MaxEra, Budget} \subseteq Nat /\ "account" \notin Clients

VARIABLES
  users,     \* the accounts, by id
  links,     \* auth_tokens
  sessions,  \* live sessions: whose, the password that authorized it, and the one
             \* that was current when it was issued
  feed,      \* the calendar token of each account, with the same two
  attempts,  \* login_attempts, by key
  request,   \* the requests in flight
  era,       \* passwords set so far
  born,      \* accounts each invitation has made
  budget,    \* requests still to come
  strikes    \* wrong passwords a peer has given for an address since it was right

accountVars == <<users, links, sessions, feed, attempts, request, era, born,
                 budget, strikes>>
credentials == <<users, links, sessions, feed, era, born>>
throttling == <<attempts, strikes>>

Ids == 1 .. MaxUsers
NoUser == [role |-> "none"]
NoLink == [kind |-> "none"]
NoRequest == [kind |-> "none"]
NoFeed == [kind |-> "none"]
Exists(u) == users[u] # NoUser
AccountKey(e) == <<"account", e>>
Keys == (Clients \cup {"account"}) \X Emails
NoAttempts == [failures |-> 0, age |-> 0, blocked |-> 0]

AccountsTypeOK ==
  /\ \A u \in Ids : Exists(u) => /\ users[u].role \in {"admin", "member"}
                                 /\ users[u].email \in Emails /\ users[u].era \in 0 .. MaxEra
  /\ \A l \in Links : links[l] # NoLink =>
       /\ links[l].kind \in {"invite", "reset"} /\ links[l].state \in {"open", "spent"}
       /\ links[l].user \in Ids \cup {0} /\ links[l].email \in Emails
  /\ \A s \in sessions : s.user \in Ids /\ {s.era, s.issued} \subseteq 0 .. MaxEra
  /\ \A u \in Ids : feed[u] # NoFeed => {feed[u].era, feed[u].issued} \subseteq 0 .. MaxEra
  /\ \A k \in Keys : attempts[k].age \in 0 .. Window + 1 /\ attempts[k].blocked \in 0 .. Window
  /\ era \in 0 .. MaxEra

AccountsInit ==
  /\ users = [u \in Ids |-> NoUser] /\ links = [l \in Links |-> NoLink]
  /\ sessions = {} /\ feed = [u \in Ids |-> NoFeed]
  /\ attempts = [k \in Keys |-> NoAttempts]
  /\ request = [c \in Clients |-> NoRequest]
  /\ era = 0 /\ born = [l \in Links |-> 0] /\ budget = Budget
  /\ strikes = [k \in Clients \X Emails |-> 0]

-----------------------------------------------------------------------------
(* The steps of a request.                                                 *)

Starts(c, what) ==
  /\ request[c] = NoRequest /\ budget > 0
  /\ request' = [request EXCEPT ![c] = what] /\ budget' = budget - 1
Answered(c) == request' = [request EXCEPT ![c] = NoRequest] /\ UNCHANGED budget
Doing(c, kind, at) == request[c].kind = kind /\ request[c].at = at
MovesTo(c, to) == request' = [request EXCEPT ![c] = [@ EXCEPT !.at = to]] /\ UNCHANGED budget

Hashing == {"setup", "login", "accept", "recover", "change"}
SlotFree == Cardinality({c \in Clients : request[c].kind \in Hashing}) < Slots

\* acquirePasswordSlot; a request it refuses, or the limiter of its peer before
\* it, has no effect.
AcquirePasswordSlot == SlotFree

\* An account is added under the next id after the greatest, which a deletion
\* may have freed.
NextId(n) == /\ \A u \in Ids : Exists(u) => u < n
             /\ n = 1 \/ (n - 1 \in Ids /\ Exists(n - 1))
Insert(email, role) ==
  /\ \A u \in Ids : Exists(u) => users[u].email # email
  /\ \E n \in Ids : NextId(n) /\
       users' = [users EXCEPT ![n] = [role |-> role, email |-> email, era |-> era]]

UserByEmail(e) == {u \in Ids : Exists(u) /\ users[u].email = e}

-----------------------------------------------------------------------------
(* The first account.                                                      *)

Setup(c, e) ==
  /\ Starts(c, [kind |-> "setup", at |-> "hashed", email |-> e, empty |-> \A u \in Ids : ~Exists(u)])
  /\ AcquirePasswordSlot
  /\ UNCHANGED <<credentials, throttling>>

CreateInitialAdminCheckedBefore(c) ==
  /\ Doing(c, "setup", "hashed") /\ Answered(c)
  /\ IF request[c].empty
       THEN Insert(request[c].email, "admin")
       ELSE UNCHANGED users
  /\ UNCHANGED <<links, sessions, feed, era, born, throttling>>

\* The accounts are counted in the transaction that adds the first.
CreateInitialAdmin(c) ==
  /\ Doing(c, "setup", "hashed") /\ Answered(c)
  /\ IF \A u \in Ids : ~Exists(u)
       THEN Insert(request[c].email, "admin")
       ELSE UNCHANGED users
  /\ UNCHANGED <<links, sessions, feed, era, born, throttling>>

-----------------------------------------------------------------------------
(* Signing in.                                                             *)

LoginAllowed(key) == attempts[key].blocked = 0

RefusedOnAnyKey(c, e) == ~LoginAllowed(<<c, e>>) \/ ~LoginAllowed(AccountKey(e))

\* Only the peer's own key refuses; the account's is counted and logged.
Refused(c, e) == ~LoginAllowed(<<c, e>>)

Login(c, e) ==
  /\ AcquirePasswordSlot
  /\ Starts(c, [kind |-> "login", email |-> e, user |-> 0, era |-> 0,
                at |-> IF Refused(c, e) THEN "refused" ELSE "allowed"])
  /\ UNCHANGED <<credentials, throttling>>

LoginRefused(c) ==
  /\ Doing(c, "login", "refused") /\ Answered(c)
  /\ UNCHANGED <<credentials, throttling>>

\* The account is read, and the password checked against what was read.
CheckPassword(c) ==
  /\ Doing(c, "login", "allowed")
  /\ \/ request' = [request EXCEPT ![c] = [@ EXCEPT !.at = "wrong"]]
     \/ \E u \in UserByEmail(request[c].email) :
          request' = [request EXCEPT ![c] =
                        [@ EXCEPT !.at = "right", !.user = u, !.era = users[u].era]]
  /\ UNCHANGED <<credentials, throttling, budget>>

\* One more failure; the count starts again once the first is older than the
\* window.
Failed(a) ==
  LET fresh == a.failures = 0 \/ a.age > Window
      n == IF fresh THEN 1 ELSE a.failures + 1
  IN  [failures |-> n, age |-> IF fresh THEN 0 ELSE a.age,
       blocked |-> IF n >= Threshold THEN Window ELSE 0]

\* A failure counts for the peer's key, and then for the account's.
RecordLoginFailure(c) ==
  LET e == request[c].email IN
  /\ \/ /\ Doing(c, "login", "wrong") /\ MovesTo(c, "counted")
        /\ attempts' = [attempts EXCEPT ![<<c, e>>] = Failed(@)]
        /\ strikes' = [strikes EXCEPT ![<<c, e>>] = IF @ < Threshold THEN @ + 1 ELSE @]
     \/ /\ Doing(c, "login", "counted") /\ Answered(c)
        /\ attempts' = [attempts EXCEPT ![AccountKey(e)] = Failed(@)]
        /\ UNCHANGED strikes
  /\ UNCHANGED credentials

ClearLoginFailures(c) ==
  LET e == request[c].email IN
  /\ \/ /\ Doing(c, "login", "right") /\ MovesTo(c, "cleared")
        /\ attempts' = [attempts EXCEPT ![<<c, e>>] = NoAttempts]
        /\ strikes' = [strikes EXCEPT ![<<c, e>>] = 0]
     \/ /\ Doing(c, "login", "cleared") /\ MovesTo(c, "ready")
        /\ attempts' = [attempts EXCEPT ![AccountKey(e)] = NoAttempts]
        /\ UNCHANGED strikes
  /\ UNCHANGED credentials

\* A session of the id that was read, none if no account has it.  The password is not
\* looked at again: it may be another one by now, or another's account.
CreateSession(c) ==
  LET u == request[c].user IN
  /\ Doing(c, "login", "ready") /\ Answered(c)
  /\ sessions' = IF Exists(u)
                   THEN sessions \cup {[user |-> u, era |-> request[c].era, issued |-> users[u].era]}
                   ELSE sessions
  /\ UNCHANGED <<users, links, feed, era, born, throttling>>

Logout(s) ==
  /\ sessions' = sessions \ {s}
  /\ UNCHANGED <<users, links, feed, era, born, throttling, budget, request>>

-----------------------------------------------------------------------------
(* A new password.                                                         *)

OpenResets(u) == {l \in Links : links[l] # NoLink /\ links[l].kind = "reset"
                                /\ links[l].user = u /\ links[l].state = "open"}
Retire(S) == [l \in Links |-> IF l \in S THEN [links[l] EXCEPT !.state = "spent"] ELSE links[l]]

NewPasswordKeepingLinks(u) ==
  /\ era < MaxEra
  /\ era' = era + 1
  /\ users' = [users EXCEPT ![u] = [@ EXCEPT !.era = era + 1]]
  /\ sessions' = {s \in sessions : s.user # u}
  /\ feed' = [feed EXCEPT ![u] = NoFeed]
  /\ UNCHANGED links

\* Every bearer credential of the account that is there ends with its password.
NewPassword(u) ==
  /\ era < MaxEra
  /\ era' = era + 1
  /\ users' = [users EXCEPT ![u] = [@ EXCEPT !.era = era + 1]]
  /\ sessions' = {s \in sessions : s.user # u}
  /\ feed' = [feed EXCEPT ![u] = NoFeed]
  /\ links' = Retire(OpenResets(u))

\* Settings: the current password is checked before the new one is stored.
ChangePassword(c, s) ==
  /\ Starts(c, [kind |-> "change", at |-> "hashed", user |-> s.user]) /\ AcquirePasswordSlot
  /\ UNCHANGED <<credentials, throttling>>

UpdatePassword(c) ==
  /\ Doing(c, "change", "hashed") /\ Answered(c)
  /\ IF Exists(request[c].user) THEN NewPassword(request[c].user)
     ELSE UNCHANGED <<users, sessions, feed, links, era>>
  /\ UNCHANGED <<born, throttling>>

IsOpen(l, kind) == links[l] # NoLink /\ links[l].kind = kind /\ links[l].state = "open"

\* The form of a link is open to whoever has it.
OpenLink(c, l, kind) ==
  /\ Starts(c, [kind |-> kind, at |-> "hashed", link |-> l, was |-> links[l]]) /\ AcquirePasswordSlot
  /\ IsOpen(l, IF kind = "accept" THEN "invite" ELSE "reset")
  /\ UNCHANGED <<credentials, throttling>>

ResetPasswordWithToken(c) ==
  /\ Doing(c, "recover", "hashed") /\ Answered(c)
  /\ IF IsOpen(request[c].link, "reset") THEN NewPassword(links[request[c].link].user)
     ELSE UNCHANGED <<users, sessions, feed, links, era>>
  /\ UNCHANGED <<born, throttling>>

-----------------------------------------------------------------------------
(* Invitations.                                                            *)

\* An address that has an account, and a name that is taken or refused, leave
\* the invitation open.
Join(l) ==
  /\ Insert(links[l].email, "member")
  /\ links' = Retire({l})
  /\ born' = [born EXCEPT ![l] = @ + 1]

CreateUserFromInviteCheckedBefore(c) ==
  LET l == request[c].link IN
  /\ Doing(c, "accept", "hashed") /\ Answered(c)
  /\ \/ /\ Insert(request[c].was.email, "member")
        /\ links' = Retire({l} \ {m \in Links : links[m] = NoLink})
        /\ born' = [born EXCEPT ![l] = @ + 1]
     \/ UNCHANGED <<users, links, born>>
  /\ UNCHANGED <<sessions, feed, era, throttling>>

CreateUserFromInvite(c) ==
  LET l == request[c].link IN
  /\ Doing(c, "accept", "hashed") /\ Answered(c)
  /\ \/ IsOpen(l, "invite") /\ Join(l)
     \/ UNCHANGED <<users, links, born>>
  /\ UNCHANGED <<sessions, feed, era, throttling>>

-----------------------------------------------------------------------------
(* The administrator's work, and a member's calendar token.  The session,  *)
(* its role and the account looked up are read before the write.           *)

IsAdmin(s) == users[s.user].role = "admin"

AdminReads(c, s, op, e) ==
  /\ IsAdmin(s)
  /\ IF op = "invite" THEN UserByEmail(e) = {} ELSE UserByEmail(e) # {}
  /\ Starts(c, [kind |-> op, at |-> "read", acting |-> s.user, email |-> e,
                user |-> IF op = "invite" THEN 0 ELSE CHOOSE u \in UserByEmail(e) : TRUE])
  /\ UNCHANGED <<credentials, throttling>>

NewLink(kind, e, u) ==
  [kind |-> kind, email |-> e, user |-> u, state |-> "open", era |-> IF u = 0 THEN 0 ELSE users[u].era]

\* Invitations live side by side; a recovery link retires its predecessors, and
\* needs its account.
CreateAuthToken(c, l) ==
  LET q == request[c] IN
  /\ q.kind \in {"invite", "reset"} /\ links[l] = NoLink /\ Answered(c)
  /\ q.kind = "reset" => Exists(q.user)
  /\ LET retired == IF q.kind = "reset" THEN OpenResets(q.user) ELSE {} IN
     links' = [Retire(retired) EXCEPT ![l] = NewLink(q.kind, q.email, q.user)]
  /\ born' = [born EXCEPT ![l] = 0]
  /\ UNCHANGED <<users, sessions, feed, era, throttling>>

CreateAuthTokenFails(c) ==
  /\ request[c].kind = "reset" /\ ~Exists(request[c].user) /\ Answered(c)
  /\ UNCHANGED <<credentials, throttling>>

Admins == {u \in Ids : Exists(u) /\ users[u].role = "admin"}

\* The acting role is read again, and the last administrator stays; what hangs
\* on the account goes with it.
DeleteUser(c) ==
  LET q == request[c]  u == q.user IN
  /\ q.kind = "delete" /\ Answered(c)
  /\ IF /\ q.acting # u /\ q.acting \in Admins /\ Exists(u)
        /\ users[u].role = "admin" => Cardinality(Admins) > 1
       THEN /\ users' = [users EXCEPT ![u] = NoUser]
            /\ sessions' = {s \in sessions : s.user # u}
            /\ feed' = [feed EXCEPT ![u] = NoFeed]
            /\ links' = [l \in Links |->
                 IF links[l] # NoLink /\ (links[l].email = users[u].email \/ links[l].user = u)
                   THEN NoLink ELSE links[l]]
       ELSE UNCHANGED <<users, sessions, feed, links>>
  /\ UNCHANGED <<era, born, throttling>>

FeedAction(c, s, op) ==
  /\ Starts(c, [kind |-> "feed", at |-> op, user |-> s.user, era |-> s.era])
  /\ UNCHANGED <<credentials, throttling>>

\* Generating rotates: one token per account.  The session that asked for it was read
\* before, and may have ended.
CreateCalendarFeedToken(c) ==
  LET u == request[c].user IN
  /\ Doing(c, "feed", "generate") /\ Answered(c)
  /\ feed' = IF Exists(u)
             THEN [feed EXCEPT ![u] = [era |-> request[c].era, issued |-> users[u].era]]
             ELSE feed
  /\ UNCHANGED <<users, links, sessions, era, born, throttling>>

RevokeCalendarFeedToken(c) ==
  /\ Doing(c, "feed", "revoke") /\ Answered(c)
  /\ feed' = [feed EXCEPT ![request[c].user] = NoFeed]
  /\ UNCHANGED <<users, links, sessions, era, born, throttling>>

-----------------------------------------------------------------------------
(* Time.                                                                   *)

LinkExpires(l) ==
  /\ links[l] # NoLink /\ links[l].state = "open"
  /\ links' = [links EXCEPT ![l] = [@ EXCEPT !.state = "spent"]]
  /\ UNCHANGED <<users, sessions, feed, era, born, throttling, budget, request>>

\* Maintenance deletes what is used or expired.
LinkPruned(l) ==
  /\ links[l] # NoLink /\ links[l].state # "open"
  /\ links' = [links EXCEPT ![l] = NoLink]
  /\ UNCHANGED <<users, sessions, feed, era, born, throttling, budget, request>>

\* A tick: blocks run down, failures age.
AccountsTick ==
  /\ attempts' = [k \in Keys |->
       LET a == attempts[k] IN
       [failures |-> a.failures, blocked |-> IF a.blocked = 0 THEN 0 ELSE a.blocked - 1,
        age |-> IF a.failures = 0 \/ a.age > Window THEN a.age ELSE a.age + 1]]
  /\ UNCHANGED <<credentials, budget, strikes, request>>

-----------------------------------------------------------------------------
RequestBegins(c) ==
  \/ \E e \in Emails :
       Setup(c, e) \/ Login(c, e)
  \/ \E l \in Links : OpenLink(c, l, "accept") \/ OpenLink(c, l, "recover")
  \/ \E s \in sessions :
       \/ ChangePassword(c, s)
       \/ \E op \in {"invite", "reset", "delete"}, e \in Emails : AdminReads(c, s, op, e)
       \/ \E op \in {"generate", "revoke"} : FeedAction(c, s, op)

RequestWrites(c) ==
  \/ CreateInitialAdmin(c) \/ LoginRefused(c) \/ CheckPassword(c)
  \/ RecordLoginFailure(c) \/ ClearLoginFailures(c) \/ CreateSession(c) \/ UpdatePassword(c)
  \/ ResetPasswordWithToken(c) \/ CreateUserFromInvite(c)
  \/ \E l \in Links : CreateAuthToken(c, l)
  \/ CreateAuthTokenFails(c) \/ DeleteUser(c)
  \/ CreateCalendarFeedToken(c) \/ RevokeCalendarFeedToken(c)

AccountsNext ==
  \/ \E c \in Clients : RequestBegins(c) \/ RequestWrites(c)
  \/ \E s \in sessions : Logout(s)
  \/ \E l \in Links : LinkExpires(l) \/ LinkPruned(l)
  \/ AccountsTick

-----------------------------------------------------------------------------
(* Properties.                                                             *)

\* However many browsers race for the set-up and whoever is deleted, a household
\* with accounts has exactly one administrator.
OneAdministrator == (\E u \in Ids : Exists(u)) => Cardinality(Admins) = 1

\* An invitation makes one account, however often its form is sent.
InvitationMakesOneAccount == \A l \in Links : born[l] <= 1

\* Whatever lets somebody in without the password, a session, the calendar token
\* or a recovery link, was issued since its account has its current password: a new
\* one ends all there are.  It does not end what a request that read the old one
\* writes afterwards.
CredentialsEndWithPassword ==
  /\ \A s \in sessions : s.issued = users[s.user].era
  /\ \A u \in Ids : feed[u] # NoFeed => Exists(u) /\ feed[u].issued = users[u].era
  /\ \A l \in Links : IsOpen(l, "reset") => links[l].era = users[links[l].user].era

\* Nobody is refused for what others did: the throttle turns away only a peer
\* that itself gave as many wrong passwords for the address.
OwnerIsNotLockedOut ==
  [][\A c \in Clients :
       request'[c] # request[c] /\ request'[c].kind = "login" /\ request'[c].at = "refused" =>
         strikes[<<c, request'[c].email>>] >= Threshold]_accountVars

\* What the accounts of a household promise, whichever requests run side by side:
\* nobody becomes an administrator or a member twice over, a new password ends every
\* credential issued before it, and no guesser shuts the owner out.
AccountsAreSound ==
  /\ [](AccountsTypeOK /\ OneAdministrator /\ InvitationMakesOneAccount /\ CredentialsEndWithPassword)
  /\ OwnerIsNotLockedOut

-----------------------------------------------------------------------------
(* Why they hold: the inductive invariant of the proofs.                   *)

AccountsSpec == AccountsInit /\ [][AccountsNext]_accountVars

UserRows == [role : {"admin", "member"}, email : Emails, era : 0 .. MaxEra]
LinkRows == [kind : {"invite", "reset"}, email : Emails, user : Ids \cup {0},
             state : {"open", "spent"}, era : 0 .. MaxEra]
LoginRequests ==
  [kind : {"login"}, email : Emails, user : Ids \cup {0}, era : 0 .. MaxEra,
   at : {"refused", "allowed", "wrong", "counted", "right", "cleared", "ready"}]
Tokens == [era : 0 .. MaxEra, issued : 0 .. MaxEra]

\* What a request has read: whom it is about, or the link it has.
RequestsTyped ==
  /\ DOMAIN request = Clients
  /\ \A c \in Clients :
       LET q == request[c] IN
       /\ q.kind \in {"setup", "invite", "reset", "delete"} => q.email \in Emails
       /\ q.kind = "login" => q \in LoginRequests /\ (q.at \in {"right", "cleared", "ready"} => q.user \in Ids)
       /\ q.kind \in {"change", "feed", "reset", "delete"} => q.user \in Ids
       /\ q.kind = "invite" => q.user = 0
       /\ q.kind = "feed" => q.era \in 0 .. MaxEra
       /\ q.kind \in {"accept", "recover"} => q.link \in Links

AccountsTyped ==
  /\ users \in [Ids -> UserRows \cup {NoUser}] /\ links \in [Links -> LinkRows \cup {NoLink}]
  /\ sessions \subseteq [user : Ids, era : 0 .. MaxEra, issued : 0 .. MaxEra]
  /\ feed \in [Ids -> Tokens \cup {NoFeed}]
  /\ attempts \in [Keys -> [failures : Nat, age : 0 .. Window + 1, blocked : 0 .. Window]]
  /\ strikes \in [Clients \X Emails -> Nat] /\ era \in 0 .. MaxEra /\ born \in [Links -> Nat]
  /\ RequestsTyped

\* Before the first account there is nothing, and there is one administrator then.
HouseholdIsFounded ==
  /\ Admins = {} =>
       /\ \A u \in Ids : ~Exists(u)
       /\ \A l \in Links : links[l] = NoLink
       /\ \A c \in Clients : request[c].kind \notin {"invite", "reset"}
  /\ \A u, v \in Admins : u = v

\* An open link has made nobody yet, and a credential has an account, whose password
\* has not changed since it was issued.
OpenLinksAreUnused ==
  \A l \in Links : born[l] <= 1 /\ (links[l] # NoLink /\ links[l].state = "open" => born[l] = 0)
CredentialsHaveAccounts ==
  /\ \A s \in sessions : Exists(s.user) /\ s.issued = users[s.user].era
  /\ \A u \in Ids : feed[u] # NoFeed => Exists(u) /\ feed[u].issued = users[u].era
  /\ \A l \in Links : IsOpen(l, "reset") =>
       links[l].user \in Ids /\ Exists(links[l].user) /\ links[l].era = users[links[l].user].era

\* The peer's own key counts no more than its wrong passwords.
ThrottleIsEarned ==
  \A c \in Clients, e \in Emails :
    strikes[<<c, e>>] < Threshold =>
      attempts[<<c, e>>].blocked = 0 /\ attempts[<<c, e>>].failures <= strikes[<<c, e>>]

AccountsIInv ==
  /\ AccountsTyped /\ HouseholdIsFounded /\ OpenLinksAreUnused /\ CredentialsHaveAccounts
  /\ ThrottleIsEarned
=============================================================================
