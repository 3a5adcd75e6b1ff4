------------------------------ MODULE Accounts ------------------------------
(***************************************************************************)
(* Operators, their sign-ins and their sessions (human_auth.py).           *)
(*                                                                         *)
(* Every request runs in transactions of its own.  What a transaction      *)
(* reads before its first write may have changed when it writes; from the  *)
(* first write on it has the database to itself, so that a write and all   *)
(* that follows it up to the commit are one step.                          *)
(*                                                                         *)
(* The clock is abstracted: a live session may at any time turn out idle   *)
(* or past its deadline, a lock or a one-time code may have run out.       *)
(* Passwords, codes and tokens are right or wrong.                         *)
(***************************************************************************)
EXTENDS Integers, FiniteSets

CONSTANTS
    Operators,     \* accounts, existing or yet to be created
    FirstAccounts, \* the accounts there are at the start, [operator -> role]
    Sessions,      \* numbers of sessions
    Captchas,      \* captcha challenges; one may be issued anew when it is consumed
    Challenges,    \* numbers of one-time-code challenges
    Policies,      \* values of auth_policy an admin may set
    Threshold,     \* lock_threshold
    Requests,      \* slots for requests
    Uses,          \* what the holder of a session asks for
    AdminsOverlap, \* TRUE iff requests of admins may overlap each other
    MaxRequests,   \* bound: requests
    MaxTicks       \* bound: sessions, locks and codes that run out

Roles == {"admin", "analyst"}
AdminUses == {"role", "disable", "enable", "unlock", "reset", "create", "policy"}
AllUses == AdminUses \cup {"call", "logout", "password"}
\* Sessions are listed by number; 0 stands for none.
NoSession == 0

ASSUME AccountsAssumption ==
    /\ IsFiniteSet(Operators) /\ FirstAccounts \in [Operators -> Roles \cup {"none"}]
    /\ \E u \in Operators : FirstAccounts[u] = "admin"
    /\ Sessions \subseteq Nat \ {NoSession} /\ IsFiniteSet(Sessions)
    /\ Challenges \subseteq Nat \ {0} /\ IsFiniteSet(Challenges)
    /\ \A pol \in Policies : pol.otp \in BOOLEAN /\ pol.cap \in Nat \ {0}
    /\ Policies # {} /\ Threshold \in Nat \ {0}
    /\ Uses \subseteq AllUses /\ AdminsOverlap \in BOOLEAN /\ {MaxRequests, MaxTicks} \subseteq Nat

VARIABLES
    op,       \* table operators
    sess,     \* table auth_sessions
    seen,     \* the order of the live sessions by last_seen_at: pairs, the earlier first
    ended,    \* table auth_audit: rows that record the end of each session
    chal,     \* table login_challenges
    captchas, \* table captcha_challenges: those issued and not consumed
    policy,   \* table auth_policy
    req,      \* the requests in progress
    asked,    \* history: requests so far
    ticks     \* history: sessions, locks and codes that have run out

vars == <<op, sess, seen, ended, chal, captchas, policy, req, asked, ticks>>

Account == [role : Roles \cup {"none"}, disabled : BOOLEAN, failed : 0 .. Threshold,
            lock : {"none", "locked", "expired"}]
Fresh(role) == [role |-> role, disabled |-> FALSE, failed |-> 0, lock |-> "none"]
Exists(account) == account.role # "none"

Session == [owner : Operators \cup {"none"}, state : {"none", "live", "revoked"},
            clock : {"fine", "idle", "over"}]
Challenge == [owner : Operators \cup {"none"}, attempts : Nat,
              state : {"none", "open", "expired", "consumed"}]

Idle == [pc |-> "idle", who |-> "none", was |-> Fresh("none"), pol |-> [otp |-> FALSE, cap |-> 1],
         session |-> NoSession,
         challenge |-> 0, tries |-> 0, use |-> "none", target |-> "none", want |-> "none"]

IsLive(s) == sess[s].state = "live"
Live == {s \in Sessions : IsLive(s)}
LiveOf(u) == {s \in Live : sess[s].owner = u}
Unused(S, table) == {x \in S : table[x].state = "none"}
Smallest(x, S) == x \in S /\ \A y \in S : x <= y
\* Bound: a request that may open a session, or issue a code, is only taken up
\* while a number is left for it.
Room == Cardinality(Unused(Sessions, sess))
          > Cardinality({r \in Requests : req[r].pc \in {"load", "clear", "check", "open",
                                                        "opening", "verified", "challenge"}})

Init ==
    /\ op = [u \in Operators |-> Fresh(FirstAccounts[u])]
    /\ sess = [s \in Sessions |-> [owner |-> "none", state |-> "none", clock |-> "fine"]]
    /\ seen = {}
    /\ ended = [s \in Sessions |-> 0]
    /\ chal = [k \in Challenges |-> [owner |-> "none", attempts |-> 0, state |-> "none"]]
    /\ captchas = {}
    /\ policy \in Policies
    /\ req = [r \in Requests |-> Idle]
    /\ asked = 0 /\ ticks = 0

-----------------------------------------------------------------------------
(* Parts of a transaction that has begun to write                          *)

Without(order, S) == {pair \in order : pair[1] \notin S /\ pair[2] \notin S}
SeenLast(order, s, others) == order \cup (others \X {s})
\* _revoke_session: only a session that is not revoked yet, and audit rows (one
\* or none) only for one it revoked itself.
\* (mutant: the row is written whether or not there was anything to revoke)
RevokedAnyway(S) == S
Revoked(S) == {s \in S : IsLive(s)}
Revoke(S, rows) ==
    LET gone == Revoked(S) IN
    /\ sess' = [s \in Sessions |-> IF s \in gone THEN [sess[s] EXCEPT !.state = "revoked"]
                                   ELSE sess[s]]
    /\ ended' = [s \in Sessions |-> ended[s] + IF s \in gone THEN rows ELSE 0]
    /\ seen' = Without(seen, gone)

\* _register_failure, for the row `was` it read: at the threshold the account
\* is locked and all its sessions end.  (Bound: failures past the threshold are
\* counted as one.)
Locks(count) == count >= Threshold
Failed(u, was) ==
    LET count == was.failed + 1 IN
    /\ op' = [op EXCEPT ![u] = [op[u] EXCEPT
                    !.failed = IF count <= Threshold THEN count ELSE Threshold,
                    !.lock = IF Locks(count) THEN "locked" ELSE op[u].lock]]
    /\ IF Locks(count) THEN Revoke(LiveOf(u), 0)
       ELSE UNCHANGED <<sess, ended, seen>>
\* What a sign-in that succeeds, or an admin who unlocks, does to the counter.
Cleared(u) == op' = [op EXCEPT ![u] = [op[u] EXCEPT !.failed = 0, !.lock = "none"]]

\* _make_room_for_session: whatever has timed out goes, and then the sessions
\* least recently seen, until one less than the cap is left.
Timely(u) == {s \in LiveOf(u) : sess[s].clock = "fine"}
SeenSince(s, S) == {t \in S : <<s, t>> \in seen}
\* (mutant: room for one too many)
OverflowLate(u, pol) ==
    {s \in Timely(u) : Cardinality(SeenSince(s, Timely(u))) >= pol.cap}
Overflow(u, pol) ==
    {s \in Timely(u) : Cardinality(SeenSince(s, Timely(u))) >= pol.cap - 1}
\* _open_session.
Opens(u, pol) ==
    LET gone == Revoked(Overflow(u, pol) \cup {s \in LiveOf(u) : sess[s].clock # "fine"}) IN
    \E new \in Sessions :
       /\ Smallest(new, Unused(Sessions, sess))
       /\ sess' = [s \in Sessions |->
                     IF s = new THEN [owner |-> u, state |-> "live", clock |-> "fine"]
                     ELSE IF s \in gone THEN [sess[s] EXCEPT !.state = "revoked"] ELSE sess[s]]
       /\ ended' = [s \in Sessions |-> ended[s] + IF s \in gone THEN 1 ELSE 0]
       /\ seen' = SeenLast(Without(seen, gone), new, Live \ gone)

Asks(r) == req[r].pc = "idle" /\ asked < MaxRequests /\ asked' = asked + 1
Step(r, from, to) == req[r].pc = from /\ req' = [req EXCEPT ![r] = to]
At(r, pc) == [req[r] EXCEPT !.pc = pc]

-----------------------------------------------------------------------------
(* Signing in                                                              *)

IssueCaptcha(c) ==
    /\ captchas' = captchas \cup {c}
    /\ UNCHANGED <<op, sess, seen, ended, chal, policy, req, asked, ticks>>
\* login: the captcha is consumed whether or not it is answered.
Login(r, u) ==
    /\ Asks(r) /\ Room
    /\ \E c \in captchas : captchas' = captchas \ {c}
    /\ \/ req' = [req EXCEPT ![r] = [Idle EXCEPT !.pc = "load", !.who = u]]
       \/ UNCHANGED req
    /\ UNCHANGED <<op, sess, seen, ended, chal, policy, ticks>>
\* load: the account as it is now; a lock that has run out will be cleared.
Load(r) ==
    LET was == op[req[r].who] IN
    /\ Step(r, "load", [At(r, IF ~ Exists(was) THEN "idle"
                              ELSE IF was.lock = "expired" THEN "clear" ELSE "check")
                          EXCEPT !.was = was])
    /\ UNCHANGED <<op, sess, seen, ended, chal, captchas, policy, asked, ticks>>
ClearExpiredLock(r) ==
    /\ Step(r, "clear", [At(r, "check") EXCEPT !.was.failed = 0, !.was.lock = "none"])
    /\ Cleared(req[r].who)
    /\ UNCHANGED <<sess, seen, ended, chal, captchas, policy, asked, ticks>>
\* The password, and for a right one the state of the account as it was loaded,
\* and the policy.
WrongPassword(r) ==
    /\ Step(r, "check", At(r, "failing"))
    /\ UNCHANGED <<op, sess, seen, ended, chal, captchas, policy, asked, ticks>>
RightPassword(r) ==
    LET refused == req[r].was.lock = "locked" \/ req[r].was.disabled IN
    /\ Step(r, "check",
            IF refused THEN Idle
            ELSE [At(r, IF policy.otp THEN "challenge" ELSE "open") EXCEPT !.pol = policy])
    /\ UNCHANGED <<op, sess, seen, ended, chal, captchas, policy, asked, ticks>>
\* A wrong password, here or in change_password: the row is read again first.
FailRead(r) ==
    /\ Step(r, "failing", [At(r, "fail") EXCEPT !.was = op[req[r].who]])
    /\ UNCHANGED <<op, sess, seen, ended, chal, captchas, policy, asked, ticks>>
FailWrite(r) ==
    /\ Step(r, "fail", Idle)
    /\ Failed(req[r].who, req[r].was)
    /\ UNCHANGED <<chal, captchas, policy, asked, ticks>>

\* open_without_otp.
OpenRead(r) ==
    LET now == op[req[r].who] IN
    /\ Step(r, "open", IF now.disabled \/ now.lock = "locked" THEN Idle ELSE At(r, "opening"))
    /\ UNCHANGED <<op, sess, seen, ended, chal, captchas, policy, asked, ticks>>
OpenWrite(r) ==
    /\ Step(r, "opening", Idle)
    /\ Cleared(req[r].who) /\ Opens(req[r].who, req[r].pol)
    /\ UNCHANGED <<chal, captchas, policy, asked, ticks>>

Consumed(k) == chal' = [chal EXCEPT ![k] = [chal[k] EXCEPT !.state = "consumed"]]
\* store_challenge, and the delivery of the code.
StoreChallenge(r) ==
    /\ \E k \in Challenges :
       /\ Smallest(k, Unused(Challenges, chal))
       /\ Step(r, "challenge", [At(r, "deliver") EXCEPT !.challenge = k])
       /\ chal' = [chal EXCEPT ![k] = [owner |-> req[r].who, attempts |-> 0, state |-> "open"]]
    /\ UNCHANGED <<op, sess, seen, ended, captchas, policy, asked, ticks>>
Delivered(r) ==
    /\ Step(r, "deliver", Idle)
    /\ UNCHANGED <<op, sess, seen, ended, chal, captchas, policy, asked, ticks>>
NotDelivered(r) ==
    /\ Step(r, "deliver", Idle)
    /\ Consumed(req[r].challenge)
    /\ UNCHANGED <<op, sess, seen, ended, captchas, policy, asked, ticks>>

\* verify_otp, for a right and for a wrong code.
VerifyRead(r, k) ==
    /\ Asks(r) /\ Room
    /\ chal[k].state = "open"
    /\ LET u == chal[k].owner IN
       /\ u \in Operators /\ Exists(op[u]) /\ ~ op[u].disabled /\ op[u].lock # "locked"
       /\ \E pc \in {"verified", "wrong code"} :
            req' = [req EXCEPT ![r] = [Idle EXCEPT !.pc = pc, !.who = u, !.was = op[u],
                                                   !.pol = policy, !.challenge = k,
                                                   !.tries = chal[k].attempts]]
    /\ UNCHANGED <<op, sess, seen, ended, chal, captchas, policy, ticks>>
VerifiedWrite(r) ==
    /\ Step(r, "verified", Idle)
    /\ Consumed(req[r].challenge)
    /\ Cleared(req[r].who) /\ Opens(req[r].who, req[r].pol)
    /\ UNCHANGED <<captchas, policy, asked, ticks>>
\* The challenge is written from what was read of it; the account is read after
\* that write, and so is as it stands.
WrongCodeWrite(r) ==
    LET k == req[r].challenge attempts == req[r].tries + 1 IN
    /\ Step(r, "wrong code", Idle)
    /\ chal' = [chal EXCEPT ![k] = [chal[k] EXCEPT
                    !.attempts = attempts,
                    !.state = IF attempts >= Threshold THEN "consumed"
                              ELSE IF chal[k].state = "expired" THEN "expired" ELSE "open"]]
    /\ Failed(req[r].who, op[req[r].who])
    /\ UNCHANGED <<captchas, policy, asked, ticks>>

-----------------------------------------------------------------------------
(* Using a session                                                         *)

\* _enforce_session: the session, the policy and the account are read.
EnforceRead(r, s, use) ==
    /\ Asks(r)
    /\ IsLive(s) /\ use \in Uses
    /\ LET u == sess[s].owner IN
       /\ sess[s].clock = "fine" => ~ op[u].disabled
       /\ req' = [req EXCEPT ![r] =
                    [Idle EXCEPT !.pc = IF sess[s].clock = "fine" THEN "touch" ELSE "timeout",
                                 !.who = u, !.was = op[u], !.session = s, !.use = use]]
    /\ UNCHANGED <<op, sess, seen, ended, chal, captchas, policy, ticks>>
TimeoutWrite(r) ==
    /\ Step(r, "timeout", Idle)
    /\ Revoke({req[r].session}, 1)
    /\ UNCHANGED <<op, chal, captchas, policy, asked, ticks>>
\* _enforce_session ends: last_seen_at is now.
Touched(s) ==
    IF IsLive(s)
    THEN /\ seen' = SeenLast(Without(seen, {s}), s, Live \ {s})
         /\ sess' = [sess EXCEPT ![s] = [sess[s] EXCEPT
                         !.clock = IF sess[s].clock = "idle" THEN "fine" ELSE sess[s].clock]]
    ELSE UNCHANGED <<seen, sess>>
\* The request goes on with what it asked for; a refresh rotates its token in
\* the same step.
TouchWrite(r) ==
    LET use == req[r].use IN
    /\ Step(r, "touch", IF use = "call" THEN Idle ELSE At(r, use))
    /\ Touched(req[r].session)
    /\ UNCHANGED <<op, ended, chal, captchas, policy, asked, ticks>>

Logout(r) ==
    /\ Step(r, "logout", Idle)
    /\ Revoke({req[r].session}, 1)
    /\ UNCHANGED <<op, chal, captchas, policy, asked, ticks>>
Recounted(u) == op' = [op EXCEPT ![u] = [op[u] EXCEPT !.failed = 0]]
\* change_password, with the current password right or wrong.
ChangePassword(r) ==
    /\ \/ Step(r, "password", Idle) /\ Recounted(req[r].who)
       \/ Step(r, "password", At(r, "failing")) /\ UNCHANGED op
    /\ UNCHANGED <<sess, seen, ended, chal, captchas, policy, asked, ticks>>

-----------------------------------------------------------------------------
(* Administration                                                          *)

Admins == {u \in Operators : op[u].role = "admin" /\ ~ op[u].disabled}
\* _guard_last_admin.
\* (mutant: any other admin will do, disabled or not)
OthersRemainAny(t) ==
    t \in Admins => \E u \in Operators \ {t} : op[u].role = "admin"
OthersRemain(t) == t \in Admins => Admins \ {t} # {}

MayChange(use, t, want) ==
    CASE use = "role" -> /\ Exists(op[t]) /\ want \in Roles \ {op[t].role}
                         /\ want # "admin" => OthersRemain(t)
      [] use = "disable" -> Exists(op[t]) /\ ~ op[t].disabled /\ OthersRemain(t)
      [] use = "enable" -> Exists(op[t]) /\ op[t].disabled
      [] use = "unlock" -> Exists(op[t]) /\ (op[t].lock = "locked" \/ op[t].failed # 0)
      [] use = "reset" -> Exists(op[t])
      [] use = "create" -> want \in Roles
      [] use = "policy" -> TRUE

Administering == {r \in Requests : req[r].pc = "changing"}
AdminRead(r, t, want) ==
    /\ req[r].pc \in AdminUses /\ req[r].was.role = "admin"
    /\ AdminsOverlap \/ Administering = {}
    /\ MayChange(req[r].use, t, want)
    /\ req' = [req EXCEPT ![r] = [req[r] EXCEPT !.pc = "changing", !.target = t, !.want = want]]
    /\ UNCHANGED <<op, sess, seen, ended, chal, captchas, policy, asked, ticks>>
\* Not an admin, or nothing of what was asked for may be done.
AdminRefused(r) ==
    /\ req[r].pc \in AdminUses
    /\ req' = [req EXCEPT ![r] = Idle]
    /\ UNCHANGED <<op, sess, seen, ended, chal, captchas, policy, asked, ticks>>

Altered(t, account) == op' = [op EXCEPT ![t] = account]
Changing(r, use) == req[r].use = use /\ Step(r, "changing", Idle)
ChangeRole(r) ==
    /\ Changing(r, "role")
    /\ Altered(req[r].target, [op[req[r].target] EXCEPT !.role = req[r].want])
    /\ UNCHANGED <<sess, seen, ended, chal, captchas, policy, asked, ticks>>
Disable(r) ==
    /\ Changing(r, "disable")
    /\ Altered(req[r].target, [op[req[r].target] EXCEPT !.disabled = TRUE])
    /\ Revoke(LiveOf(req[r].target), 0)
    /\ UNCHANGED <<chal, captchas, policy, asked, ticks>>
Enable(r) ==
    /\ Changing(r, "enable")
    /\ Altered(req[r].target, [op[req[r].target] EXCEPT !.disabled = FALSE])
    /\ UNCHANGED <<sess, seen, ended, chal, captchas, policy, asked, ticks>>
Unlock(r) ==
    /\ Changing(r, "unlock") /\ Cleared(req[r].target)
    /\ UNCHANGED <<sess, seen, ended, chal, captchas, policy, asked, ticks>>
ResetPassword(r) ==
    /\ Changing(r, "reset") /\ Cleared(req[r].target)
    /\ Revoke(LiveOf(req[r].target), 0)
    /\ UNCHANGED <<chal, captchas, policy, asked, ticks>>
\* The insert fails on a name that is taken.
CreateUser(r) ==
    LET t == req[r].target IN
    /\ Changing(r, "create")
    /\ Altered(t, IF Exists(op[t]) THEN op[t] ELSE Fresh(req[r].want))
    /\ UNCHANGED <<sess, seen, ended, chal, captchas, policy, asked, ticks>>
UpdatePolicy(r) ==
    /\ Changing(r, "policy")
    /\ \E pol \in Policies \ {policy} : policy' = pol
    /\ UNCHANGED <<op, sess, seen, ended, chal, captchas, asked, ticks>>

-----------------------------------------------------------------------------
(* The clock                                                               *)

Tick == ticks < MaxTicks /\ ticks' = ticks + 1
TimedOut(s, clock) ==
    /\ Tick /\ IsLive(s) /\ sess[s].clock # "over" /\ sess[s].clock # clock
    /\ sess' = [sess EXCEPT ![s] = [sess[s] EXCEPT !.clock = clock]]
    /\ UNCHANGED <<op, seen, ended, chal, captchas, policy, req, asked>>
LockRunsOut(u) ==
    /\ Tick /\ op[u].lock = "locked" /\ op' = [op EXCEPT ![u] = [op[u] EXCEPT !.lock = "expired"]]
    /\ UNCHANGED <<sess, seen, ended, chal, captchas, policy, req, asked>>
CodeRunsOut(k) ==
    /\ Tick /\ chal[k].state = "open"
    /\ chal' = [chal EXCEPT ![k] = [chal[k] EXCEPT !.state = "expired"]]
    /\ UNCHANGED <<op, sess, seen, ended, captchas, policy, req, asked>>

SignIn(r) ==
    \/ \E u \in Operators : Login(r, u)
    \/ Load(r) \/ ClearExpiredLock(r) \/ WrongPassword(r) \/ RightPassword(r)
    \/ FailRead(r) \/ FailWrite(r) \/ OpenRead(r) \/ OpenWrite(r)
    \/ StoreChallenge(r) \/ Delivered(r) \/ NotDelivered(r)
    \/ \E k \in Challenges : VerifyRead(r, k)
    \/ VerifiedWrite(r) \/ WrongCodeWrite(r)
UseSession(r) ==
    \/ \E s \in Sessions, use \in Uses : EnforceRead(r, s, use)
    \/ TimeoutWrite(r) \/ TouchWrite(r) \/ Logout(r) \/ ChangePassword(r)
Administer(r) ==
    \/ \E t \in Operators, want \in Roles : AdminRead(r, t, want)
    \/ AdminRefused(r) \/ ChangeRole(r) \/ Disable(r) \/ Enable(r) \/ Unlock(r)
    \/ ResetPassword(r) \/ CreateUser(r) \/ UpdatePolicy(r)
Clock ==
    \/ \E s \in Sessions, clock \in {"idle", "over"} : TimedOut(s, clock)
    \/ \E u \in Operators : LockRunsOut(u)
    \/ \E k \in Challenges : CodeRunsOut(k)

Next ==
    \/ \E r \in Requests : SignIn(r) \/ UseSession(r) \/ Administer(r)
    \/ \E c \in Captchas : IssueCaptcha(c)
    \/ Clock
Spec == Init /\ [][Next]_vars

-----------------------------------------------------------------------------
(* Properties                                                              *)

PCs == {"idle", "load", "clear", "check", "failing", "fail", "open", "opening", "challenge",
        "deliver", "verified", "wrong code", "touch", "timeout", "changing"} \cup AllUses
Request == [pc : PCs, who : Operators \cup {"none"}, was : Account,
            pol : Policies \cup {Idle.pol}, session : Sessions \cup {NoSession},
            challenge : Challenges \cup {0}, tries : Nat, use : AllUses \cup {"none"},
            target : Operators \cup {"none"}, want : Roles \cup {"none"}]

\* A strict total order of the set L.
Ordered(order, L) ==
    /\ order \subseteq L \X L
    /\ \A s \in L : <<s, s>> \notin order
    /\ \A s, t \in L : s # t => <<s, t>> \in order \/ <<t, s>> \in order
    /\ \A s, t, v \in L : <<s, t>> \in order /\ <<t, v>> \in order => <<s, v>> \in order
\* Besides the domains: `seen` is an order of the live sessions, and an account
\* that is not locked is below the threshold.
TypeOK ==
    /\ op \in [Operators -> Account]
    /\ sess \in [Sessions -> Session]
    /\ ended \in [Sessions -> Nat]
    /\ chal \in [Challenges -> Challenge]
    /\ captchas \subseteq Captchas /\ policy \in Policies /\ {asked, ticks} \subseteq Nat
    /\ req \in [Requests -> Request]
    /\ Ordered(seen, Live)
    /\ \A u \in Operators : op[u].lock = "none" => op[u].failed < Threshold

WithinCap(r) ==
    LET mine == {s \in Sessions : sess'[s].owner = req[r].who}
        kept == {s \in mine : sess'[s].state = "live"}
        ousted == {s \in mine : /\ IsLive(s) /\ sess'[s].state = "revoked"
                                /\ sess[s].clock = "fine"}
    IN  /\ Cardinality(kept) <= req[r].pol.cap
        /\ \A s \in ousted, t \in kept : IsLive(t) => <<s, t>> \in seen
\* A sign-in leaves its operator no more sessions than the policy it read
\* allows, however many sign-ins overlap; and what it ends for want of room is
\* what was seen least recently (_make_room_for_session: "Revoke expired
\* sessions, then the oldest live ones past the cap").
OpensWithinCap ==
    [][\A r \in Requests :
        req[r].pc \in {"opening", "verified"} /\ req'[r].pc = "idle" => WithinCap(r)]_vars

\* The end of a session is recorded at most once, by the request that ended it,
\* whoever else times it out, logs it out or makes room at the same time.
EndRecordedOnce ==
    \A s \in Sessions : ended[s] <= 1 /\ (ended[s] = 1 => sess[s].state = "revoked")

\* There is always an admin who can sign in (human_auth.py: "The last admin
\* cannot be demoted or disabled").
AdminRemains == Admins # {}
=============================================================================
