---------------------------- MODULE Accounts_proofs ----------------------------
(***************************************************************************)
(* What holds of accounts and sessions for any numbers of operators,       *)
(* sessions and requests that overlap in any way.                          *)
(*                                                                         *)
(* TypeInv is the part of TypeOK the proofs need, with who a request is    *)
(* made by and what it is about.  The end of a session is recorded once    *)
(* because what writes the record revokes in the same transaction.  That   *)
(* an administrator remains needs more: that administrators' requests do   *)
(* not overlap, and then that what the guard found still stands (Guarded). *)
(* A sign-in leaves no more sessions than its cap because live sessions    *)
(* are in a strict order (OrderInv), so that each of those it keeps has    *)
(* another number of sessions seen since, and each number is below.        *)
(***************************************************************************)
EXTENDS Accounts, FiniteSetTheorems, TLAPS

-----------------------------------------------------------------------------
(* Types *)

SessionsTyped ==
    /\ sess \in [Sessions -> Session]
    /\ ended \in [Sessions -> Nat]
    /\ \A s \in Sessions : sess[s].state # "none" => sess[s].owner \in Operators
ChallengesTyped == chal \in [Challenges -> Challenge]
\* A request in progress is somebody's, and holds what its next step needs.
Proper(w) ==
    /\ w.pc # "idle" => w.who \in Operators
    /\ w.pc \in AllUses => w.use = w.pc
    /\ w.pc = "touch" => w.use \in AllUses
    /\ w.pc \in {"touch", "timeout"} => w.session \in Sessions
    /\ w.pc = "changing" => w.target \in Operators /\ w.use \in AdminUses
    /\ w.pc = "changing" /\ w.use \in {"role", "create"} => w.want \in Roles
    /\ w.pc \in {"deliver", "verified", "wrong code"} => w.challenge \in Challenges
RequestsTyped ==
    /\ req \in [Requests -> Request]
    /\ \A r \in Requests : Proper(req[r])
TypeInv ==
    /\ op \in [Operators -> Account]
    /\ SessionsTyped /\ ChallengesTyped /\ RequestsTyped
    /\ policy \in Policies

LEMMA TypeInit == ASSUME Init PROVE TypeInv
<1>1. op \in [Operators -> Account]
  BY AccountsAssumption DEF Init, Account, Fresh
<1>2. SessionsTyped
  BY DEF Init, SessionsTyped, Session
<1>3. ChallengesTyped
  BY DEF Init, ChallengesTyped, Challenge
<1>4. Idle \in Request
  BY AccountsAssumption DEF Idle, Request, PCs, AllUses, Account, Fresh, NoSession
<1>5. RequestsTyped
  BY <1>4 DEF Init, RequestsTyped, Proper, AllUses, AdminUses, Idle
<1>6. QED
  BY <1>1, <1>2, <1>3, <1>5 DEF Init, TypeInv

-----------------------------------------------------------------------------
(* What the parts of a transaction leave of the sessions                   *)

SessionsInv == SessionsTyped /\ EndRecordedOnce

LEMMA RevokeKeeps ==
    ASSUME SessionsInv, NEW S, NEW rows \in {0, 1}, Revoke(S, rows)
    PROVE  SessionsInv'
<1> DEFINE gone == Revoked(S)
<1>1. \A s \in Sessions : s \in gone => sess[s].state = "live" /\ ended[s] = 0
  BY DEF Revoked, IsLive, SessionsInv, SessionsTyped, EndRecordedOnce
<1>2. \A s \in Sessions :
        /\ sess'[s] = IF s \in gone THEN [sess[s] EXCEPT !.state = "revoked"] ELSE sess[s]
        /\ ended'[s] = ended[s] + IF s \in gone THEN rows ELSE 0
  BY DEF Revoke
<1>3. SessionsTyped'
  BY <1>1, <1>2 DEF Revoke, SessionsInv, SessionsTyped, Session
<1> HIDE DEF gone
<1>4. \A s \in Sessions : s \in gone => sess'[s].state = "revoked"
  BY <1>1, <1>2 DEF SessionsInv, SessionsTyped, Session
<1>5. EndRecordedOnce'
  <2>1. SUFFICES ASSUME NEW s \in Sessions
                 PROVE  ended'[s] <= 1 /\ (ended'[s] = 1 => sess'[s].state = "revoked")
    BY DEF EndRecordedOnce
  <2>2. CASE s \in gone
    <3>1. ended'[s] = 0 + rows
      BY <1>1, <1>2, <2>2
    <3>2. QED
      BY <1>4, <2>2, <3>1
  <2>3. CASE s \notin gone
    <3>1. ended'[s] = ended[s] + 0 /\ sess'[s] = sess[s]
      BY <1>2, <2>3
    <3>2. ended'[s] = ended[s]
      BY <3>1 DEF SessionsInv, SessionsTyped
    <3>3. QED
      BY <3>1, <3>2 DEF SessionsInv, EndRecordedOnce
  <2>4. QED
    BY <2>2, <2>3
<1>6. QED
  BY <1>3, <1>5 DEF SessionsInv

LEMMA OpensKeeps ==
    ASSUME SessionsInv, NEW u \in Operators, NEW pol, Opens(u, pol)
    PROVE  SessionsInv'
<1> DEFINE gone == Revoked(Overflow(u, pol) \cup {s \in LiveOf(u) : sess[s].clock # "fine"})
<1>1. \A s \in Sessions : s \in gone => sess[s].state = "live" /\ ended[s] = 0
  BY DEF Revoked, IsLive, SessionsInv, SessionsTyped, EndRecordedOnce
<1>2. PICK new \in Sessions :
        /\ Smallest(new, Unused(Sessions, sess))
        /\ sess' = [s \in Sessions |->
                      IF s = new THEN [owner |-> u, state |-> "live", clock |-> "fine"]
                      ELSE IF s \in gone THEN [sess[s] EXCEPT !.state = "revoked"] ELSE sess[s]]
        /\ ended' = [s \in Sessions |-> ended[s] + IF s \in gone THEN 1 ELSE 0]
  BY DEF Opens
<1> HIDE DEF gone
<1>3. sess[new].state = "none" /\ ended[new] = 0 /\ new \notin gone
  <2>1. sess[new].state = "none"
    BY <1>2 DEF Smallest, Unused
  <2>2. ended[new] \in Nat /\ ended[new] <= 1 /\ ended[new] # 1
    BY <2>1 DEF SessionsInv, SessionsTyped, EndRecordedOnce
  <2>3. QED
    BY <1>1, <2>1, <2>2
<1>4. SessionsTyped'
  <2>1. ended' \in [Sessions -> Nat]
    BY <1>2 DEF SessionsInv, SessionsTyped
  <2>2. sess' \in [Sessions -> Session]
    BY <1>2 DEF SessionsInv, SessionsTyped, Session
  <2>3. \A s \in Sessions : sess'[s].state # "none" => sess'[s].owner \in Operators
    BY <1>1, <1>2 DEF SessionsInv, SessionsTyped, Session
  <2>4. QED
    BY <2>1, <2>2, <2>3 DEF SessionsTyped
<1>5. EndRecordedOnce'
  <2>1. SUFFICES ASSUME NEW s \in Sessions
                 PROVE  ended'[s] <= 1 /\ (ended'[s] = 1 => sess'[s].state = "revoked")
    BY DEF EndRecordedOnce
  <2>2. CASE s \in gone
    BY <1>1, <1>2, <1>3, <2>2 DEF SessionsInv, SessionsTyped, Session
  <2>3. CASE s \notin gone
    BY <1>2, <1>3, <2>3 DEF SessionsInv, SessionsTyped, EndRecordedOnce
  <2>4. QED
    BY <2>2, <2>3
<1>6. QED
  BY <1>4, <1>5 DEF SessionsInv

-----------------------------------------------------------------------------
(* Each part of a request                                                  *)

Inv == TypeInv /\ EndRecordedOnce

LEMMA IdleIsProper == Idle \in Request /\ Proper(Idle)
  BY AccountsAssumption DEF Idle, Request, PCs, AllUses, AdminUses, Account, Fresh, NoSession, Proper

Answering(pc, u, was, pol, k, n) ==
    [Idle EXCEPT !.pc = pc, !.who = u, !.was = was, !.pol = pol, !.challenge = k, !.tries = n]
LEMMA AnsweredCode ==
    ASSUME NEW pc \in PCs, NEW u \in Operators, NEW was \in Account, NEW pol \in Policies,
           NEW k \in Challenges, NEW n \in Nat
    PROVE  /\ Answering(pc, u, was, pol, k, n) \in Request
           /\ Answering(pc, u, was, pol, k, n).pc = pc
           /\ Answering(pc, u, was, pol, k, n).who = u
           /\ Answering(pc, u, was, pol, k, n).challenge = k
<1> DEFINE idle == Idle
<1>1. idle \in Request
  BY IdleIsProper
<1> HIDE DEF idle
<1>2. [idle EXCEPT !.pc = pc, !.who = u, !.was = was, !.pol = pol, !.challenge = k, !.tries = n]
        \in Request
  BY <1>1 DEF Request
<1>3. QED
  BY <1>1, <1>2 DEF idle, Request, Answering

LEMMA Stepped ==
    ASSUME RequestsTyped, NEW r \in Requests, NEW w \in Request, Proper(w),
           req' = [req EXCEPT ![r] = w]
    PROVE  RequestsTyped'
  BY DEF RequestsTyped

\* At another place, with the rest as it was.
LEMMA AtPlace ==
    ASSUME RequestsTyped, NEW r \in Requests, NEW pc \in PCs
    PROVE  /\ At(r, pc) \in Request
           /\ At(r, pc) = [pc |-> pc, who |-> req[r].who, was |-> req[r].was,
                           pol |-> req[r].pol, session |-> req[r].session,
                           challenge |-> req[r].challenge, tries |-> req[r].tries,
                           use |-> req[r].use, target |-> req[r].target, want |-> req[r].want]
  BY DEF RequestsTyped, Request, At

\* What a transaction does to an account leaves it one, with its role.
SameRanks ==
    \A u \in Operators : op'[u].role = op[u].role /\ op'[u].disabled = op[u].disabled
LEMMA ThresholdIsNat == Threshold \in Nat /\ 0 \in 0 .. Threshold
<1>1. Threshold \in Nat
  BY AccountsAssumption
<1>2. QED
  BY <1>1
LEMMA ClearedType ==
    ASSUME op \in [Operators -> Account], NEW u \in Operators, Cleared(u)
    PROVE  op' \in [Operators -> Account] /\ SameRanks
<1>1. [op[u] EXCEPT !.failed = 0, !.lock = "none"] \in Account
  BY ThresholdIsNat DEF Account
<1>2. QED
  BY <1>1 DEF Cleared, SameRanks, Account
LEMMA ConsumedType ==
    ASSUME ChallengesTyped, NEW k \in Challenges, Consumed(k)
    PROVE  ChallengesTyped'
  BY DEF ChallengesTyped, Challenge, Consumed
LEMMA FailedType ==
    ASSUME Inv, NEW u \in Operators, NEW was \in Account, Failed(u, was)
    PROVE  op' \in [Operators -> Account] /\ SameRanks /\ SessionsInv'
<1>1. op' \in [Operators -> Account] /\ SameRanks
  <2> DEFINE count == was.failed + 1
             tally == IF count <= Threshold THEN count ELSE Threshold
             lock == IF Locks(count) THEN "locked" ELSE op[u].lock
  <2>1. tally \in 0 .. Threshold
    BY AccountsAssumption DEF Account
  <2>2. lock \in {"none", "locked", "expired"}
    BY DEF Inv, TypeInv, Account
  <2>3. op' = [op EXCEPT ![u] = [op[u] EXCEPT !.failed = tally, !.lock = lock]]
    BY DEF Failed
  <2> HIDE DEF tally, lock
  <2>4. QED
    BY <2>1, <2>2, <2>3 DEF Inv, TypeInv, Account, SameRanks
<1>2. SessionsInv
  BY DEF Inv, TypeInv, SessionsInv
<1>3. SessionsInv'
  <2>1. CASE Revoke(LiveOf(u), 0)
    BY <1>2, <2>1, RevokeKeeps
  <2>2. CASE UNCHANGED <<sess, ended, seen>>
    BY <1>2, <2>2 DEF SessionsInv, SessionsTyped, EndRecordedOnce
  <2>3. QED
    BY <2>1, <2>2 DEF Failed
<1>4. QED
  BY <1>1, <1>3

\* A step of a request that changes nobody's rank.
Aside(r) ==
    /\ SameRanks
    /\ req[r].pc # "changing" /\ req'[r].pc # "changing"
    /\ \A q \in Requests \ {r} : req'[q] = req[q]

LEMMA Unchanged ==
    ASSUME Inv
    PROVE  /\ UNCHANGED op => op' \in [Operators -> Account] /\ SameRanks
           /\ UNCHANGED <<sess, ended>> => SessionsInv'
           /\ UNCHANGED chal => ChallengesTyped'
  BY DEF Inv, TypeInv, SessionsInv, SessionsTyped, EndRecordedOnce, ChallengesTyped, SameRanks

LEMMA Concluded ==
    ASSUME Inv, NEW r \in Requests, NEW w \in Request, Proper(w), w.pc # "changing",
           req[r].pc # "changing", req' = [req EXCEPT ![r] = w],
           op' \in [Operators -> Account], SameRanks, SessionsInv', ChallengesTyped',
           policy' \in Policies
    PROVE  Inv' /\ Aside(r)
<1>1. RequestsTyped'
  BY Stepped DEF Inv, TypeInv
<1>2. QED
  BY <1>1 DEF Inv, TypeInv, SessionsInv, Aside, RequestsTyped

\* A request that writes only where it goes on.
LEMMA OnlyReads ==
    ASSUME Inv, NEW r \in Requests, NEW w \in Request, Proper(w), w.pc # "changing",
           req[r].pc # "changing", req' = [req EXCEPT ![r] = w],
           UNCHANGED <<op, sess, ended, chal, policy>>
    PROVE  Inv' /\ Aside(r)
  BY Unchanged, Concluded DEF Inv, TypeInv

-----------------------------------------------------------------------------
(* Signing in *)

LEMMA SignInStep ==
    ASSUME Inv, NEW r \in Requests, SignIn(r)
    PROVE  Inv' /\ Aside(r)
<1> USE DEF Step
<1>1. /\ op \in [Operators -> Account] /\ RequestsTyped /\ SessionsInv /\ ChallengesTyped
      /\ policy \in Policies /\ req[r] \in Request /\ Proper(req[r])
  BY DEF Inv, TypeInv, SessionsInv, RequestsTyped
<1>2. /\ Idle \in Request /\ Proper(Idle) /\ Idle.pc = "idle"
  BY IdleIsProper DEF Idle
<1>3. ASSUME NEW u \in Operators, Login(r, u) PROVE Inv' /\ Aside(r)
  <2>1. [Idle EXCEPT !.pc = "load", !.who = u] \in Request
    BY <1>2 DEF Request, PCs
  <2>2. Proper([Idle EXCEPT !.pc = "load", !.who = u])
    BY <1>2 DEF Idle, Proper, AllUses, AdminUses
  <2>3. CASE req' = [req EXCEPT ![r] = [Idle EXCEPT !.pc = "load", !.who = u]]
    BY <1>3, <2>1, <2>2, <2>3, OnlyReads DEF Login, Asks, Idle
  <2>4. CASE UNCHANGED req
    BY <1>1, <1>3, <2>4, Unchanged
       DEF Login, Asks, Inv, TypeInv, SessionsInv, RequestsTyped, Aside
  <2>5. QED
    BY <1>3, <2>3, <2>4 DEF Login
<1>4. CASE Load(r)
  <2> DEFINE was == op[req[r].who]
             pc == IF ~ Exists(was) THEN "idle" ELSE IF was.lock = "expired" THEN "clear" ELSE "check"
             w == [At(r, pc) EXCEPT !.was = was]
  <2>1. req[r].who \in Operators /\ was \in Account
    BY <1>1, <1>4 DEF Load, Proper
  <2>2. pc \in {"idle", "clear", "check"} /\ pc \in PCs
    BY DEF PCs
  <2>3. w \in Request /\ w.pc = pc /\ w.who = req[r].who
    BY <1>1, <2>1, <2>2, AtPlace DEF Request
  <2>4. req[r].pc = "load" /\ req' = [req EXCEPT ![r] = w]
    BY <1>4 DEF Load
  <2> HIDE DEF pc, w
  <2>5. Proper(w) /\ w.pc # "changing"
    BY <2>1, <2>2, <2>3 DEF Proper, AllUses, AdminUses
  <2>6. QED
    BY <1>4, <2>3, <2>4, <2>5, OnlyReads DEF Load
<1>5. CASE ClearExpiredLock(r)
  <2> DEFINE w == [At(r, "check") EXCEPT !.was.failed = 0, !.was.lock = "none"]
  <2>1. w \in Request /\ w.pc = "check" /\ w.who = req[r].who
    BY <1>1, ThresholdIsNat, AtPlace DEF Request, PCs, Account, At
  <2>2. req[r].pc = "clear" /\ req' = [req EXCEPT ![r] = w] /\ req[r].who \in Operators
    BY <1>1, <1>5 DEF ClearExpiredLock, Proper
  <2> HIDE DEF w
  <2>3. Proper(w) /\ w.pc # "changing"
    BY <2>1, <2>2 DEF Proper, AllUses, AdminUses
  <2>4. op' \in [Operators -> Account] /\ SameRanks
    BY <1>1, <1>5, <2>2, ClearedType DEF ClearExpiredLock
  <2>5. SessionsInv' /\ ChallengesTyped' /\ policy' \in Policies
    BY <1>1, <1>5, Unchanged DEF ClearExpiredLock
  <2>6. QED
    BY <2>1, <2>2, <2>3, <2>4, <2>5, Concluded
<1>6. CASE WrongPassword(r)
  <2> DEFINE w == At(r, "failing")
  <2>1. "failing" \in PCs
    BY DEF PCs
  <2>2. w \in Request /\ w.pc = "failing" /\ w.who = req[r].who
    BY <1>1, <2>1, AtPlace
  <2>3. req[r].pc = "check" /\ req[r].who \in Operators /\ req' = [req EXCEPT ![r] = w]
    BY <1>1, <1>6 DEF WrongPassword, Proper
  <2> HIDE DEF w
  <2>4. Proper(w) /\ w.pc # "changing"
    BY <2>2, <2>3 DEF Proper, AllUses, AdminUses
  <2>5. QED
    BY <1>6, <2>2, <2>3, <2>4, OnlyReads DEF WrongPassword
<1>7. CASE RightPassword(r)
  <2> DEFINE pc == IF policy.otp THEN "challenge" ELSE "open"
             w == [At(r, pc) EXCEPT !.pol = policy]
  <2>1. pc \in {"challenge", "open"} /\ pc \in PCs
    BY DEF PCs
  <2>2. w \in Request /\ w.pc = pc /\ w.who = req[r].who
    BY <1>1, <2>1, AtPlace DEF Request
  <2>3. /\ req[r].pc = "check" /\ req[r].who \in Operators
        /\ req' = [req EXCEPT ![r] = Idle] \/ req' = [req EXCEPT ![r] = w]
    BY <1>1, <1>7 DEF RightPassword, Proper
  <2> HIDE DEF pc, w
  <2>4. Proper(w) /\ w.pc # "changing"
    BY <2>1, <2>2, <2>3 DEF Proper, AllUses, AdminUses
  <2>5. QED
    BY <1>2, <1>7, <2>2, <2>3, <2>4, OnlyReads DEF RightPassword
<1>8. CASE FailRead(r)
  <2> DEFINE w == [At(r, "fail") EXCEPT !.was = op[req[r].who]]
  <2>1. req[r].pc = "failing" /\ req[r].who \in Operators /\ req' = [req EXCEPT ![r] = w]
    BY <1>1, <1>8 DEF FailRead, Proper
  <2>2. w \in Request /\ w.pc = "fail" /\ w.who = req[r].who
    <3>1. "fail" \in PCs /\ op[req[r].who] \in Account
      BY <1>1, <2>1 DEF PCs
    <3>2. QED
      BY <1>1, <3>1, AtPlace DEF Request
  <2> HIDE DEF w
  <2>3. Proper(w) /\ w.pc # "changing"
    BY <2>1, <2>2 DEF Proper, AllUses, AdminUses
  <2>4. QED
    BY <1>8, <2>1, <2>2, <2>3, OnlyReads DEF FailRead
<1>9. CASE FailWrite(r)
  <2>1. req[r].pc = "fail" /\ req[r].who \in Operators /\ req[r].was \in Account
    BY <1>1, <1>9 DEF FailWrite, Proper, Request
  <2>2. op' \in [Operators -> Account] /\ SameRanks /\ SessionsInv'
    BY <1>9, <2>1, FailedType DEF FailWrite
  <2>3. QED
    BY <1>1, <1>2, <1>9, <2>1, <2>2, Unchanged, Concluded DEF FailWrite
<1>10. CASE OpenRead(r)
  <2>1. req[r].pc = "open" /\ req[r].who \in Operators
    BY <1>1, <1>10 DEF OpenRead, Proper
  <2> DEFINE w == At(r, "opening")
  <2>2. "opening" \in PCs
    BY DEF PCs
  <2>3. w \in Request /\ w.pc = "opening" /\ w.who = req[r].who
    BY <1>1, <2>2, AtPlace
  <2>4. req' = [req EXCEPT ![r] = Idle] \/ req' = [req EXCEPT ![r] = w]
    BY <1>10 DEF OpenRead
  <2> HIDE DEF w
  <2>5. Proper(w) /\ w.pc # "changing"
    BY <2>1, <2>3 DEF Proper, AllUses, AdminUses
  <2>6. QED
    BY <1>2, <1>10, <2>1, <2>3, <2>4, <2>5, OnlyReads DEF OpenRead
<1>11. CASE OpenWrite(r)
  <2>1. req[r].pc = "opening" /\ req[r].who \in Operators
    BY <1>1, <1>11 DEF OpenWrite, Proper
  <2>2. op' \in [Operators -> Account] /\ SameRanks /\ SessionsInv'
    BY <1>1, <1>11, <2>1, ClearedType, OpensKeeps DEF OpenWrite
  <2>3. QED
    BY <1>1, <1>2, <1>11, <2>1, <2>2, Unchanged, Concluded DEF OpenWrite
<1>12. CASE StoreChallenge(r)
  <2>1. PICK k \in Challenges :
          /\ req[r].pc = "challenge"
          /\ req' = [req EXCEPT ![r] = [At(r, "deliver") EXCEPT !.challenge = k]]
          /\ chal' = [chal EXCEPT ![k] = [owner |-> req[r].who, attempts |-> 0, state |-> "open"]]
    BY <1>12 DEF StoreChallenge
  <2> DEFINE w == [At(r, "deliver") EXCEPT !.challenge = k]
  <2>2. req[r].who \in Operators
    BY <1>1, <2>1 DEF Proper
  <2>3. w \in Request /\ w.pc = "deliver" /\ w.who = req[r].who /\ w.challenge = k
    <3>1. "deliver" \in PCs
      BY DEF PCs
    <3>2. QED
      BY <1>1, <3>1, AtPlace DEF Request
  <2>4. ChallengesTyped'
    BY <1>1, <2>1, <2>2 DEF ChallengesTyped, Challenge
  <2>5. req' = [req EXCEPT ![r] = w]
    BY <2>1
  <2> HIDE DEF w
  <2>6. Proper(w) /\ w.pc # "changing"
    BY <2>2, <2>3 DEF Proper, AllUses, AdminUses
  <2>7. QED
    BY <1>1, <1>12, <2>1, <2>3, <2>4, <2>5, <2>6, Unchanged, Concluded DEF StoreChallenge
<1>13. CASE Delivered(r)
  BY <1>1, <1>2, <1>13, OnlyReads DEF Delivered
<1>14. CASE NotDelivered(r)
  <2>1. req[r].pc = "deliver" /\ req[r].challenge \in Challenges /\ req[r].who \in Operators
    BY <1>1, <1>14 DEF NotDelivered, Proper
  <2>2. ChallengesTyped'
    BY <1>1, <1>14, <2>1, ConsumedType DEF NotDelivered
  <2>3. QED
    BY <1>1, <1>2, <1>14, <2>1, <2>2, Unchanged, Concluded DEF NotDelivered
<1>15. ASSUME NEW k \in Challenges, VerifyRead(r, k) PROVE Inv' /\ Aside(r)
  <2> DEFINE u == chal[k].owner
  <2>1. PICK pc \in {"verified", "wrong code"} :
          req' = [req EXCEPT ![r] = [Idle EXCEPT !.pc = pc, !.who = u, !.was = op[u],
                                                 !.pol = policy, !.challenge = k,
                                                 !.tries = chal[k].attempts]]
    BY <1>15 DEF VerifyRead
  <2> DEFINE w == Answering(pc, u, op[u], policy, k, chal[k].attempts)
  <2>2. u \in Operators /\ chal[k].attempts \in Nat /\ op[u] \in Account
    BY <1>1, <1>15 DEF VerifyRead, ChallengesTyped, Challenge
  <2>3. w \in Request /\ w.pc = pc /\ w.who = u /\ w.challenge = k
    <3>1. pc \in PCs
      BY DEF PCs
    <3>2. policy \in Policies /\ k \in Challenges
      BY <1>1
    <3>3. \A n \in Nat : Answering(pc, u, op[u], policy, k, n) \in Request
      BY <2>2, <3>1, <3>2, AnsweredCode
    <3>4. w \in Request
      BY <2>2, <3>3, Zenon
    <3>5. w.pc = pc
      BY DEF Answering, Idle
    <3>6. w.who = u
      BY DEF Answering, Idle
    <3>7. w.challenge = k
      BY DEF Answering, Idle
    <3>8. QED
      BY <3>4, <3>5, <3>6, <3>7
  <2>4. req[r].pc = "idle" /\ req' = [req EXCEPT ![r] = w]
    BY <1>15, <2>1 DEF VerifyRead, Asks, Answering
  <2> HIDE DEF w
  <2>5. Proper(w) /\ w.pc # "changing"
    BY <2>2, <2>3 DEF Proper, AllUses, AdminUses
  <2>6. QED
    BY <1>15, <2>3, <2>4, <2>5, OnlyReads DEF VerifyRead
<1>16. CASE VerifiedWrite(r)
  <2>1. /\ req[r].pc = "verified" /\ req[r].who \in Operators
        /\ req[r].challenge \in Challenges
    BY <1>1, <1>16 DEF VerifiedWrite, Proper
  <2>2. op' \in [Operators -> Account] /\ SameRanks /\ SessionsInv'
    BY <1>1, <1>16, <2>1, ClearedType, OpensKeeps DEF VerifiedWrite
  <2>3. ChallengesTyped'
    BY <1>1, <1>16, <2>1, ConsumedType DEF VerifiedWrite
  <2>4. QED
    BY <1>1, <1>2, <1>16, <2>1, <2>2, <2>3, Concluded DEF VerifiedWrite
<1>17. CASE WrongCodeWrite(r)
  <2>1. /\ req[r].pc = "wrong code" /\ req[r].who \in Operators
        /\ req[r].challenge \in Challenges /\ req[r].tries \in Nat
        /\ op[req[r].who] \in Account
    BY <1>1, <1>17 DEF WrongCodeWrite, Proper, Request
  <2>2. op' \in [Operators -> Account] /\ SameRanks /\ SessionsInv'
    BY <1>17, <2>1, FailedType DEF WrongCodeWrite
  <2> DEFINE k == req[r].challenge
             state == IF req[r].tries + 1 >= Threshold THEN "consumed"
                      ELSE IF chal[k].state = "expired" THEN "expired" ELSE "open"
  <2>3. ChallengesTyped'
    <3>1. state \in {"open", "expired", "consumed"}
      BY Zenon
    <3>2. req[r].tries + 1 \in Nat
      <4>1. \A n \in Nat : n + 1 \in Nat
        OBVIOUS
      <4>2. QED
        BY <2>1, <4>1, Zenon
    <3>3. chal' = [chal EXCEPT ![k] = [chal[k] EXCEPT !.attempts = req[r].tries + 1, !.state = state]]
      BY <1>17 DEF WrongCodeWrite
    <3> HIDE DEF state
    <3>4. QED
      BY <1>1, <2>1, <3>1, <3>2, <3>3 DEF ChallengesTyped, Challenge
  <2>4. QED
    BY <1>1, <1>2, <1>17, <2>1, <2>2, <2>3, Concluded DEF WrongCodeWrite
<1>18. QED
  BY <1>3, <1>4, <1>5, <1>6, <1>7, <1>8, <1>9, <1>10, <1>11, <1>12, <1>13, <1>14, <1>15,
     <1>16, <1>17 DEF SignIn


-----------------------------------------------------------------------------
(* Using a session *)

LEMMA UseSessionStep ==
    ASSUME Inv, NEW r \in Requests, UseSession(r)
    PROVE  Inv' /\ Aside(r)
<1> USE DEF Step
<1>1. /\ op \in [Operators -> Account] /\ RequestsTyped /\ SessionsInv /\ ChallengesTyped
      /\ policy \in Policies /\ req[r] \in Request /\ Proper(req[r])
  BY DEF Inv, TypeInv, SessionsInv, RequestsTyped
<1>2. /\ Idle \in Request /\ Proper(Idle) /\ Idle.pc = "idle"
  BY IdleIsProper DEF Idle
<1>3. AllUses \subseteq PCs /\ Uses \subseteq AllUses /\ "changing" \notin AllUses
  BY AccountsAssumption DEF PCs, AllUses, AdminUses
<1>4. ASSUME NEW s \in Sessions, NEW use \in Uses, EnforceRead(r, s, use)
      PROVE  Inv' /\ Aside(r)
  <2> DEFINE u == sess[s].owner
             pc == IF sess[s].clock = "fine" THEN "touch" ELSE "timeout"
             w == [Idle EXCEPT !.pc = pc, !.who = u, !.was = op[u], !.session = s, !.use = use]
  <2>1. u \in Operators /\ op[u] \in Account
    BY <1>1, <1>4 DEF EnforceRead, IsLive, SessionsInv, SessionsTyped
  <2>2. pc \in {"touch", "timeout"} /\ pc \in PCs /\ use \in AllUses
    BY <1>3 DEF PCs
  <2>3. req[r].pc = "idle" /\ req' = [req EXCEPT ![r] = w]
    BY <1>4 DEF EnforceRead, Asks
  <2> HIDE DEF pc, u
  <2>4. w \in Request /\ w.pc = pc /\ w.who = u /\ w.session = s /\ w.use = use
    BY <1>2, <2>1, <2>2 DEF Request
  <2> HIDE DEF w
  <2>5. Proper(w) /\ w.pc # "changing"
    BY <1>3, <2>1, <2>2, <2>4 DEF Proper, AllUses, AdminUses
  <2>6. QED
    BY <1>4, <2>3, <2>4, <2>5, OnlyReads DEF EnforceRead
<1>5. CASE TimeoutWrite(r)
  <2>1. SessionsInv'
    BY <1>1, <1>5, RevokeKeeps DEF TimeoutWrite
  <2>2. QED
    BY <1>1, <1>2, <1>5, <2>1, Unchanged, Concluded DEF TimeoutWrite
<1>6. CASE TouchWrite(r)
  <2> DEFINE use == req[r].use
             w == IF use = "call" THEN Idle ELSE At(r, use)
  <2>1. /\ req[r].pc = "touch" /\ req[r].who \in Operators /\ use \in AllUses
        /\ req[r].session \in Sessions
    BY <1>1, <1>6 DEF TouchWrite, Proper
  <2>2. req' = [req EXCEPT ![r] = w]
    BY <1>6 DEF TouchWrite
  <2>3. w \in Request /\ Proper(w) /\ w.pc # "changing"
    <3>1. CASE use = "call"
      BY <1>2, <3>1
    <3>2. CASE use # "call"
      <4> DEFINE v == At(r, use)
      <4>1. v \in Request /\ v.pc = use /\ v.who = req[r].who /\ v.use = use
        BY <1>1, <1>3, <2>1, AtPlace
      <4> HIDE DEF v
      <4>2. Proper(v) /\ v.pc # "changing"
        BY <1>3, <2>1, <4>1 DEF Proper, AllUses, AdminUses
      <4>3. QED
        BY <3>2, <4>1, <4>2 DEF v
    <3>3. QED
      BY <3>1, <3>2
  <2>4. SessionsInv'
    <3>1. CASE UNCHANGED <<seen, sess>>
      BY <1>1, <1>6, <3>1, Unchanged DEF TouchWrite
    <3>2. CASE /\ IsLive(req[r].session)
               /\ sess' = [sess EXCEPT ![req[r].session] = [sess[req[r].session] EXCEPT
                             !.clock = IF sess[req[r].session].clock = "idle" THEN "fine"
                                       ELSE sess[req[r].session].clock]]
      BY <1>1, <1>6, <2>1, <3>2
         DEF TouchWrite, SessionsInv, SessionsTyped, Session, EndRecordedOnce
    <3>3. QED
      BY <1>6, <3>1, <3>2 DEF TouchWrite, Touched
  <2> HIDE DEF w
  <2>5. QED
    BY <1>1, <1>6, <2>1, <2>2, <2>3, <2>4, Unchanged, Concluded DEF TouchWrite
<1>7. CASE Logout(r)
  <2>1. SessionsInv'
    BY <1>1, <1>7, RevokeKeeps DEF Logout
  <2>2. QED
    BY <1>1, <1>2, <1>7, <2>1, Unchanged, Concluded DEF Logout
<1>8. CASE ChangePassword(r)
  <2> DEFINE w == At(r, "failing")
  <2>1. /\ req[r].pc = "password" /\ req[r].who \in Operators
        /\ \/ req' = [req EXCEPT ![r] = Idle] /\ Recounted(req[r].who)
           \/ req' = [req EXCEPT ![r] = w] /\ UNCHANGED op
    BY <1>1, <1>8 DEF ChangePassword, Proper
  <2>2. "failing" \in PCs
    BY DEF PCs
  <2>3. w \in Request /\ w.pc = "failing" /\ w.who = req[r].who
    BY <1>1, <2>2, AtPlace
  <2> HIDE DEF w
  <2>4. Proper(w) /\ w.pc # "changing"
    BY <2>1, <2>3 DEF Proper, AllUses, AdminUses
  <2>5. op' \in [Operators -> Account] /\ SameRanks
    BY <1>1, <2>1, ThresholdIsNat DEF Recounted, SameRanks, Account
  <2>6. SessionsInv' /\ ChallengesTyped' /\ policy' \in Policies
    BY <1>1, <1>8, Unchanged DEF ChangePassword
  <2>7. QED
    BY <1>2, <2>1, <2>3, <2>4, <2>5, <2>6, Concluded
<1>9. QED
  BY <1>4, <1>5, <1>6, <1>7, <1>8 DEF UseSession


-----------------------------------------------------------------------------
(* Administration, and the clock *)

LEMMA Written ==
    ASSUME Inv, NEW r \in Requests, NEW w \in Request, Proper(w), req' = [req EXCEPT ![r] = w],
           op' \in [Operators -> Account], SessionsInv', ChallengesTyped', policy' \in Policies
    PROVE  Inv'
<1>1. RequestsTyped'
  BY Stepped DEF Inv, TypeInv
<1>2. QED
  BY <1>1 DEF Inv, TypeInv, SessionsInv

LEMMA AlteredType ==
    ASSUME op \in [Operators -> Account], NEW t, NEW account \in Account, Altered(t, account)
    PROVE  op' \in [Operators -> Account]
  BY DEF Altered

\* An administrator's change, of whatever kind, is done when it is written.
LEMMA AdministerStep ==
    ASSUME Inv, NEW r \in Requests, Administer(r)
    PROVE  Inv'
<1> USE DEF Step, Changing
<1>1. /\ op \in [Operators -> Account] /\ RequestsTyped /\ SessionsInv /\ ChallengesTyped
      /\ policy \in Policies /\ req[r] \in Request /\ Proper(req[r])
  BY DEF Inv, TypeInv, SessionsInv, RequestsTyped
<1>2. Idle \in Request /\ Proper(Idle) /\ Idle.pc = "idle"
  BY IdleIsProper DEF Idle
<1>3. req[r].pc = "changing" => req[r].target \in Operators /\ op[req[r].target] \in Account
  BY <1>1 DEF Proper
<1>4. ASSUME NEW t \in Operators, NEW want \in Roles, AdminRead(r, t, want) PROVE Inv'
  <2> DEFINE w == [req[r] EXCEPT !.pc = "changing", !.target = t, !.want = want]
  <2>1. req' = [req EXCEPT ![r] = w] /\ req[r].pc \in AdminUses
    BY <1>4 DEF AdminRead
  <2>2. req[r].use \in AdminUses /\ req[r].who \in Operators
    BY <1>1, <2>1 DEF Proper, AllUses, AdminUses
  <2>3. /\ w \in Request /\ w.pc = "changing" /\ w.target = t /\ w.want = want
        /\ w.who = req[r].who /\ w.use = req[r].use
    <3>1. "changing" \in PCs /\ want \in Roles \cup {"none"}
      BY DEF PCs
    <3>2. QED
      BY <1>1, <3>1 DEF Request
  <2> HIDE DEF w
  <2>4. Proper(w)
    BY <2>2, <2>3 DEF Proper, AllUses, AdminUses
  <2>5. op' \in [Operators -> Account] /\ SessionsInv' /\ ChallengesTyped' /\ policy' \in Policies
    BY <1>1, <1>4, Unchanged DEF AdminRead
  <2>6. QED
    BY <2>1, <2>3, <2>4, <2>5, Written
<1>5. CASE AdminRefused(r)
  BY <1>1, <1>2, <1>5, Unchanged, Written DEF AdminRefused
<1>6. CASE ChangeRole(r)
  <2>1. [op[req[r].target] EXCEPT !.role = req[r].want] \in Account
    BY <1>1, <1>3, <1>6 DEF ChangeRole, Account, Proper
  <2>2. QED
    BY <1>1, <1>2, <1>6, <2>1, AlteredType, Unchanged, Written DEF ChangeRole
<1>7. CASE Disable(r)
  <2>1. [op[req[r].target] EXCEPT !.disabled = TRUE] \in Account
    BY <1>3, <1>7 DEF Disable, Account
  <2>2. SessionsInv'
    BY <1>1, <1>7, RevokeKeeps DEF Disable
  <2>3. QED
    BY <1>1, <1>2, <1>7, <2>1, <2>2, AlteredType, Unchanged, Written DEF Disable
<1>8. CASE Enable(r)
  <2>1. [op[req[r].target] EXCEPT !.disabled = FALSE] \in Account
    BY <1>3, <1>8 DEF Enable, Account
  <2>2. QED
    BY <1>1, <1>2, <1>8, <2>1, AlteredType, Unchanged, Written DEF Enable
<1>9. CASE Unlock(r)
  BY <1>1, <1>2, <1>3, <1>9, ClearedType, Unchanged, Written DEF Unlock
<1>10. CASE ResetPassword(r)
  <2>1. SessionsInv'
    BY <1>1, <1>10, RevokeKeeps DEF ResetPassword
  <2>2. QED
    BY <1>1, <1>2, <1>3, <1>10, <2>1, ClearedType, Unchanged, Written DEF ResetPassword
<1>11. CASE CreateUser(r)
  <2>1. Fresh(req[r].want) \in Account
    BY <1>1, <1>11, ThresholdIsNat DEF CreateUser, Fresh, Account, Proper
  <2>2. op' \in [Operators -> Account]
    BY <1>1, <1>3, <1>11, <2>1, AlteredType DEF CreateUser
  <2>3. QED
    BY <1>1, <1>2, <1>11, <2>2, Unchanged, Written DEF CreateUser
<1>12. CASE UpdatePolicy(r)
  BY <1>1, <1>2, <1>12, Unchanged, Written DEF UpdatePolicy
<1>13. QED
  BY <1>4, <1>5, <1>6, <1>7, <1>8, <1>9, <1>10, <1>11, <1>12 DEF Administer

LEMMA ClockStep ==
    ASSUME Inv, Clock
    PROVE  Inv' /\ SameRanks /\ UNCHANGED req
<1>1. /\ op \in [Operators -> Account] /\ RequestsTyped /\ SessionsInv /\ ChallengesTyped
      /\ policy \in Policies
  BY DEF Inv, TypeInv, SessionsInv
<1>2. UNCHANGED <<ended, req, policy>>
  BY DEF Clock, TimedOut, LockRunsOut, CodeRunsOut
<1>3. RequestsTyped'
  BY <1>1, <1>2 DEF RequestsTyped
<1>4. ASSUME NEW s \in Sessions, NEW clock \in {"idle", "over"}, TimedOut(s, clock)
      PROVE  SessionsInv' /\ UNCHANGED <<op, chal>>
  BY <1>1, <1>4 DEF TimedOut, SessionsInv, SessionsTyped, Session, EndRecordedOnce
<1>5. ASSUME NEW u \in Operators, LockRunsOut(u)
      PROVE  op' \in [Operators -> Account] /\ SameRanks /\ UNCHANGED <<sess, chal>>
  BY <1>1, <1>5 DEF LockRunsOut, Account, SameRanks
<1>6. ASSUME NEW k \in Challenges, CodeRunsOut(k)
      PROVE  ChallengesTyped' /\ UNCHANGED <<op, sess>>
  BY <1>1, <1>6 DEF CodeRunsOut, ChallengesTyped, Challenge
<1>7. op' \in [Operators -> Account] /\ SameRanks /\ SessionsInv' /\ ChallengesTyped'
  BY <1>2, <1>4, <1>5, <1>6, Unchanged DEF Clock
<1>8. QED
  BY <1>1, <1>2, <1>3, <1>7 DEF Inv, TypeInv, SessionsInv

-----------------------------------------------------------------------------
(* The end of a session is recorded once *)

LEMMA InvStep ==
    ASSUME Inv, [Next]_vars
    PROVE  Inv'
<1>1. CASE UNCHANGED vars
  BY <1>1 DEF vars, Inv, TypeInv, SessionsTyped, ChallengesTyped, RequestsTyped, EndRecordedOnce
<1>2. ASSUME NEW c \in Captchas, IssueCaptcha(c) PROVE Inv'
  BY <1>2 DEF IssueCaptcha, Inv, TypeInv, SessionsTyped, ChallengesTyped, RequestsTyped,
              EndRecordedOnce
<1>3. CASE Next
  BY <1>2, <1>3, SignInStep, UseSessionStep, AdministerStep, ClockStep DEF Next
<1>4. QED
  BY <1>1, <1>3

THEOREM Invariance == Spec => []Inv
<1>1. Init => Inv
  BY TypeInit DEF Inv, EndRecordedOnce, Init
<1>2. QED
  BY <1>1, InvStep, PTL DEF Spec

\* Whoever times a session out, logs it out or makes room at the same time, its
\* end is recorded at most once, and only if it has ended (_revoke_session).
THEOREM EndsRecordedOnce == Spec => []EndRecordedOnce
<1>1. Inv => EndRecordedOnce
  BY DEF Inv
<1>2. QED
  BY <1>1, Invariance, PTL


-----------------------------------------------------------------------------
(* An administrator remains *)

\* What takes an administrator away, and what the guard found of it.
Withdraws(w) == w.use = "disable" \/ (w.use = "role" /\ w.want # "admin")
Guarded ==
    /\ \A p, q \in Administering : p = q
    /\ \A r \in Administering : Withdraws(req[r]) => OthersRemain(req[r].target)
RanksInv == Inv /\ AdminRemains /\ Guarded

LEMMA AsideKeepsRanks ==
    ASSUME RanksInv, NEW r \in Requests, Aside(r)
    PROVE  (AdminRemains /\ Guarded)'
<1>1. Admins' = Admins
  BY DEF Aside, SameRanks, Admins
<1>2. Administering' = Administering /\ \A q \in Administering : req'[q] = req[q]
  BY DEF Aside, Administering
<1>3. QED
  BY <1>1, <1>2 DEF RanksInv, AdminRemains, Guarded, OthersRemain, Withdraws

\* A change to one account leaves every other administrator one.
LEMMA OthersStay ==
    ASSUME RanksInv, NEW r \in Requests, req[r].pc = "changing", req' = [req EXCEPT ![r] = Idle],
           NEW t, \A u \in Operators \ {t} : op'[u] = op[u],
           \/ t \in Admins => t \in Admins' /\ t \in Operators
           \/ OthersRemain(t)
    PROVE  (AdminRemains /\ Guarded)'
<1>1. Admins \ {t} \subseteq Admins'
  BY DEF Admins
<1>2. AdminRemains'
  BY <1>1 DEF RanksInv, AdminRemains, OthersRemain
<1>3. Administering' = {}
  BY IdleIsProper DEF RanksInv, Guarded, Administering, Inv, TypeInv, RequestsTyped, Idle
<1>4. QED
  BY <1>2, <1>3 DEF Guarded

LEMMA AdministerKeepsRanks ==
    ASSUME ~ AdminsOverlap, RanksInv, NEW r \in Requests, Administer(r)
    PROVE  (AdminRemains /\ Guarded)'
<1> USE DEF Step, Changing
<1>1. op \in [Operators -> Account] /\ req \in [Requests -> Request] /\ Proper(req[r])
  BY DEF RanksInv, Inv, TypeInv, RequestsTyped
<1>2. req[r].pc = "changing" => req[r].target \in Operators /\ r \in Administering
  BY <1>1 DEF Proper, Administering
<1>3. ASSUME NEW t \in Operators, NEW want \in Roles, AdminRead(r, t, want)
      PROVE  (AdminRemains /\ Guarded)'
  <2> DEFINE w == [req[r] EXCEPT !.pc = "changing", !.target = t, !.want = want]
  <2>1. /\ req' = [req EXCEPT ![r] = w] /\ UNCHANGED op /\ Administering = {}
        /\ MayChange(req[r].use, t, want)
    BY <1>3 DEF AdminRead
  <2>2. w.target = t /\ w.want = want /\ w.use = req[r].use
    BY <1>1 DEF Request
  <2> HIDE DEF w
  <2>3. Withdraws(w) => OthersRemain(t)
    BY <2>1, <2>2 DEF Withdraws, MayChange
  <2>4. \A q \in Administering' : q = r /\ req'[q] = w
    BY <1>1, <2>1 DEF Administering
  <2>5. Admins' = Admins
    BY <2>1 DEF Admins
  <2>6. QED
    BY <2>2, <2>3, <2>4, <2>5 DEF RanksInv, AdminRemains, Guarded, OthersRemain, Withdraws
<1>4. CASE AdminRefused(r)
  <2>1. Idle.pc = "idle" /\ "changing" \notin AdminUses
    BY DEF Idle, AdminUses
  <2>2. Aside(r)
    BY <1>1, <1>4, <2>1 DEF AdminRefused, Aside, SameRanks
  <2>3. QED
    BY <2>2, AsideKeepsRanks
<1>5. CASE ChangeRole(r)
  <2> DEFINE t == req[r].target
  <2>1. /\ t \in Operators /\ r \in Administering /\ req[r].use = "role"
        /\ op' = [op EXCEPT ![t] = [op[t] EXCEPT !.role = req[r].want]]
    BY <1>2, <1>5 DEF ChangeRole, Altered
  <2>2. CASE req[r].want = "admin"
    <3>1. t \in Admins => t \in Admins'
      BY <1>1, <2>1, <2>2 DEF Admins, Account
    <3>2. QED
      BY <1>1, <1>5, <2>1, <3>1, OthersStay DEF ChangeRole
  <2>3. CASE req[r].want # "admin"
    <3>1. OthersRemain(t)
      BY <2>1, <2>3 DEF RanksInv, Guarded, Withdraws
    <3>2. QED
      BY <1>1, <1>5, <2>1, <3>1, OthersStay DEF ChangeRole
  <2>4. QED
    BY <2>2, <2>3
<1>6. CASE Disable(r)
  <2>1. OthersRemain(req[r].target)
    BY <1>2, <1>6 DEF Disable, RanksInv, Guarded, Withdraws
  <2>2. QED
    BY <1>1, <1>6, <2>1, OthersStay DEF Disable, Altered
<1>7. CASE Enable(r)
  <2> DEFINE t == req[r].target
  <2>1. /\ t \in Operators /\ req[r].pc = "changing" /\ req' = [req EXCEPT ![r] = Idle]
        /\ op' = [op EXCEPT ![t] = [op[t] EXCEPT !.disabled = FALSE]]
    BY <1>2, <1>7 DEF Enable, Altered
  <2>2. t \in Admins => t \in Admins'
    BY <1>1, <2>1 DEF Admins, Account
  <2>3. QED
    BY <1>1, <2>1, <2>2, OthersStay
<1>8. ASSUME Unlock(r) \/ ResetPassword(r)
      PROVE  (AdminRemains /\ Guarded)'
  <2> DEFINE t == req[r].target
  <2>1. /\ t \in Operators /\ req[r].pc = "changing" /\ req' = [req EXCEPT ![r] = Idle]
        /\ op' = [op EXCEPT ![t] = [op[t] EXCEPT !.failed = 0, !.lock = "none"]]
    BY <1>2, <1>8 DEF Unlock, ResetPassword, Cleared
  <2>2. t \in Admins => t \in Admins'
    BY <1>1, <2>1 DEF Admins, Account
  <2>3. QED
    BY <1>1, <2>1, <2>2, OthersStay
<1>9. CASE CreateUser(r)
  <2> DEFINE t == req[r].target
  <2>1. /\ t \in Operators /\ req[r].pc = "changing" /\ req' = [req EXCEPT ![r] = Idle]
        /\ op' = [op EXCEPT ![t] = IF Exists(op[t]) THEN op[t] ELSE Fresh(req[r].want)]
    BY <1>2, <1>9 DEF CreateUser, Altered
  <2>2. t \in Admins => t \in Admins'
    BY <1>1, <2>1 DEF Admins, Exists
  <2>3. QED
    BY <1>1, <2>1, <2>2, OthersStay
<1>10. CASE UpdatePolicy(r)
  <2>1. Admins' = Admins
    BY <1>10 DEF UpdatePolicy, Admins
  <2>2. QED
    BY <1>1, <1>10, <2>1, OthersStay DEF UpdatePolicy, Admins
<1>11. QED
  BY <1>3, <1>4, <1>5, <1>6, <1>7, <1>8, <1>9, <1>10 DEF Administer

LEMMA RanksStep ==
    ASSUME ~ AdminsOverlap, RanksInv, [Next]_vars
    PROVE  RanksInv'
<1>1. Inv'
  BY InvStep DEF RanksInv
<1>2. CASE UNCHANGED <<op, req>>
  BY <1>1, <1>2 DEF RanksInv, AdminRemains, Guarded, Administering, Admins, OthersRemain,
                    Withdraws
<1>3. ASSUME NEW r \in Requests, SignIn(r) \/ UseSession(r) PROVE RanksInv'
  <2>1. Aside(r)
    BY <1>3, SignInStep, UseSessionStep DEF RanksInv
  <2>2. QED
    BY <1>1, <2>1, AsideKeepsRanks DEF RanksInv
<1>4. ASSUME NEW r \in Requests, Administer(r) PROVE RanksInv'
  BY <1>1, <1>4, AdministerKeepsRanks DEF RanksInv
<1>5. CASE Clock
  <2>1. SameRanks /\ UNCHANGED req
    BY <1>5, ClockStep DEF RanksInv
  <2>2. Admins' = Admins
    BY <2>1 DEF SameRanks, Admins
  <2>3. QED
    BY <1>1, <2>1, <2>2 DEF RanksInv, AdminRemains, Guarded, Administering, OthersRemain,
                            Withdraws
<1>6. QED
  BY <1>2, <1>3, <1>4, <1>5 DEF Next, IssueCaptcha, vars

\* As long as the requests of administrators do not overlap, no number of them
\* demotes or disables the last one (_guard_last_admin).
THEOREM AdminsRemain == ASSUME ~ AdminsOverlap PROVE Spec => []AdminRemains
<1>1. Init => RanksInv
  <2>1. SUFFICES ASSUME Init PROVE AdminRemains /\ Guarded
    BY TypeInit DEF RanksInv, Inv, EndRecordedOnce, Init
  <2>2. PICK u \in Operators : FirstAccounts[u] = "admin"
    BY AccountsAssumption
  <2>3. op[u].role = "admin" /\ ~ op[u].disabled
    BY <2>1, <2>2 DEF Init, Fresh
  <2>4. AdminRemains
    BY <2>3 DEF AdminRemains, Admins
  <2>5. Administering = {}
    BY <2>1 DEF Init, Administering, Idle
  <2>6. QED
    BY <2>4, <2>5 DEF Guarded
<1>2. RanksInv /\ [Next]_vars => RanksInv'
  BY RanksStep
<1>3. RanksInv => AdminRemains
  BY DEF RanksInv
<1>4. QED
  BY <1>1, <1>2, <1>3, PTL DEF Spec

-----------------------------------------------------------------------------
(* The order in which sessions were seen *)

OrderInv == Ordered(seen, Live)

LEMMA WithoutOrders ==
    ASSUME NEW order, NEW L, NEW S, Ordered(order, L)
    PROVE  Ordered(Without(order, S), L \ S)
<1> DEFINE rest == Without(order, S)
<1>1. \A s, t \in L \ S : <<s, t>> \in rest <=> <<s, t>> \in order
  BY DEF Without
<1>2. rest \subseteq (L \ S) \X (L \ S)
  BY DEF Without, Ordered
<1> HIDE DEF rest
<1>3. \A s, t, v \in L \ S :
        <<s, t>> \in rest /\ <<t, v>> \in rest => <<s, v>> \in rest
  BY <1>1 DEF Ordered
<1>4. \A s, t \in L \ S :
        <<s, s>> \notin rest /\ (s # t => <<s, t>> \in rest \/ <<t, s>> \in rest)
  BY <1>1 DEF Ordered
<1>5. QED
  BY <1>2, <1>3, <1>4 DEF Ordered, rest

LEMMA SeenLastOrders ==
    ASSUME NEW order, NEW L, NEW s, s \notin L, Ordered(order, L)
    PROVE  Ordered(SeenLast(order, s, L), L \cup {s})
<1> DEFINE longer == SeenLast(order, s, L)
<1>1. longer \subseteq (L \cup {s}) \X (L \cup {s})
  BY DEF SeenLast, Ordered
<1>2. \A t, v \in L : <<t, v>> \in longer <=> <<t, v>> \in order
  BY DEF SeenLast
<1>3. \A t \in L : <<t, s>> \in longer
  BY DEF SeenLast
<1>4. \A v \in L \cup {s} : <<s, v>> \notin longer
  BY DEF SeenLast, Ordered
<1> HIDE DEF longer
<1>5. \A t, v \in L \cup {s} :
        <<t, t>> \notin longer /\ (t # v => <<t, v>> \in longer \/ <<v, t>> \in longer)
  BY <1>2, <1>3, <1>4 DEF Ordered
<1>6. \A t, v, w \in L \cup {s} :
        <<t, v>> \in longer /\ <<v, w>> \in longer => <<t, w>> \in longer
  BY <1>2, <1>3, <1>4 DEF Ordered
<1>7. QED
  BY <1>1, <1>5, <1>6 DEF Ordered, longer

LEMMA RevokeOrders ==
    ASSUME SessionsInv, OrderInv, NEW S, NEW rows, Revoke(S, rows)
    PROVE  OrderInv'
<1> DEFINE gone == Revoked(S)
<1>1. Live' = Live \ gone
  BY DEF Revoke, Live, IsLive, SessionsInv, SessionsTyped, Session
<1>2. seen' = Without(seen, gone)
  BY DEF Revoke
<1> HIDE DEF gone
<1>3. QED
  BY <1>1, <1>2, WithoutOrders DEF OrderInv

LEMMA FailedOrders ==
    ASSUME SessionsInv, OrderInv, NEW u, NEW was, Failed(u, was)
    PROVE  OrderInv'
<1>1. CASE Revoke(LiveOf(u), 0)
  BY <1>1, RevokeOrders
<1>2. CASE UNCHANGED <<sess, seen>>
  BY <1>2 DEF OrderInv, Live, IsLive
<1>3. QED
  BY <1>1, <1>2 DEF Failed

\* The sessions a sign-in ends, and those of the operator it keeps.
Ends(u, pol) == Revoked(Overflow(u, pol) \cup {s \in LiveOf(u) : sess[s].clock # "fine"})
Keeps(u, pol) == Timely(u) \ Overflow(u, pol)
LEMMA OpensTo ==
    ASSUME SessionsInv, NEW u \in Operators, NEW pol, Opens(u, pol)
    PROVE  \E new \in Sessions :
             /\ new \notin Live
             /\ Live' = (Live \ Ends(u, pol)) \cup {new}
             /\ seen' = SeenLast(Without(seen, Ends(u, pol)), new, Live \ Ends(u, pol))
             /\ \A s \in Sessions \ {new} : sess'[s].owner = sess[s].owner
<1> DEFINE gone == Ends(u, pol)
<1>1. PICK new \in Sessions :
        /\ Smallest(new, Unused(Sessions, sess))
        /\ sess' = [s \in Sessions |->
                      IF s = new THEN [owner |-> u, state |-> "live", clock |-> "fine"]
                      ELSE IF s \in gone THEN [sess[s] EXCEPT !.state = "revoked"] ELSE sess[s]]
        /\ seen' = SeenLast(Without(seen, gone), new, Live \ gone)
  BY DEF Opens, Ends
<1> HIDE DEF gone
<1>2. new \notin Live
  BY <1>1 DEF Smallest, Unused, Live, IsLive
<1>3. Live' = (Live \ gone) \cup {new}
  BY <1>1 DEF Live, IsLive, SessionsInv, SessionsTyped, Session
<1>4. \A s \in Sessions \ {new} : sess'[s].owner = sess[s].owner
  BY <1>1 DEF SessionsInv, SessionsTyped, Session
<1>5. QED
  BY <1>1, <1>2, <1>3, <1>4 DEF gone

LEMMA OpensOrders ==
    ASSUME SessionsInv, OrderInv, NEW u \in Operators, NEW pol, Opens(u, pol)
    PROVE  OrderInv'
<1> DEFINE gone == Ends(u, pol)
<1>1. PICK new \in Sessions :
        /\ new \notin Live
        /\ Live' = (Live \ gone) \cup {new}
        /\ seen' = SeenLast(Without(seen, gone), new, Live \ gone)
  BY OpensTo
<1> HIDE DEF gone
<1>2. Ordered(Without(seen, gone), Live \ gone)
  BY WithoutOrders DEF OrderInv
<1>3. Ordered(SeenLast(Without(seen, gone), new, Live \ gone), (Live \ gone) \cup {new})
  BY <1>1, <1>2, SeenLastOrders
<1>4. QED
  BY <1>1, <1>3 DEF OrderInv

LEMMA TouchedOrders ==
    ASSUME SessionsInv, OrderInv, NEW s \in Sessions, Touched(s)
    PROVE  OrderInv'
<1>1. CASE ~ IsLive(s)
  BY <1>1 DEF Touched, OrderInv, Live, IsLive
<1>2. CASE IsLive(s)
  <2>1. Live' = Live /\ s \in Live
    BY <1>2 DEF Touched, Live, IsLive, SessionsInv, SessionsTyped, Session
  <2>2. seen' = SeenLast(Without(seen, {s}), s, Live \ {s})
    BY <1>2 DEF Touched
  <2>3. Ordered(Without(seen, {s}), Live \ {s})
    BY WithoutOrders DEF OrderInv
  <2>4. Ordered(SeenLast(Without(seen, {s}), s, Live \ {s}), (Live \ {s}) \cup {s})
    BY <2>3, SeenLastOrders
  <2>5. (Live \ {s}) \cup {s} = Live
    BY <2>1
  <2>6. QED
    BY <2>1, <2>2, <2>4, <2>5 DEF OrderInv
<1>3. QED
  BY <1>1, <1>2

CapInv == Inv /\ OrderInv
LEMMA SeenUnchanged ==
    ASSUME OrderInv, UNCHANGED <<sess, seen>>
    PROVE  OrderInv'
  BY DEF OrderInv, Live, IsLive

LEMMA OrderStep ==
    ASSUME CapInv, [Next]_vars
    PROVE  OrderInv'
<1>1. SessionsInv /\ OrderInv /\ \A r \in Requests : Proper(req[r])
  BY DEF CapInv, Inv, TypeInv, SessionsInv, RequestsTyped
<1>2. ASSUME NEW r \in Requests, SignIn(r) PROVE OrderInv'
  <2>1. CASE FailWrite(r)
    BY <1>1, <2>1, FailedOrders DEF FailWrite
  <2>2. CASE WrongCodeWrite(r)
    BY <1>1, <2>2, FailedOrders DEF WrongCodeWrite
  <2>3. CASE OpenWrite(r) \/ VerifiedWrite(r)
    <3>1. req[r].pc \in {"opening", "verified"} /\ Opens(req[r].who, req[r].pol)
      BY <2>3 DEF OpenWrite, VerifiedWrite, Step
    <3>2. req[r].who \in Operators
      BY <1>1, <3>1 DEF Proper
    <3>3. QED
      BY <1>1, <3>1, <3>2, OpensOrders
  <2>4. CASE UNCHANGED <<sess, seen>>
    BY <1>1, <2>4, SeenUnchanged
  <2>5. QED
    BY <1>2, <2>1, <2>2, <2>3, <2>4
       DEF SignIn, Login, Load, ClearExpiredLock, WrongPassword, RightPassword, FailRead,
           OpenRead, StoreChallenge, Delivered, NotDelivered, VerifyRead
<1>3. ASSUME NEW r \in Requests, UseSession(r) PROVE OrderInv'
  <2>1. CASE TimeoutWrite(r) \/ Logout(r)
    BY <1>1, <2>1, RevokeOrders DEF TimeoutWrite, Logout
  <2>2. CASE TouchWrite(r)
    <3>1. req[r].session \in Sessions /\ Touched(req[r].session)
      BY <1>1, <2>2 DEF TouchWrite, Step, Proper
    <3>2. QED
      BY <1>1, <3>1, TouchedOrders
  <2>3. CASE UNCHANGED <<sess, seen>>
    BY <1>1, <2>3, SeenUnchanged
  <2>4. QED
    BY <1>3, <2>1, <2>2, <2>3 DEF UseSession, EnforceRead, ChangePassword
<1>4. ASSUME NEW r \in Requests, Administer(r) PROVE OrderInv'
  <2>1. CASE Disable(r) \/ ResetPassword(r)
    BY <1>1, <2>1, RevokeOrders DEF Disable, ResetPassword
  <2>2. CASE UNCHANGED <<sess, seen>>
    BY <1>1, <2>2, SeenUnchanged
  <2>3. QED
    BY <1>4, <2>1, <2>2
       DEF Administer, AdminRead, AdminRefused, ChangeRole, Enable, Unlock, CreateUser,
           UpdatePolicy
<1>5. ASSUME NEW s \in Sessions, NEW clock, TimedOut(s, clock) PROVE OrderInv'
  <2>1. Live' = Live /\ seen' = seen
    BY <1>1, <1>5 DEF TimedOut, Live, IsLive, SessionsInv, SessionsTyped, Session
  <2>2. QED
    BY <1>1, <2>1 DEF OrderInv
<1>6. CASE UNCHANGED <<sess, seen>>
  BY <1>1, <1>6, SeenUnchanged
<1>7. QED
  BY <1>2, <1>3, <1>4, <1>5, <1>6
     DEF Next, IssueCaptcha, Clock, LockRunsOut, CodeRunsOut, vars

THEOREM OrderInvariance == Spec => []CapInv
<1>1. Init => CapInv
  BY TypeInit DEF CapInv, Inv, EndRecordedOnce, Init, OrderInv, Ordered, Live, IsLive
<1>2. CapInv /\ [Next]_vars => CapInv'
  BY InvStep, OrderStep DEF CapInv
<1>3. QED
  BY <1>1, <1>2, PTL DEF Spec

-----------------------------------------------------------------------------
(* The cap on sessions *)

\* The sessions of a set that were seen since s, and that there are more of
\* them the earlier s was seen.
LEMMA SeenSinceFewer ==
    ASSUME OrderInv, NEW S, S \subseteq Live, IsFiniteSet(S), NEW s \in S, NEW t \in S,
           <<s, t>> \in seen
    PROVE  Cardinality(SeenSince(t, S)) < Cardinality(SeenSince(s, S))
<1> DEFINE early == SeenSince(s, S)
           late == SeenSince(t, S)
<1>1. early \subseteq S /\ late \subseteq early /\ t \in early /\ t \notin late
  BY DEF SeenSince, OrderInv, Ordered
<1> HIDE DEF early, late
<1>2. IsFiniteSet(early)
  BY <1>1, FS_Subset
<1>3. late \subseteq early \ {t}
  BY <1>1
<1>4. IsFiniteSet(early \ {t}) /\ Cardinality(early \ {t}) = Cardinality(early) - 1
  BY <1>1, <1>2, FS_RemoveElement
<1>5. Cardinality(late) <= Cardinality(early \ {t})
  BY <1>3, <1>4, FS_Subset
<1>6. Cardinality(early) \in Nat /\ Cardinality(late) \in Nat
  BY <1>1, <1>2, FS_Subset, FS_CardinalityType
<1>7. QED
  BY <1>4, <1>5, <1>6 DEF early, late

LEMMA TimelyIsFinite ==
    ASSUME NEW u
    PROVE  /\ Timely(u) \subseteq Live /\ IsFiniteSet(Timely(u))
           /\ \A s \in Timely(u) : Cardinality(SeenSince(s, Timely(u))) \in Nat
<1>1. Timely(u) \subseteq Live /\ Timely(u) \subseteq Sessions
  BY DEF Timely, LiveOf, Live
<1>2. IsFiniteSet(Timely(u))
  BY <1>1, AccountsAssumption, FS_Subset
<1>3. \A s \in Timely(u) : SeenSince(s, Timely(u)) \subseteq Timely(u)
  BY DEF SeenSince
<1>4. QED
  BY <1>1, <1>2, <1>3, FS_Subset, FS_CardinalityType

\* Whatever is kept was seen later than whatever goes for want of room.
LEMMA KeepsTheLatest ==
    ASSUME OrderInv, NEW u, NEW pol, pol.cap \in Nat \ {0},
           NEW s \in Overflow(u, pol), NEW t \in Keeps(u, pol)
    PROVE  <<s, t>> \in seen
<1> DEFINE mine == Timely(u)
<1>1. /\ s \in mine /\ t \in mine /\ mine \subseteq Live /\ IsFiniteSet(mine)
      /\ Cardinality(SeenSince(s, mine)) \in Nat /\ Cardinality(SeenSince(t, mine)) \in Nat
  BY TimelyIsFinite DEF Overflow, Keeps
<1>2. /\ Cardinality(SeenSince(s, mine)) >= pol.cap - 1
      /\ ~ (Cardinality(SeenSince(t, mine)) >= pol.cap - 1)
  BY DEF Overflow, Keeps
<1> HIDE DEF mine
<1>3. s # t
  BY <1>2
<1>4. CASE <<t, s>> \in seen
  <2>1. Cardinality(SeenSince(s, mine)) < Cardinality(SeenSince(t, mine))
    BY <1>1, <1>4, SeenSinceFewer
  <2>2. QED
    BY <1>1, <1>2, <2>1
<1>5. QED
  BY <1>1, <1>3, <1>4 DEF OrderInv, Ordered

\* Sessions are numbered apart by how many were seen since.
LEMMA KeepsOneLess ==
    ASSUME OrderInv, NEW u, NEW pol, pol.cap \in Nat \ {0}
    PROVE  IsFiniteSet(Keeps(u, pol)) /\ Cardinality(Keeps(u, pol)) <= pol.cap - 1
<1> DEFINE mine == Timely(u)
           kept == Keeps(u, pol)
           places == 0 .. pol.cap - 2
           since == [s \in kept |-> Cardinality(SeenSince(s, mine))]
<1>1. mine \subseteq Live /\ IsFiniteSet(mine) /\ kept \subseteq mine
  BY TimelyIsFinite DEF Keeps
<1>2. IsFiniteSet(kept)
  BY <1>1, FS_Subset
<1>3. \A s \in kept : Cardinality(SeenSince(s, mine)) \in places
  <2>1. SUFFICES ASSUME NEW s \in kept PROVE Cardinality(SeenSince(s, mine)) \in places
    OBVIOUS
  <2>2. /\ Cardinality(SeenSince(s, mine)) \in Nat
        /\ ~ (Cardinality(SeenSince(s, mine)) >= pol.cap - 1)
    BY <1>1, TimelyIsFinite DEF Keeps, Overflow
  <2> HIDE DEF mine, kept
  <2>3. QED
    BY <2>2
<1> HIDE DEF mine, kept
<1>4. \A s, t \in kept : s # t => since[s] # since[t]
  <2>1. SUFFICES ASSUME NEW s \in kept, NEW t \in kept, s # t PROVE since[s] # since[t]
    OBVIOUS
  <2>2. s \in Live /\ t \in Live /\ s \in mine /\ t \in mine
    BY <1>1
  <2>3. <<s, t>> \in seen \/ <<t, s>> \in seen
    BY <2>1, <2>2 DEF OrderInv, Ordered
  <2>4. \/ Cardinality(SeenSince(t, mine)) < Cardinality(SeenSince(s, mine))
        \/ Cardinality(SeenSince(s, mine)) < Cardinality(SeenSince(t, mine))
    BY <1>1, <2>2, <2>3, SeenSinceFewer
  <2>5. Cardinality(SeenSince(s, mine)) \in Int /\ Cardinality(SeenSince(t, mine)) \in Int
    BY <1>3
  <2>6. QED
    BY <2>4, <2>5
<1>5. since \in Injection(kept, places)
  <2>1. since \in [kept -> places]
    BY <1>3
  <2> HIDE DEF since
  <2>2. QED
    BY <1>4, <2>1 DEF Injection, IsInjective
<1>6. IsFiniteSet(places) /\ Cardinality(places) = pol.cap - 1
  <2>1. pol.cap - 2 \in Int /\ 0 \in Int
    OBVIOUS
  <2>2. IsFiniteSet(places)
        /\ Cardinality(places) = IF 0 > pol.cap - 2 THEN 0 ELSE (pol.cap - 2) - 0 + 1
    BY <2>1, FS_Interval
  <2>3. QED
    BY <2>2
<1>7. Cardinality(kept) <= Cardinality(places)
  BY <1>2, <1>5, <1>6, FS_Injection
<1>8. QED
  BY <1>2, <1>6, <1>7 DEF kept

\* What a sign-in leaves of its operator's sessions.
LEMMA OpensWithin ==
    ASSUME CapInv, NEW r \in Requests, req[r].who \in Operators, req[r].pol.cap \in Nat \ {0},
           Opens(req[r].who, req[r].pol)
    PROVE  WithinCap(r)
<1> DEFINE u == req[r].who
           pol == req[r].pol
           mine == {s \in Sessions : sess'[s].owner = u}
           kept == {s \in mine : sess'[s].state = "live"}
           ousted == {s \in mine : /\ IsLive(s) /\ sess'[s].state = "revoked"
                                   /\ sess[s].clock = "fine"}
<1>1. SessionsInv /\ OrderInv
  BY DEF CapInv, Inv, TypeInv, SessionsInv
<1>2. PICK new \in Sessions :
        /\ new \notin Live
        /\ Live' = (Live \ Ends(u, pol)) \cup {new}
        /\ \A s \in Sessions \ {new} : sess'[s].owner = sess[s].owner
  BY <1>1, OpensTo
<1>3. \A s \in kept : s \in Live'
  BY DEF Live, IsLive
<1>4. \A s \in kept : s # new => s \in Keeps(u, pol)
  <2>1. SUFFICES ASSUME NEW s \in kept, s # new PROVE s \in Keeps(u, pol)
    OBVIOUS
  <2>2. s \in LiveOf(u) /\ s \notin Ends(u, pol)
    BY <1>2, <1>3, <2>1 DEF LiveOf, Live
  <2>3. QED
    BY <2>2 DEF Ends, Revoked, LiveOf, Live, Keeps, Timely
<1>5. \A s \in ousted : s \in Overflow(u, pol)
  <2>1. SUFFICES ASSUME NEW s \in ousted PROVE s \in Overflow(u, pol)
    OBVIOUS
  <2>2. s \in Live /\ s \notin Live' /\ sess[s].clock = "fine"
    BY DEF Live, IsLive
  <2>3. s \in Ends(u, pol)
    BY <1>2, <2>2
  <2>4. QED
    BY <2>2, <2>3 DEF Ends, Revoked
<1>6. \A s \in ousted, t \in kept : IsLive(t) => <<s, t>> \in seen
  <2>1. SUFFICES ASSUME NEW s \in ousted, NEW t \in kept, IsLive(t) PROVE <<s, t>> \in seen
    OBVIOUS
  <2>2. t # new
    BY <1>2, <2>1 DEF Live
  <2>3. QED
    BY <1>1, <1>4, <1>5, <2>2, KeepsTheLatest
<1>7. Cardinality(kept) <= pol.cap
  <2> DEFINE left == Keeps(u, pol)
  <2>1. IsFiniteSet(left) /\ Cardinality(left) <= pol.cap - 1
    BY <1>1, KeepsOneLess
  <2>2. kept \subseteq left \cup {new}
    BY <1>4
  <2> HIDE DEF left
  <2>3. /\ IsFiniteSet(left \cup {new})
        /\ Cardinality(left \cup {new}) <= Cardinality(left) + 1
    <3>1. Cardinality(left) \in Nat
      BY <2>1, FS_CardinalityType
    <3>2. /\ IsFiniteSet(left \cup {new})
          /\ Cardinality(left \cup {new})
               = IF new \in left THEN Cardinality(left) ELSE Cardinality(left) + 1
      BY <2>1, FS_AddElement
    <3>3. QED
      BY <3>1, <3>2
  <2>4. Cardinality(kept) <= Cardinality(left \cup {new})
    BY <2>2, <2>3, FS_Subset
  <2>5. /\ Cardinality(kept) \in Nat /\ Cardinality(left) \in Nat
        /\ Cardinality(left \cup {new}) \in Nat
    BY <2>1, <2>2, <2>3, FS_Subset, FS_CardinalityType
  <2>6. QED
    BY <2>1, <2>3, <2>4, <2>5
<1>8. QED
  BY <1>6, <1>7 DEF WithinCap

\* Nothing but its own last write ends a request that may open a session.
Opening(r) == req[r].pc \in {"opening", "verified"} /\ req'[r].pc = "idle"
LEMMA OpeningOpens ==
    ASSUME CapInv, Next, NEW r \in Requests, Opening(r)
    PROVE  Opens(req[r].who, req[r].pol)
<1>1. req \in [Requests -> Request]
  BY DEF CapInv, Inv, TypeInv, RequestsTyped
<1>2. ASSUME NEW q \in Requests, SignIn(q) PROVE Opens(req[r].who, req[r].pol)
  <2>1. CASE q # r
    <3>1. req'[r] = req[r]
      BY <1>2, <2>1, SignInStep DEF CapInv, Aside
    <3>2. QED
      BY <3>1 DEF Opening
  <2>2. CASE q = r
    BY <1>2, <2>2
       DEF Opening, Step, Asks, SignIn, Login, Load, ClearExpiredLock, WrongPassword,
           RightPassword, FailRead, FailWrite, OpenRead, OpenWrite, StoreChallenge, Delivered,
           NotDelivered, VerifyRead, VerifiedWrite, WrongCodeWrite
  <2>3. QED
    BY <2>1, <2>2
<1>3. ASSUME NEW q \in Requests, UseSession(q) PROVE FALSE
  <2>1. CASE q # r
    <3>1. req'[r] = req[r]
      BY <1>3, <2>1, UseSessionStep DEF CapInv, Aside
    <3>2. QED
      BY <3>1 DEF Opening
  <2>2. CASE q = r
    BY <1>3, <2>2
       DEF Opening, Step, Asks, UseSession, EnforceRead, TimeoutWrite, TouchWrite, Logout,
           ChangePassword
  <2>3. QED
    BY <2>1, <2>2
<1>4. ASSUME NEW q \in Requests, Administer(q) PROVE FALSE
  <2>1. req[q].pc \in AdminUses \cup {"changing"} /\ \E w : req' = [req EXCEPT ![q] = w]
    BY <1>4 DEF Administer, AdminRead, AdminRefused, ChangeRole, Disable, Enable, Unlock,
                ResetPassword, CreateUser, UpdatePolicy, Changing, Step
  <2>2. q # r
    BY <2>1 DEF Opening, AdminUses
  <2>3. req'[r] = req[r]
    BY <1>1, <2>1, <2>2
  <2>4. QED
    BY <2>3 DEF Opening
<1>5. ASSUME UNCHANGED req PROVE FALSE
  BY <1>5 DEF Opening
<1>6. QED
  BY <1>2, <1>3, <1>4, <1>5
     DEF Next, IssueCaptcha, Clock, TimedOut, LockRunsOut, CodeRunsOut

\* However many sign-ins of an operator overlap, each leaves no more sessions
\* than the policy it read allows, and ends those seen least recently
\* (_make_room_for_session).
THEOREM SignInsKeepTheCap == Spec => OpensWithinCap
<1>1. ASSUME CapInv, Next, NEW r \in Requests, Opening(r) PROVE WithinCap(r)
  <2>1. Opens(req[r].who, req[r].pol)
    BY <1>1, OpeningOpens
  <2>2. req[r] \in Request /\ Proper(req[r]) /\ req[r].pc \in {"opening", "verified"}
    BY <1>1 DEF CapInv, Inv, TypeInv, RequestsTyped, Opening
  <2>3. req[r].who \in Operators
    BY <2>2 DEF Proper
  <2>4. req[r].pol \in Policies \cup {Idle.pol} /\ Idle.pol.cap = 1
    BY <2>2 DEF Request, Idle
  <2>5. req[r].pol.cap \in Nat \ {0}
    BY <2>4, AccountsAssumption
  <2>6. QED
    BY <1>1, <2>1, <2>3, <2>5, OpensWithin
<1>2. CapInv /\ [Next]_vars
        => [\A r \in Requests :
              req[r].pc \in {"opening", "verified"} /\ req'[r].pc = "idle" => WithinCap(r)]_vars
  BY <1>1 DEF Opening
<1>3. QED
  BY <1>2, OrderInvariance, PTL DEF Spec, OpensWithinCap
=============================================================================
