---------------------------- MODULE ServerProofs ----------------------------
(***************************************************************************)
(* The parts of the server: for each its type correctness and what is      *)
(* promised of it, from an inductive invariant of its own, and in the end  *)
(* all of them side by side.                                               *)
(*                                                                         *)
(* Access: nobody who is barred is let in.  What a request knows may be    *)
(* stale, but not in the direction that matters: a user who is ACTIVE has  *)
(* no request that is still barred, so the read of the status decides.     *)
(* Mail: the one connection is used by one at a time, since the lock       *)
(* names whoever works on it; and an address gets a bounded number of      *)
(* mails, since what is counted and what the requests under way can still  *)
(* count stay within a budget together.  Sms: how often a code can be      *)
(* guessed, and how many guesses get through once the number is locked.    *)
(* Bootstrap: what a start-up that serves misses has been lost, since at   *)
(* every step what Needed lists for it is there, and what goes along with  *)
(* a row that is there is there too, still to come, or counted as lost.    *)
(***************************************************************************)
EXTENDS MCServer, FiniteSetTheorems, TLAPS

(* Access *)

\* A request of a user who is ACTIVE is not barred, nor is one that was let past
\* the status.
PassedFreely ==
    \A r \in Requests :
        check[r].step # "idle" /\ (check[r].user \in active \/ check[r].step # "cleared")
            => ~check[r].barred

AccessInv == AccessTypeOK /\ PassedFreely

\* What a request may be doing, without the case of the idle one.
LEMMA CheckShape ==
    ASSUME NEW c \in CheckTypes, c.step # "idle"
    PROVE  /\ c.step \in {"signing", "cleared", "verified", "admitted"}
           /\ c.user \in Users
           /\ c.barred \in BOOLEAN
           /\ [c EXCEPT !.barred = FALSE] \in CheckTypes
           /\ [c EXCEPT !.step = "admitted"] \in CheckTypes
  <1> DEFINE Busy == [step : {"signing", "cleared", "verified", "admitted"}, user : Users, barred : BOOLEAN]
  <1>1. c \in Busy
    BY DEF CheckTypes, NoCheck
  <1>2. [c EXCEPT !.barred = FALSE] \in Busy /\ [c EXCEPT !.step = "admitted"] \in Busy
    BY <1>1
  <1> QED
    BY <1>1, <1>2 DEF CheckTypes

LEMMA MembershipIsBoolean == ASSUME NEW x, NEW S PROVE (x \in S) \in BOOLEAN
  OBVIOUS

LEMMA JobShape ==
    ASSUME NEW j \in JobTypes, j.step # "idle"
    PROVE  /\ j.step \in {"loaded", "committed", "tell"}
           /\ j.user \in Users
           /\ [j EXCEPT !.step = "committed"] \in JobTypes
           /\ \A b \in BOOLEAN : [j EXCEPT !.step = "tell", !.on = b] \in JobTypes
  <1>1. j \in [step : {"loaded", "committed", "tell"}, user : Users, old : BOOLEAN, on : BOOLEAN]
    BY DEF JobTypes, NoJob
  <1>2. ASSUME NEW b \in BOOLEAN
        PROVE  [j EXCEPT !.step = "tell", !.on = b] \in
                   [step : {"loaded", "committed", "tell"}, user : Users, old : BOOLEAN, on : BOOLEAN]
    BY <1>1
  <1>3. [j EXCEPT !.step = "committed"] \in
            [step : {"loaded", "committed", "tell"}, user : Users, old : BOOLEAN, on : BOOLEAN]
    BY <1>1
  <1> QED
    BY <1>1, <1>2, <1>3 DEF JobTypes

\* Allowing users in unbars their requests and touches no other.
LEMMA Unbarred ==
    ASSUME NEW S \in SUBSET Users, check \in [Requests -> CheckTypes], Unbar(S)
    PROVE  /\ check' \in [Requests -> CheckTypes]
           /\ \A r \in Requests :
                 IF check[r].step # "idle" /\ check[r].user \in S
                 THEN /\ check'[r].step = check[r].step
                      /\ check'[r].user = check[r].user
                      /\ check'[r].barred = FALSE
                 ELSE check'[r] = check[r]
  <1> DEFINE New(r) == IF check[r].step # "idle" /\ check[r].user \in S
                       THEN [check[r] EXCEPT !.barred = FALSE] ELSE check[r]
  <1>1. check' = [r \in Requests |-> New(r)]
    BY DEF Unbar
  <1>2. \A r \in Requests : New(r) \in CheckTypes
    BY CheckShape
  <1>3. ASSUME NEW r \in Requests, check[r].step # "idle", check[r].user \in S
        PROVE  /\ New(r).step = check[r].step
               /\ New(r).user = check[r].user
               /\ New(r).barred = FALSE
    BY <1>3 DEF CheckTypes, NoCheck
  <1> QED
    BY <1>1, <1>2, <1>3

LEMMA AccessInvInit == AccessInit => AccessInv
  BY AccessConstants DEF AccessInit, AccessInv, AccessTypeOK, PassedFreely, NoJob, NoCheck,
      JobTypes, CheckTypes

\* The steps of the administration.
LEMMA JobStep ==
    ASSUME AccessInv, NEW j \in Jobs,
           \/ \E u \in Users, on \in BOOLEAN : UpdateLoad(j, u, on)
           \/ UpdateCommit(j) \/ UpdateRefresh(j) \/ UpdateTell(j) \/ UpdateDies(j)
    PROVE  AccessInv'
  <1> USE AccessConstants DEF AccessInv
  <1>1. NoJob \in JobTypes
    BY DEF JobTypes
  <1>2. CASE \E u \in Users, on \in BOOLEAN : UpdateLoad(j, u, on)
    <2> PICK u \in Users, on \in BOOLEAN : UpdateLoad(j, u, on)
      BY <1>2
    <2>1. [step |-> "loaded", user |-> u, old |-> u \in active, on |-> on] \in JobTypes
      BY DEF JobTypes
    <2> QED
      BY <2>1 DEF UpdateLoad, AccessTypeOK, davVars, PassedFreely
  <1>3. CASE UpdateCommit(j)
    <2>1. job[j] \in JobTypes /\ job[j].step # "idle"
      BY <1>3 DEF UpdateCommit, AccessTypeOK
    <2>2. job[j].user \in Users /\ [job[j] EXCEPT !.step = "committed"] \in JobTypes
      BY <2>1, JobShape
    <2>3. active' \subseteq Users
      BY <1>3, <2>2 DEF UpdateCommit, AccessTypeOK
    <2>4. Unbar(active' \ active)
      BY <1>3 DEF UpdateCommit
    <2>5. AccessTypeOK'
      BY <1>3, <2>2, <2>3, <2>4, Unbarred DEF UpdateCommit, AccessTypeOK, davVars
    <2>6. PassedFreely'
      <3> SUFFICES ASSUME NEW r \in Requests, check'[r].step # "idle",
                          check'[r].user \in active' \/ check'[r].step # "cleared"
                   PROVE  ~check'[r].barred
        BY DEF PassedFreely
      <3>1. active' \ active \in SUBSET Users /\ check \in [Requests -> CheckTypes]
        BY <2>3 DEF AccessTypeOK
      <3>2. IF check[r].step # "idle" /\ check[r].user \in active' \ active
            THEN check'[r].barred = FALSE ELSE check'[r] = check[r]
        BY <3>1, <2>4, Unbarred
      <3> QED
        BY <3>2 DEF PassedFreely
    <2> QED
      BY <2>5, <2>6
  <1>4. CASE UpdateRefresh(j)
    <2>1. job[j] \in JobTypes /\ job[j].step # "idle"
      BY <1>4 DEF UpdateRefresh, AccessTypeOK
    <2>2. \A b \in BOOLEAN : [job[j] EXCEPT !.step = "tell", !.on = b] \in JobTypes
      BY <2>1, JobShape
    <2>3. [job[j] EXCEPT !.step = "tell", !.on = job[j].user \in active] \in JobTypes
      BY <2>2, MembershipIsBoolean, Zenon
    <2> QED
      BY <1>1, <1>4, <2>3 DEF UpdateRefresh, AccessTypeOK, davVars, PassedFreely
  <1>5. CASE UpdateTell(j)
    <2>1. job[j] \in JobTypes /\ job[j].step # "idle"
      BY <1>5 DEF UpdateTell, AccessTypeOK
    <2>2. job[j].user \in Users
      BY <2>1, JobShape
    <2> QED
      BY <1>1, <1>5, <2>2 DEF UpdateTell, AccessTypeOK, davVars, PassedFreely
  <1>6. CASE UpdateDies(j)
    BY <1>1, <1>6 DEF UpdateDies, AccessTypeOK, davVars, PassedFreely
  <1> QED
    BY <1>2, <1>3, <1>4, <1>5, <1>6

\* The steps of users' requests.
LEMMA RequestInvStep ==
    ASSUME AccessInv, NEW r \in Requests,
           \/ \E u \in Users : LogIn(r, u) \/ CheckBans(r, u) \/ DavMiss(r, u) \/ DavHit(r, u)
           \/ IssueTokens(r) \/ CheckStatus(r) \/ Serve(r) \/ DavStore(r)
    PROVE  AccessInv'
  <1> USE DEF AccessInv
  <1>1. NoCheck \in CheckTypes /\ check[r] \in CheckTypes
    BY DEF CheckTypes, AccessTypeOK
  <1>2. CASE \E u \in Users : CheckBans(r, u)
    <2> PICK u \in Users : CheckBans(r, u)
      BY <1>2
    <2>1. [step |-> "cleared", user |-> u, barred |-> u \notin active] \in CheckTypes
      BY DEF CheckTypes
    <2> QED
      BY <2>1 DEF CheckBans, AccessTypeOK, jobVars, davVars, PassedFreely
  <1>3. CASE \E u \in Users : DavMiss(r, u)
    <2> PICK u \in Users : DavMiss(r, u)
      BY <1>3
    <2>1. [step |-> "verified", user |-> u, barred |-> FALSE] \in CheckTypes
      BY DEF CheckTypes
    <2>2. CASE u \in active /\ u \in account
      <3>1. /\ check' = [check EXCEPT ![r] = [step |-> "verified", user |-> u, barred |-> FALSE]]
            /\ UNCHANGED <<active, bans, tokens, job, begun, account, revoking, davCache, davReply>>
        BY <2>2 DEF DavMiss, jobVars
      <3> QED
        BY <2>1, <3>1 DEF AccessTypeOK, PassedFreely
    <2>3. CASE ~(u \in active /\ u \in account)
      <3>1. /\ davReply' = [davReply EXCEPT ![u] = "refused"]
            /\ UNCHANGED <<active, bans, tokens, job, begun, account, revoking, davCache, check>>
        BY <2>3 DEF DavMiss, jobVars
      <3> QED
        BY <3>1 DEF AccessTypeOK, PassedFreely
    <2> QED
      BY <2>2, <2>3
  <1>4. CASE \E u \in Users : DavHit(r, u)
    BY <1>4 DEF DavHit, AccessTypeOK, jobVars, PassedFreely
  <1>5. CASE CheckStatus(r)
    <2>1. check[r].step # "idle"
      BY <1>5 DEF CheckStatus
    <2>2. /\ [check[r] EXCEPT !.step = "admitted"] \in CheckTypes
          /\ [check[r] EXCEPT !.step = "admitted"].barred = check[r].barred
      BY <1>1, <2>1, CheckShape DEF CheckTypes, NoCheck
    <2> QED
      BY <1>1, <1>5, <2>1, <2>2 DEF CheckStatus, AccessTypeOK, jobVars, davVars, PassedFreely,
          NoCheck
  <1>6. CASE Serve(r)
    BY <1>1, <1>6 DEF Serve, AccessTypeOK, jobVars, davVars, PassedFreely, NoCheck
  <1>7. CASE DavStore(r)
    <2>1. check[r].step = "verified"
      BY <1>7 DEF DavStore
    <2>2. /\ [check[r] EXCEPT !.step = "admitted"] \in CheckTypes
          /\ [check[r] EXCEPT !.step = "admitted"].barred = check[r].barred
          /\ check[r].user \in Users
      BY <1>1, <2>1, CheckShape DEF CheckTypes, NoCheck
    <2>3. ~check[r].barred
      BY <2>1 DEF PassedFreely
    <2>4. AccessTypeOK'
      BY <1>7, <2>2 DEF DavStore, AccessTypeOK, jobVars
    <2>5. PassedFreely'
      BY <1>7, <2>2, <2>3 DEF DavStore, AccessTypeOK, PassedFreely
    <2> QED
      BY <2>4, <2>5
  <1>8. CASE \E u \in Users : LogIn(r, u)
    <2> PICK u \in Users : LogIn(r, u)
      BY <1>8
    <2>1. [step |-> "signing", user |-> u, barred |-> FALSE] \in CheckTypes
      BY DEF CheckTypes
    <2> QED
      BY <2>1 DEF LogIn, AccessTypeOK, jobVars, davVars, PassedFreely
  <1>9. CASE IssueTokens(r)
    <2>1. check[r].user \in Users
      BY <1>1, <1>9, CheckShape DEF IssueTokens
    <2> QED
      BY <1>1, <1>9, <2>1 DEF IssueTokens, AccessTypeOK, jobVars, davVars, PassedFreely, NoCheck
  <1> QED
    BY <1>2, <1>3, <1>4, <1>5, <1>6, <1>7, <1>8, <1>9

LEMMA AccessInvStep == AccessInv /\ [AccessNext]_accessVars => AccessInv'
  <1> SUFFICES ASSUME AccessInv, [AccessNext]_accessVars PROVE AccessInv'
    OBVIOUS
  <1>1. CASE UNCHANGED accessVars
    BY <1>1 DEF accessVars, jobVars, davVars, AccessInv, AccessTypeOK, PassedFreely
  <1>2. CASE \E u \in Users :
                \/ BanExpires(u) \/ TokenExpires(u)
                \/ DavCreate(u) \/ DavRevoke(u) \/ DavGrant(u) \/ DavInvalidate(u)
                \/ DavExpires(u)
    BY <1>2 DEF BanExpires, TokenExpires, DavCreate, DavRevoke, DavGrant, DavInvalidate,
        DavExpires, jobVars, davVars, AccessInv, AccessTypeOK, PassedFreely
  <1> QED
    BY <1>1, <1>2, JobStep, RequestInvStep DEF AccessNext

\* The invariant holds in every reachable state.
THEOREM AccessInvariant == AccessSpec => []AccessInv
  BY AccessInvInit, AccessInvStep, PTL DEF AccessSpec

\* The variables keep their types, for any users, requests and updates.
THEOREM AccessTypeCorrect == AccessSpec => []AccessTypeOK
  BY AccessInvariant, PTL DEF AccessInv

\* Whoever is let in has passed the read of the status.
LEMMA AccessInvRefuses == AccessInv => BannedRefused
  BY DEF AccessInv, PassedFreely, BannedRefused

\* Nobody who was not ACTIVE when the request began and has not become so since is
\* let in, with a token, by a stale ban list or by the WebDAV cache.
THEOREM BannedAreRefused == AccessSpec => []BannedRefused
  BY AccessInvRefuses, AccessInvariant, PTL

-----------------------------------------------------------------------------
(* Mail *)

\* The lock names whoever is between taking and giving it back, the timer too, and
\* nobody sends without a connection.
LockHeld ==
    /\ TransmitAlone
    /\ timer = "locked" => lock = Timer

MailInv == MailTypeOK /\ LockHeld

LEMMA MailInvInit == MailInit => MailInv
  <1> SUFFICES ASSUME MailInit PROVE MailInv
    OBVIOUS
  <1>1. NoSender \in [step : {"idle", "hour"}] /\ NoSender.step = "idle"
    BY DEF NoSender
  <1>2. NoHour \in [count : Nat, expires : BOOLEAN]
    BY DEF NoHour
  <1>3. MailTypeOK
    BY <1>1, <1>2 DEF MailInit, MailTypeOK
  <1>4. LockHeld
    BY <1>1 DEF MailInit, LockHeld, TransmitAlone
  <1> QED
    BY <1>3, <1>4 DEF MailInv

\* A lock names one holder.
LEMMA HoldersDiffer ==
    /\ \A s, t : HeldBy(s) = HeldBy(t) => s = t
    /\ \A s : HeldBy(s) # Timer /\ HeldBy(s) # Nobody
    /\ Timer # Nobody
  <1>1. ASSUME NEW s, NEW t, HeldBy(s) = HeldBy(t) PROVE s = t
    <2>1. HeldBy(s).of = s /\ HeldBy(t).of = t
      BY DEF HeldBy
    <2> QED
      BY <1>1, <2>1
  <1>2. ASSUME NEW s PROVE HeldBy(s) # Timer /\ HeldBy(s) # Nobody
    <2>1. HeldBy(s).by = "sender" /\ Timer.by = "timer" /\ Nobody.by = "nobody"
      BY DEF HeldBy, Timer, Nobody
    <2> QED
      BY <2>1
  <1>3. Timer # Nobody
    BY DEF Timer, Nobody
  <1> QED
    BY <1>1, <1>2, <1>3

Waiting == [step : {"idle", "hour"}]
Counting ==
    [step : {"code", "minute", "count", "lock", "connect", "transmit"}, first : BOOLEAN]

\* A request that has read the hour's count keeps what it read as it goes on.
LEMMA GoesOn ==
    ASSUME NEW x \in Waiting \union Counting, x.step \notin {"idle", "hour"},
           NEW step \in {"code", "minute", "count", "lock", "connect", "transmit"}
    PROVE  [x EXCEPT !.step = step] \in Counting
  BY DEF Waiting, Counting

\* A step of one request outside the lock leaves the lock to whoever has it.
LEMMA OutsideLock ==
    ASSUME MailInv, NEW s \in Senders, NEW x \in Waiting \union Counting,
           sender' = [sender EXCEPT ![s] = x], x.step \notin {"connect", "transmit"},
           UNCHANGED smtpVars
    PROVE  LockHeld' /\ sender' \in [Senders -> Waiting \union Counting]
  BY DEF MailInv, MailTypeOK, LockHeld, TransmitAlone, smtpVars, Waiting, Counting

\* The steps of a request in Redis.
LEMMA RedisStep ==
    ASSUME MailInv, NEW s \in Senders,
           \/ ReadMinute(s) \/ ReadHour(s) \/ StoreCode(s) \/ StoreMinute(s) \/ CountHour(s)
           \/ SenderFails(s)
    PROVE  MailInv'
  <1>1. sender[s] \in Waiting \union Counting /\ sender \in [Senders -> Waiting \union Counting]
    BY DEF MailInv, MailTypeOK, Waiting, Counting
  <1>2. NoSender \in Waiting /\ [step |-> "hour"] \in Waiting
        /\ [step |-> "code", first |-> TRUE] \in Counting
        /\ [step |-> "code", first |-> FALSE] \in Counting
    BY DEF Waiting, Counting, NoSender
  <1>3. CASE ReadMinute(s)
    <2>1. LockHeld' /\ sender' \in [Senders -> Waiting \union Counting]
      BY <1>2, <1>3, OutsideLock DEF ReadMinute
    <2> QED
      BY <1>3, <2>1 DEF ReadMinute, codeVars, smtpVars, MailInv, MailTypeOK, Waiting, Counting
  <1>4. CASE ReadHour(s)
    <2>1. [step |-> "code", first |-> hour.count = 0] \in Counting
      BY DEF Counting
    <2>2. LockHeld' /\ sender' \in [Senders -> Waiting \union Counting]
      <3>1. CASE hour.count >= HourLimit
        BY <1>2, <1>4, <3>1, OutsideLock DEF ReadHour, Quits, NoSender
      <3>2. CASE ~(hour.count >= HourLimit)
        BY <1>4, <2>1, <3>2, OutsideLock DEF ReadHour
      <3> QED
        BY <3>1, <3>2
    <2> QED
      BY <1>4, <2>2 DEF ReadHour, codeVars, smtpVars, MailInv, MailTypeOK, Waiting, Counting
  <1>5. CASE StoreCode(s)
    <2>1. [sender[s] EXCEPT !.step = "minute"] \in Counting
      BY <1>1, <1>5, GoesOn DEF StoreCode
    <2>2. LockHeld' /\ sender' \in [Senders -> Waiting \union Counting]
      BY <1>1, <1>5, <2>1, OutsideLock DEF StoreCode, To, Waiting, Counting
    <2> QED
      BY <1>5, <2>2 DEF StoreCode, smtpVars, MailInv, MailTypeOK, Waiting, Counting
  <1>6. CASE StoreMinute(s)
    <2>1. [sender[s] EXCEPT !.step = "count"] \in Counting
      BY <1>1, <1>6, GoesOn DEF StoreMinute
    <2>2. LockHeld' /\ sender' \in [Senders -> Waiting \union Counting]
      BY <1>1, <1>6, <2>1, OutsideLock DEF StoreMinute, To, Waiting, Counting
    <2> QED
      BY <1>6, <2>2 DEF StoreMinute, smtpVars, MailInv, MailTypeOK, Waiting, Counting
  <1>7. CASE CountHour(s)
    <2>1. [sender[s] EXCEPT !.step = "lock"] \in Counting
      BY <1>1, <1>7, GoesOn DEF CountHour
    <2>2. LockHeld' /\ sender' \in [Senders -> Waiting \union Counting]
      BY <1>1, <1>7, <2>1, OutsideLock DEF CountHour, To, Waiting, Counting
    <2>3. hour' \in [count : Nat, expires : BOOLEAN] /\ lately' \in Nat
      <3>1. hour \in [count : Nat, expires : BOOLEAN] /\ lately \in Nat
        BY DEF MailInv, MailTypeOK
      <3>2. CASE sender[s].first
        BY <1>7, <3>1, <3>2 DEF CountHour
      <3>3. CASE ~sender[s].first
        <4>1. (hour.expires /\ hour.count > 0) \in BOOLEAN
          OBVIOUS
        <4>2. hour' = [count |-> hour.count + 1, expires |-> hour.expires /\ hour.count > 0]
          BY <1>7, <3>3 DEF CountHour
        <4> QED
          BY <1>7, <3>1, <4>1, <4>2 DEF CountHour
      <3> QED
        BY <3>2, <3>3
    <2> QED
      BY <1>7, <2>2, <2>3 DEF CountHour, smtpVars, MailInv, MailTypeOK, Waiting, Counting
  <1>8. CASE SenderFails(s)
    <2>1. LockHeld' /\ sender' \in [Senders -> Waiting \union Counting]
      BY <1>2, <1>8, OutsideLock DEF SenderFails, Quits, NoSender
    <2> QED
      BY <1>8, <2>1 DEF SenderFails, codeVars, smtpVars, MailInv, MailTypeOK, Waiting, Counting
  <1> QED
    BY <1>3, <1>4, <1>5, <1>6, <1>7, <1>8

\* The steps of a request that takes or holds the lock.
LEMMA SmtpInvStep ==
    ASSUME MailInv, NEW s \in Senders, TakeLock(s) \/ Connect(s) \/ Transmit(s)
    PROVE  MailInv'
  <1>1. sender \in [Senders -> Waiting \union Counting] /\ sender[s] \in Waiting \union Counting
    BY DEF MailInv, MailTypeOK, Waiting, Counting
  <1>2. NoSender \in Waiting \union Counting /\ NoSender.step = "idle"
    BY DEF Waiting, NoSender
  <1> USE HoldersDiffer
  <1>3. CASE TakeLock(s)
    <2> DEFINE x == [sender[s] EXCEPT !.step = "connect"]
    <2>1. x \in Counting /\ x.step = "connect" /\ sender' = [sender EXCEPT ![s] = x]
      BY <1>1, <1>3, GoesOn DEF TakeLock, To, Waiting, Counting
    <2>2. LockHeld'
      BY <1>1, <1>3, <2>1 DEF TakeLock, MailInv, LockHeld, TransmitAlone
    <2> QED
      BY <1>1, <1>3, <2>1, <2>2 DEF TakeLock, codeVars, MailInv, MailTypeOK, Waiting, Counting
  <1>4. CASE Connect(s)
    <2>1. lock = HeldBy(s) /\ sender[s].step = "connect"
      BY <1>4 DEF Connect, MailInv, LockHeld, TransmitAlone
    <2>2. CASE client' = "up" /\ To(s, "transmit") /\ UNCHANGED lock
      <3> DEFINE x == [sender[s] EXCEPT !.step = "transmit"]
      <3>1. x \in Counting /\ x.step = "transmit" /\ sender' = [sender EXCEPT ![s] = x]
        BY <1>1, <2>1, <2>2, GoesOn DEF To, Waiting, Counting
      <3>2. LockHeld'
        BY <1>1, <1>4, <2>1, <2>2, <3>1 DEF Connect, MailInv, LockHeld, TransmitAlone
      <3> QED
        BY <1>1, <1>4, <2>2, <3>1, <3>2 DEF Connect, codeVars, MailInv, MailTypeOK,
            Waiting, Counting
    <2>3. CASE client # "up" /\ client' = "none" /\ Quits(s) /\ lock' = Nobody
      <3>1. sender' = [sender EXCEPT ![s] = NoSender]
        BY <2>3 DEF Quits
      <3>2. LockHeld'
        BY <1>1, <1>2, <1>4, <2>1, <2>3, <3>1 DEF Connect, MailInv, LockHeld, TransmitAlone
      <3> QED
        BY <1>1, <1>2, <1>4, <2>3, <3>1, <3>2 DEF Connect, codeVars, MailInv, MailTypeOK,
            Waiting, Counting
    <2> QED
      BY <1>4, <2>2, <2>3 DEF Connect
  <1>5. CASE Transmit(s)
    <2>1. lock = HeldBy(s) /\ sender[s].step = "transmit"
      BY <1>5 DEF Transmit, MailInv, LockHeld, TransmitAlone
    <2>2. sender' = [sender EXCEPT ![s] = NoSender] /\ lock' = Nobody
      BY <1>5 DEF Transmit, Quits
    <2>3. timer # "locked"
      BY <2>1 DEF MailInv, LockHeld
    <2>4. client' \in {"none", "up", "lost"} /\ timer' \in {timer, "asleep"}
      BY <1>5 DEF Transmit, MailInv, MailTypeOK
    <2>5. LockHeld'
      BY <1>1, <1>2, <2>1, <2>2, <2>3, <2>4 DEF MailInv, LockHeld, TransmitAlone
    <2> QED
      BY <1>1, <1>2, <1>5, <2>2, <2>4, <2>5 DEF Transmit, codeVars, MailInv, MailTypeOK,
          Waiting, Counting
  <1> QED
    BY <1>3, <1>4, <1>5

LEMMA MailInvStep == MailInv /\ [MailNext]_mailVars => MailInv'
  <1> SUFFICES ASSUME MailInv, [MailNext]_mailVars PROVE MailInv'
    OBVIOUS
  <1> USE HoldersDiffer
  <1>1. CASE VerifyCode \/ CodeExpires \/ MinuteExpires \/ HourExpires
    <2>1. NoHour \in [count : Nat, expires : BOOLEAN]
      BY DEF NoHour
    <2>2. UNCHANGED <<sender, lock, client, timer>>
      BY <1>1 DEF VerifyCode, CodeExpires, MinuteExpires, HourExpires, smtpVars
    <2>3. /\ minute' \in BOOLEAN /\ code' \in BOOLEAN /\ lately' \in Nat
          /\ hour' \in [count : Nat, expires : BOOLEAN]
      <3>1. CASE VerifyCode \/ CodeExpires
        BY <3>1 DEF VerifyCode, CodeExpires, MailInv, MailTypeOK
      <3>2. CASE MinuteExpires
        BY <3>2 DEF MinuteExpires, MailInv, MailTypeOK
      <3>3. CASE HourExpires
        BY <2>1, <3>3 DEF HourExpires, MailInv, MailTypeOK
      <3> QED
        BY <1>1, <3>1, <3>2, <3>3
    <2> QED
      BY <2>2, <2>3 DEF MailInv, MailTypeOK, LockHeld, TransmitAlone
  <1>2. CASE TimerWakes
    BY <1>2 DEF TimerWakes, codeVars, MailInv, MailTypeOK, LockHeld, TransmitAlone
  <1>3. CASE TimerLocks
    BY <1>3 DEF TimerLocks, codeVars, MailInv, MailTypeOK, LockHeld, TransmitAlone
  <1>4. CASE TimerCloses
    BY <1>4 DEF TimerCloses, codeVars, MailInv, MailTypeOK, LockHeld, TransmitAlone
  <1>5. CASE ServerLeaves
    BY <1>5 DEF ServerLeaves, codeVars, MailInv, MailTypeOK, LockHeld, TransmitAlone
  <1>6. CASE MailRestart
    BY <1>6 DEF MailRestart, codeVars, NoSender, MailInv, MailTypeOK, LockHeld, TransmitAlone
  <1>7. CASE UNCHANGED mailVars
    BY <1>7 DEF mailVars, codeVars, smtpVars, MailInv, MailTypeOK, LockHeld, TransmitAlone
  <1> QED
    BY <1>1, <1>2, <1>3, <1>4, <1>5, <1>6, <1>7, RedisStep, SmtpInvStep DEF MailNext

\* The invariant holds in every reachable state.
THEOREM MailInvariant == MailSpec => []MailInv
  BY MailInvInit, MailInvStep, PTL DEF MailSpec

\* The variables keep their types, for any number of requests.
THEOREM MailTypeCorrect == MailSpec => []MailTypeOK
  BY MailInvariant, PTL DEF MailInv

\* No connection is closed under a request that sends through it, and no two
\* requests send at a time.
THEOREM SendersAreAlone == MailSpec => []TransmitAlone
  BY MailInvariant, PTL DEF MailInv, LockHeld
-----------------------------------------------------------------------------
(* Mail: how many an address gets *)

Crowd == Cardinality(Senders)
MailBudget == Crowd * (2 * HourLimit + Crowd - 1)

\* Twice the mails that may still be counted at the count c with f requests under
\* way that found no key: the other requests can bring the count up to
\* HourLimit - 1 and then add one each; every one of the f puts it back to 1 once.
MailsToCome(c, f) ==
    2 * (HourLimit - 1 + Crowd - f - c) + f * (2 * HourLimit + 2 * Crowd - f - 1)

\* k mails are counted, c is the count, f requests that found no key and g that
\* found one are still to count.
Fits(k, c, f, g) ==
    IF c = 0 THEN k = 0
    ELSE /\ c + g <= HourLimit - 1 + Crowd - f
         /\ 2 * k + MailsToCome(c, f) <= MailBudget

LEMMA CrowdNat == Crowd \in Nat /\ HourLimit \in Nat \ {0}
  BY FS_CardinalityType, MailConstants DEF Crowd

\* What fits has not passed the budget.
LEMMA FitsBudget ==
    ASSUME NEW k \in Nat, NEW c \in Nat, NEW f \in Nat, NEW g \in Nat, f + g <= Crowd,
           Fits(k, c, f, g)
    PROVE  2 * k <= MailBudget
  <1>1. /\ Crowd \in Nat /\ HourLimit \in Nat /\ HourLimit > 0
    BY CrowdNat
  <1>2. CASE c = 0
    <2>1. Crowd * (2 * HourLimit + Crowd - 1) >= 0
      BY <1>1
    <2> QED
      BY <1>2, <2>1 DEF Fits, MailBudget
  <1>3. CASE c # 0
    <2>1. f * (2 * HourLimit + 2 * Crowd - f - 1) >= 0
      BY <1>1
    <2> QED
      BY <1>1, <1>3, <2>1 DEF Fits, MailsToCome, MailBudget
  <1> QED
    BY <1>2, <1>3

\* A request that found a key is not going to count after all.
LEMMA FitsLess ==
    ASSUME NEW k \in Nat, NEW c \in Nat, NEW f \in Nat, NEW g \in Nat, f + g <= Crowd,
           Fits(k, c, f, g), NEW h \in 0 .. g
    PROVE  Fits(k, c, f, h)
  BY CrowdNat DEF Fits, MailsToCome, MailBudget

\* Another request finds the count below the limit.
LEMMA FitsMore ==
    ASSUME NEW k \in Nat, NEW c \in Nat, NEW f \in Nat, NEW g \in Nat, f + g < Crowd,
           Fits(k, c, f, g), c < HourLimit, c > 0
    PROVE  Fits(k, c, f, g + 1)
  BY CrowdNat DEF Fits, MailsToCome, MailBudget

\* A request that found no key is not going to count after all.
LEMMA FitsFewer ==
    ASSUME NEW k \in Nat, NEW c \in Nat, NEW f \in Nat, NEW g \in Nat, f + g <= Crowd,
           Fits(k, c, f, g), f > 0
    PROVE  Fits(k, c, f - 1, g)
  <1>1. /\ Crowd \in Nat /\ HourLimit \in Nat /\ HourLimit > 0
    BY CrowdNat
  <1>2. (f - 1) * (2 * HourLimit + 2 * Crowd - (f - 1) - 1)
            = f * (2 * HourLimit + 2 * Crowd - f - 1) - 2 * HourLimit - 2 * Crowd + 2 * f
    BY <1>1
  <1> QED
    BY <1>1, <1>2 DEF Fits, MailsToCome, MailBudget

\* None of the requests under way is going to count.
LEMMA FitsNone ==
    ASSUME NEW k \in Nat, NEW c \in Nat, NEW f \in Nat, NEW g \in Nat, f + g <= Crowd,
           Fits(k, c, f, g)
    PROVE  Fits(k, c, 0, 0)
  <1>1. /\ Crowd \in Nat /\ HourLimit \in Nat /\ HourLimit > 0
    BY CrowdNat
  <1>2. f * (2 * HourLimit + 2 * Crowd - f - 1) >= 2 * f
    <2>1. CASE f = 0
      BY <1>1, <2>1
    <2>2. CASE f > 0
      <3>1. 2 * HourLimit + 2 * Crowd - f - 1 >= 2
        BY <1>1, <2>2
      <3> QED
        BY <1>1, <2>2, <3>1
    <2> QED
      BY <2>1, <2>2
  <1>3. 0 * (2 * HourLimit + 2 * Crowd - 0 - 1) = 0
    BY <1>1
  <1> QED
    BY <1>1, <1>2, <1>3 DEF Fits, MailsToCome, MailBudget

\* The first mail after the key expired.
LEMMA FitsFirst ==
    ASSUME NEW f \in Nat, NEW g \in Nat, f + g < Crowd
    PROVE  Fits(1, 1, f, g)
  <1>1. /\ Crowd \in Nat /\ HourLimit \in Nat /\ HourLimit > 0
    BY CrowdNat
  <1> DEFINE d == Crowd - 1 - f
  <1>2. d \in Nat /\ f = Crowd - 1 - d
    BY <1>1
  <1>3. d * (2 * HourLimit + d - 1) >= 0
    BY <1>1, <1>2
  <1>4. 2 + MailsToCome(1, f) = MailBudget - d * (2 * HourLimit + d - 1)
    BY <1>1, <1>2 DEF MailsToCome, MailBudget
  <1>5. MailBudget \in Int /\ MailsToCome(1, f) \in Int
    BY <1>1 DEF MailsToCome, MailBudget
  <1>6. 1 + g <= HourLimit - 1 + Crowd - f
    BY <1>1
  <1>7. d * (2 * HourLimit + d - 1) \in Int
    BY <1>1, <1>2
  <1> HIDE DEF d
  <1>8. 2 * 1 + MailsToCome(1, f) <= MailBudget
    BY <1>3, <1>4, <1>5, <1>7
  <1> QED
    BY <1>6, <1>8 DEF Fits

\* A request that found no key counts: the count is 1 again.
LEMMA FitsSet ==
    ASSUME NEW k \in Nat, NEW c \in Nat, NEW f \in Nat, NEW g \in Nat, f + g <= Crowd,
           Fits(k, c, f, g), f > 0
    PROVE  Fits(k + 1, 1, f - 1, g)
  <1>1. /\ Crowd \in Nat /\ HourLimit \in Nat /\ HourLimit > 0
    BY CrowdNat
  <1>2. CASE c = 0
    <2>1. Fits(1, 1, f - 1, g)
      BY <1>1, FitsFirst
    <2> QED
      BY <1>2, <2>1 DEF Fits
  <1>3. CASE c # 0
    <2>1. (f - 1) * (2 * HourLimit + 2 * Crowd - (f - 1) - 1)
              = f * (2 * HourLimit + 2 * Crowd - f - 1) - 2 * HourLimit - 2 * Crowd + 2 * f
      BY <1>1
    <2> QED
      BY <1>1, <1>3, <2>1 DEF Fits, MailsToCome, MailBudget
  <1> QED
    BY <1>2, <1>3

\* A request that found a key counts one more.
LEMMA FitsIncrement ==
    ASSUME NEW k \in Nat, NEW c \in Nat, NEW f \in Nat, NEW g \in Nat, f + g <= Crowd,
           Fits(k, c, f, g), g > 0
    PROVE  Fits(k + 1, c + 1, f, g - 1)
  <1>1. /\ Crowd \in Nat /\ HourLimit \in Nat /\ HourLimit > 0
    BY CrowdNat
  <1>2. CASE c = 0
    <2>1. Fits(1, 1, f, g - 1)
      BY <1>1, FitsFirst
    <2> QED
      BY <1>2, <2>1 DEF Fits
  <1>3. CASE c # 0
    BY <1>1, <1>3 DEF Fits, MailsToCome, MailBudget
  <1> QED
    BY <1>2, <1>3

\* The requests under way that have read the hour's count and not added to it: those
\* that found no key, and the others.
Unsent == {"code", "minute", "count"}
Early == {s \in Senders : sender[s].step \in Unsent /\ sender[s].first}
Late == {s \in Senders : sender[s].step \in Unsent /\ ~sender[s].first}

MailCount == Fits(lately, hour.count, Cardinality(Early), Cardinality(Late))

\* Nobody is in both sets, and who is in neither leaves room for one more.
LEMMA EarlyLate ==
    /\ IsFiniteSet(Early) /\ IsFiniteSet(Late)
    /\ Cardinality(Early) \in Nat /\ Cardinality(Late) \in Nat
    /\ Cardinality(Early) + Cardinality(Late) <= Crowd
    /\ \A s \in Senders : s \notin Early \union Late =>
           Cardinality(Early) + Cardinality(Late) < Crowd
  <1>1. Early \subseteq Senders /\ Late \subseteq Senders /\ Early \intersect Late = {}
    BY DEF Early, Late
  <1>2. IsFiniteSet(Early) /\ IsFiniteSet(Late) /\ IsFiniteSet(Senders)
    BY <1>1, FS_Subset, MailConstants
  <1>3. /\ Cardinality(Early) \in Nat /\ Cardinality(Late) \in Nat
        /\ Cardinality(Early \union Late) = Cardinality(Early) + Cardinality(Late)
    <2>1. Cardinality(Early \intersect Late) = 0
      BY <1>1, FS_EmptySet
    <2>2. Cardinality(Early) \in Nat /\ Cardinality(Late) \in Nat
      BY <1>2, FS_CardinalityType
    <2>3. Cardinality(Early \union Late)
              = Cardinality(Early) + Cardinality(Late) - Cardinality(Early \intersect Late)
      BY <1>2, FS_Union
    <2> QED
      BY <2>1, <2>2, <2>3
  <1>4. Early \union Late \subseteq Senders
    BY <1>1
  <1>5. Cardinality(Early \union Late) <= Crowd
    BY <1>2, <1>4, FS_Subset DEF Crowd
  <1>6. ASSUME NEW s \in Senders, s \notin Early \union Late
        PROVE  Cardinality(Early \union Late) < Crowd
    <2>1. Early \union Late # Senders
      BY <1>6
    <2>2. Cardinality(Early \union Late) # Cardinality(Senders)
      BY <1>2, <1>4, <2>1, FS_Subset
    <2> QED
      BY <1>2, <1>3, <1>5, <2>2, CrowdNat DEF Crowd
  <1> QED
    BY <1>2, <1>3, <1>5, <1>6

\* What the step of one request does to the two sets.
LEMMA SenderMoves ==
    ASSUME MailTypeOK, NEW s \in Senders, NEW x, sender' = [sender EXCEPT ![s] = x]
    PROVE  /\ Early' = (Early \ {s}) \union (IF x.step \in Unsent /\ x.first THEN {s} ELSE {})
           /\ Late' = (Late \ {s}) \union (IF x.step \in Unsent /\ ~x.first THEN {s} ELSE {})
  <1>1. sender'[s] = x /\ \A q \in Senders \ {s} : sender'[q] = sender[q]
    BY DEF MailTypeOK
  <1>2. \A q : /\ q \in Early <=> q \in Senders /\ sender[q].step \in Unsent /\ sender[q].first
               /\ q \in Late <=> q \in Senders /\ sender[q].step \in Unsent /\ ~sender[q].first
    BY DEF Early, Late
  <1>3. \A q : /\ q \in Early' <=> q \in Senders /\ sender'[q].step \in Unsent /\ sender'[q].first
               /\ q \in Late' <=> q \in Senders /\ sender'[q].step \in Unsent /\ ~sender'[q].first
    BY DEF Early, Late, Unsent
  <1> QED
    BY <1>1, <1>2, <1>3

LEMMA Leaving ==
    ASSUME NEW S, IsFiniteSet(S), NEW s
    PROVE  Cardinality(S \ {s}) = IF s \in S THEN Cardinality(S) - 1 ELSE Cardinality(S)
  BY FS_RemoveElement

\* A request that is not to count, or no longer.
LEMMA SenderQuits ==
    ASSUME MailTypeOK, MailCount, NEW s \in Senders, NEW x, x.step \notin Unsent,
           sender' = [sender EXCEPT ![s] = x], lately' = lately, hour' = hour
    PROVE  MailCount'
  <1> DEFINE f == Cardinality(Early)
             g == Cardinality(Late)
  <1>1. Early' = Early \ {s} /\ Late' = Late \ {s}
    BY SenderMoves
  <1>2. /\ f \in Nat /\ g \in Nat /\ f + g <= Crowd /\ lately \in Nat /\ hour.count \in Nat
        /\ Fits(lately, hour.count, f, g)
    BY EarlyLate DEF MailTypeOK, MailCount
  <1>3. /\ Cardinality(Early)' = IF s \in Early THEN f - 1 ELSE f
        /\ Cardinality(Late)' = IF s \in Late THEN g - 1 ELSE g
    BY <1>1, Leaving, EarlyLate
  <1>4. Early \intersect Late = {}
    BY DEF Early, Late
  <1>5. (s \in Early => f > 0) /\ (s \in Late => g > 0)
    BY EarlyLate, FS_EmptySet
  <1> HIDE DEF f, g
  <1>6. Fits(lately, hour.count, Cardinality(Early)', Cardinality(Late)')
    <2>1. CASE s \in Early
      BY <1>2, <1>3, <1>4, <1>5, <2>1, FitsFewer
    <2>2. CASE s \in Late
      <3>1. g - 1 \in 0 .. g
        BY <1>2, <1>5, <2>2
      <3> QED
        BY <1>2, <1>3, <1>4, <2>2, <3>1, FitsLess
    <2>3. CASE s \notin Early \union Late
      BY <1>2, <1>3, <2>3
    <2> QED
      BY <2>1, <2>2, <2>3
  <1>7. Fits(lately, hour.count, Cardinality(Early)', Cardinality(Late)')
            = Fits(lately', hour'.count, Cardinality(Early'), Cardinality(Late'))
    OBVIOUS
  <1> QED
    BY <1>6, <1>7 DEF MailCount, Fits, MailsToCome, MailBudget, Crowd

\* The sets and the keys stay: so does the count.
LEMMA MailCountFrame ==
    ASSUME MailCount, Early' = Early, Late' = Late, lately' = lately, hour' = hour
    PROVE  MailCount'
  BY DEF MailCount, Fits, MailsToCome, MailBudget, Crowd

\* A request reads that it may count one more.
LEMMA ReadHourCounted ==
    ASSUME MailTypeOK, MailCount, NEW s \in Senders, ReadHour(s)
    PROVE  MailCount'
  <1> DEFINE f == Cardinality(Early)
             g == Cardinality(Late)
             x == [step |-> "code", first |-> hour.count = 0]
  <1>1. UNCHANGED <<lately, hour>> /\ sender[s].step = "hour"
    BY DEF ReadHour, codeVars
  <1>2. CASE hour.count >= HourLimit
    BY <1>1, <1>2, SenderQuits DEF ReadHour, Quits, NoSender, Unsent
  <1>3. CASE ~(hour.count >= HourLimit)
    <2>1. sender' = [sender EXCEPT ![s] = x]
      BY <1>3 DEF ReadHour
    <2>2. s \notin Early \union Late
      BY <1>1 DEF Early, Late, Unsent
    <2>3. x.step \in Unsent /\ (x.first <=> hour.count = 0)
      BY DEF Unsent
    <2>4. /\ f \in Nat /\ g \in Nat /\ f + g < Crowd /\ lately \in Nat /\ hour.count \in Nat
          /\ Fits(lately, hour.count, f, g)
      BY <2>2, EarlyLate DEF MailTypeOK, MailCount
    <2> HIDE DEF x
    <2>5. /\ Early' = IF hour.count = 0 THEN Early \union {s} ELSE Early
          /\ Late' = IF hour.count = 0 THEN Late ELSE Late \union {s}
      <3>1. /\ Early' = (Early \ {s}) \union (IF x.step \in Unsent /\ x.first THEN {s} ELSE {})
            /\ Late' = (Late \ {s}) \union (IF x.step \in Unsent /\ ~x.first THEN {s} ELSE {})
        BY <2>1, SenderMoves
      <3> QED
        BY <2>2, <2>3, <3>1
    <2>6. CASE hour.count = 0
      BY <1>1, <2>4, <2>6 DEF MailCount, Fits
    <2>7. CASE hour.count # 0
      <3>1. Early' = Early /\ Cardinality(Late') = g + 1
        BY <2>2, <2>5, <2>7, EarlyLate, FS_AddElement
      <3>2. Fits(lately, hour.count, f, g + 1)
        <4> HIDE DEF f, g
        <4> QED
          BY <1>3, <2>4, <2>7, FitsMore, CrowdNat
      <3>3. hour'.count = hour.count /\ lately' = lately
        BY <1>1
      <3> QED
        BY <3>1, <3>2, <3>3 DEF MailCount, Fits, MailsToCome, MailBudget, Crowd
    <2> QED
      BY <2>6, <2>7
  <1> QED
    BY <1>2, <1>3

\* A request writes the code or the minute's key and goes on to the next call.
LEMMA StoreCounted ==
    ASSUME MailTypeOK, MailCount, NEW s \in Senders, StoreCode(s) \/ StoreMinute(s)
    PROVE  MailCount'
  <1>1. PICK step \in {"minute", "count"} : sender' = [sender EXCEPT ![s].step = step]
    BY DEF StoreCode, StoreMinute, To
  <1> DEFINE x == [sender[s] EXCEPT !.step = step]
  <1>2. sender' = [sender EXCEPT ![s] = x] /\ sender[s].step \in Unsent
    BY <1>1 DEF StoreCode, StoreMinute, MailTypeOK, Unsent
  <1>3. x.step \in Unsent /\ x.first = sender[s].first
    <2>1. sender[s] \in Counting
      BY <1>2 DEF MailTypeOK, Counting, Unsent
    <2> QED
      BY <2>1 DEF Counting, Unsent
  <1> HIDE DEF x
  <1>4. s \in (IF x.first THEN Early ELSE Late)
    BY <1>2, <1>3 DEF Early, Late
  <1>5. Early \intersect Late = {}
    BY DEF Early, Late
  <1>6. Early' = Early /\ Late' = Late
    <2>1. /\ Early' = (Early \ {s}) \union (IF x.step \in Unsent /\ x.first THEN {s} ELSE {})
          /\ Late' = (Late \ {s}) \union (IF x.step \in Unsent /\ ~x.first THEN {s} ELSE {})
      BY <1>2, SenderMoves
    <2> QED
      BY <1>3, <1>4, <1>5, <2>1
  <1>7. UNCHANGED <<lately, hour>>
    BY DEF StoreCode, StoreMinute
  <1> QED
    BY <1>6, <1>7, MailCountFrame

\* A request counts its mail.
LEMMA CountHourCounted ==
    ASSUME MailTypeOK, MailCount, NEW s \in Senders, CountHour(s)
    PROVE  MailCount'
  <1> DEFINE f == Cardinality(Early)
             g == Cardinality(Late)
             x == [sender[s] EXCEPT !.step = "lock"]
  <1>1. sender' = [sender EXCEPT ![s] = x] /\ sender[s].step = "count" /\ lately' = lately + 1
    BY DEF CountHour, To, MailTypeOK
  <1>2. sender[s] \in Counting
    BY <1>1 DEF MailTypeOK, Counting
  <1>3. x.step = "lock"
    BY <1>2 DEF Counting
  <1> HIDE DEF x
  <1>4. Early' = Early \ {s} /\ Late' = Late \ {s}
    BY <1>1, <1>3, SenderMoves DEF Unsent
  <1>5. Early \intersect Late = {} /\ (s \in Early <=> sender[s].first) /\ s \in Early \union Late
    BY <1>1 DEF Early, Late, Unsent
  <1>6. /\ f \in Nat /\ g \in Nat /\ f + g <= Crowd /\ lately \in Nat /\ hour.count \in Nat
        /\ Fits(lately, hour.count, f, g)
    BY EarlyLate DEF MailTypeOK, MailCount
  <1>7. /\ Cardinality(Early') = IF s \in Early THEN f - 1 ELSE f
        /\ Cardinality(Late') = IF s \in Late THEN g - 1 ELSE g
    BY <1>4, Leaving, EarlyLate
  <1>8. (s \in Early => f > 0) /\ (s \in Late => g > 0)
    BY EarlyLate, FS_EmptySet
  <1> HIDE DEF f, g
  <1>9. Fits(lately', hour'.count, Cardinality(Early'), Cardinality(Late'))
    <2>1. CASE sender[s].first
      <3>1. hour'.count = 1
        BY <2>1 DEF CountHour
      <3>2. Fits(lately + 1, 1, f - 1, g)
        BY <1>5, <1>6, <1>8, <2>1, FitsSet
      <3>3. Cardinality(Early') = f - 1 /\ Cardinality(Late') = g
        BY <1>5, <1>7, <2>1
      <3> QED
        BY <1>1, <3>1, <3>2, <3>3
    <2>2. CASE ~sender[s].first
      <3>1. hour'.count = hour.count + 1
        BY <2>2 DEF CountHour
      <3>2. Fits(lately + 1, hour.count + 1, f, g - 1)
        BY <1>5, <1>6, <1>8, <2>2, FitsIncrement
      <3>3. Cardinality(Early') = f /\ Cardinality(Late') = g - 1
        BY <1>5, <1>7, <2>2
      <3> QED
        BY <1>1, <3>1, <3>2, <3>3
    <2> QED
      BY <2>1, <2>2
  <1> QED
    BY <1>9 DEF MailCount, Fits, MailsToCome, MailBudget, Crowd

\* Every step of the part keeps to the budget.
LEMMA MailCountStep == MailInv /\ MailCount /\ [MailNext]_mailVars => MailCount'
  <1> SUFFICES ASSUME MailTypeOK, MailCount, [MailNext]_mailVars PROVE MailCount'
    BY DEF MailInv
  <1>1. ASSUME NEW s \in Senders, ReadMinute(s) PROVE MailCount'
    <2>1. [step |-> "hour"].step \notin Unsent
      BY DEF Unsent
    <2> QED
      BY <1>1, <2>1, SenderQuits DEF ReadMinute, codeVars
  <1>2. ASSUME NEW s \in Senders, SenderFails(s) PROVE MailCount'
    BY <1>2, SenderQuits DEF SenderFails, Quits, NoSender, Unsent, codeVars
  <1>3. ASSUME NEW s \in Senders, TakeLock(s) \/ Connect(s) \/ Transmit(s) PROVE MailCount'
    <2>1. UNCHANGED <<lately, hour>> /\ sender[s].step \in {"lock", "connect", "transmit"}
      BY <1>3 DEF TakeLock, Connect, Transmit, codeVars
    <2>2. sender[s] \in Counting
      BY <2>1 DEF MailTypeOK, Counting
    <2>3. CASE Quits(s)
      BY <2>1, <2>3, SenderQuits DEF Quits, NoSender, Unsent
    <2>4. ASSUME NEW step \in {"connect", "transmit"}, To(s, step) PROVE MailCount'
      <3> DEFINE x == [sender[s] EXCEPT !.step = step]
      <3>1. sender' = [sender EXCEPT ![s] = x] /\ x.step \notin Unsent
        BY <2>2, <2>4 DEF To, MailTypeOK, Counting, Unsent
      <3> HIDE DEF x
      <3> QED
        BY <2>1, <3>1, SenderQuits
    <2> QED
      BY <1>3, <2>3, <2>4 DEF TakeLock, Connect, Transmit
  <1>4. CASE HourExpires
    <2>1. hour'.count = 0 /\ lately' = 0
      BY <1>4 DEF HourExpires, NoHour
    <2> QED
      BY <2>1 DEF MailCount, Fits
  <1>5. CASE MailRestart
    <2>1. UNCHANGED <<lately, hour>> /\ \A s \in Senders : sender'[s].step \notin Unsent
      BY <1>5 DEF MailRestart, codeVars, NoSender, Unsent
    <2>2. Early' = {} /\ Late' = {}
      BY <2>1 DEF Early, Late, Unsent
    <2>3. Fits(lately, hour.count, 0, 0)
      BY EarlyLate, FitsNone DEF MailTypeOK, MailCount
    <2>4. Cardinality(Early') = 0 /\ Cardinality(Late') = 0
      BY <2>2, FS_EmptySet
    <2>5. Fits(lately', hour'.count, Cardinality(Early'), Cardinality(Late'))
      BY <2>1, <2>3, <2>4
    <2> QED
      BY <2>5 DEF MailCount, Fits, MailsToCome, MailBudget, Crowd
  <1>6. CASE UNCHANGED <<sender, lately, hour>>
    <2>1. Early' = Early /\ Late' = Late
      BY <1>6 DEF Early, Late, Unsent
    <2> QED
      BY <1>6, <2>1, MailCountFrame
  <1>7. CASE VerifyCode \/ CodeExpires \/ MinuteExpires \/ TimerWakes \/ TimerLocks
             \/ TimerCloses \/ ServerLeaves \/ UNCHANGED mailVars
    BY <1>6, <1>7 DEF VerifyCode, CodeExpires, MinuteExpires, TimerWakes, TimerLocks,
       TimerCloses, ServerLeaves, mailVars, codeVars
  <1> QED
    BY <1>1, <1>2, <1>3, <1>4, <1>5, <1>7, ReadHourCounted, StoreCounted, CountHourCounted
       DEF MailNext

LEMMA MailCountInit == MailInit => MailCount
  BY DEF MailInit, MailCount, Fits, NoHour

\* What is counted and what is still to come are within the bound together.
LEMMA MailCountBounds == MailInv /\ MailCount => MailsBounded
  <1> SUFFICES ASSUME MailInv, MailCount PROVE 2 * lately <= MailBudget
    BY DEF MailsBounded, MailBudget, Crowd
  <1>1. lately \in Nat /\ hour.count \in Nat
    BY DEF MailInv, MailTypeOK
  <1> QED
    BY <1>1, EarlyLate, FitsBudget DEF MailCount

\* Between two expiries of the hour's key an address gets no more mails than the
\* bound, for any number of requests and any limit.
THEOREM MailsAreBounded == MailSpec => []MailsBounded
  BY MailInvariant, MailCountInit, MailCountStep, MailCountBounds, PTL DEF MailSpec

-----------------------------------------------------------------------------
(* Sms *)

\* No code is guessed more often than its tries say: the key of the tries goes
\* with the code or after it, never before.
GuessesCounted ==
    /\ guesses <= tries
    /\ ~sent => guesses = 0

Comparing == {g \in Guessers : guesser[g] = "compare"}

\* While the number is locked, every login that is still to compare has been let
\* in before; the one that locked it is not among them.
LateCounted ==
    IF locked THEN late + Cardinality(Comparing) < Cardinality(Guessers) ELSE late = 0

SmsInv == SmsTypeOK /\ GuessesCounted /\ LateCounted

LEMMA ComparingFinite == IsFiniteSet(Comparing) /\ Cardinality(Comparing) \in Nat
    /\ Cardinality(Guessers) \in Nat
  BY SmsConstants, FS_Subset, FS_CardinalityType DEF Comparing

\* A login that stops comparing, or never did, leaves no more of them.
LEMMA FewerCompare ==
    ASSUME NEW g \in Guessers, SmsTypeOK, NEW step \in {"idle", "fail", "lock", "clear"},
           guesser' = [guesser EXCEPT ![g] = step]
    PROVE  /\ Comparing' = Comparing \ {g}
           /\ Cardinality(Comparing') \in Nat
           /\ Cardinality(Comparing') =
                 IF guesser[g] = "compare" THEN Cardinality(Comparing) - 1
                 ELSE Cardinality(Comparing)
  <1>1. Comparing' = Comparing \ {g}
    BY DEF Comparing, SmsTypeOK
  <1>2. g \in Comparing <=> guesser[g] = "compare"
    BY DEF Comparing
  <1> QED
    BY <1>1, <1>2, ComparingFinite, FS_RemoveElement, FS_CardinalityType, FS_Subset

\* While one login is not comparing, not all of them are.
LEMMA NotAllCompare ==
    ASSUME NEW g \in Guessers, guesser[g] # "compare"
    PROVE  Cardinality(Comparing) < Cardinality(Guessers)
  <1>1. Comparing \subseteq Guessers /\ Comparing # Guessers
    BY DEF Comparing
  <1> QED
    BY <1>1, SmsConstants, FS_Subset, FS_CardinalityType

LEMMA SmsInvInit == SmsInit => SmsInv
  <1> SUFFICES ASSUME SmsInit PROVE SmsInv
    OBVIOUS
  <1>1. NoAsker \in [step : {"idle", "rate", "drop", "send", "cache"}, provider : 1 .. Providers]
    BY SmsConstants DEF NoAsker
  <1>2. sent \in BOOLEAN /\ rate \in BOOLEAN /\ locked \in BOOLEAN
    BY DEF SmsInit
  <1>3. SmsTypeOK
    BY <1>1, <1>2, SmsConstants DEF SmsInit, SmsTypeOK
  <1>4. GuessesCounted /\ LateCounted
    BY DEF SmsInit, GuessesCounted, LateCounted
  <1> QED
    BY <1>3, <1>4 DEF SmsInv

\* What a request for a code may be doing.
AskerTypes == [step : {"idle", "rate", "drop", "send", "cache"}, provider : 1 .. Providers]

\* The steps of requests for a code: no login is touched.
LEMMA AskerStep ==
    ASSUME SmsInv, NEW a \in Askers,
           \/ AskForCode(a) \/ CheckRate(a) \/ DropCode(a) \/ SendText(a)
           \/ CacheCode(a) \/ NextProvider(a)
    PROVE  SmsInv'
  <1>1. asker \in [Askers -> AskerTypes] /\ asker[a] \in AskerTypes
    BY DEF SmsInv, SmsTypeOK, AskerTypes
  <1>2. NoAsker \in AskerTypes
    BY SmsConstants DEF AskerTypes, NoAsker
  <1>3. \A step \in {"idle", "rate", "drop", "send", "cache"} :
            [asker[a] EXCEPT !.step = step] \in AskerTypes
    BY <1>1 DEF AskerTypes
  <1>4. asker[a].provider < Providers
            => [step |-> "rate", provider |-> asker[a].provider + 1] \in AskerTypes
    BY <1>1, SmsConstants DEF AskerTypes
  <1>5. asker' \in [Askers -> AskerTypes]
    <2>1. CASE AskForCode(a)
      BY <1>1, <1>3, <2>1 DEF AskForCode, AskerTo
    <2>2. CASE CheckRate(a)
      BY <1>1, <1>2, <1>3, <2>2 DEF CheckRate
    <2>3. CASE DropCode(a)
      BY <1>1, <1>3, <2>3 DEF DropCode, AskerTo
    <2>4. CASE SendText(a)
      BY <1>1, <1>2, <1>3, <2>4 DEF SendText, AskerTo
    <2>5. CASE CacheCode(a)
      BY <1>1, <1>2, <2>5 DEF CacheCode
    <2>6. CASE NextProvider(a)
      BY <1>1, <1>2, <1>4, <2>6 DEF NextProvider
    <2> QED
      BY <2>1, <2>2, <2>3, <2>4, <2>5, <2>6
  <1>6. /\ UNCHANGED <<fails, locked, guesser, late>>
        /\ sent' \in BOOLEAN /\ rate' \in BOOLEAN
        /\ tries' \in {tries, 0} /\ guesses' \in {guesses, 0}
        /\ guesses' = 0 \/ (guesses' = guesses /\ tries' = tries)
        /\ ~sent' => guesses' = 0
    <2>1. CASE AskForCode(a) \/ CheckRate(a) \/ SendText(a) \/ NextProvider(a)
      <3>1. UNCHANGED <<sent, tries, rate, fails, locked, guesser, guesses, late>>
        BY <2>1 DEF AskForCode, CheckRate, SendText, NextProvider, smsKeys
      <3> QED
        BY <3>1 DEF SmsInv, SmsTypeOK, GuessesCounted
    <2>2. CASE DropCode(a)
      <3>1. sent' \in BOOLEAN /\ guesses' = 0 /\ UNCHANGED <<tries, rate, fails, locked, guesser, late>>
        BY <2>2 DEF DropCode
      <3> QED
        BY <3>1 DEF SmsInv, SmsTypeOK
    <2>3. CASE CacheCode(a)
      <3>1. /\ sent' = TRUE /\ rate' = TRUE /\ tries' = 0 /\ guesses' = 0
            /\ UNCHANGED <<fails, locked, guesser, late>>
        BY <2>3 DEF CacheCode
      <3>2. sent' \in BOOLEAN /\ rate' \in BOOLEAN
        BY <3>1, Zenon
      <3>3. UNCHANGED <<fails, locked, guesser, late>>
        BY <3>1
      <3>4. tries' \in {tries, 0} /\ guesses' \in {guesses, 0}
        BY <3>1
      <3>5. guesses' = 0 \/ (guesses' = guesses /\ tries' = tries)
        BY <3>1
      <3>6. ~sent' => guesses' = 0
        BY <3>1
      <3> QED
        BY <3>2, <3>3, <3>4, <3>5, <3>6, Zenon
    <2> QED
      BY <2>1, <2>2, <2>3
  <1>7. Comparing' = Comparing
    BY <1>6 DEF Comparing
  <1>8. SmsTypeOK'
    BY <1>5, <1>6, SmsConstants DEF AskerTypes, SmsInv, SmsTypeOK
  <1>9. GuessesCounted'
    BY <1>6 DEF SmsInv, SmsTypeOK, GuessesCounted
  <1>10. LateCounted'
    BY <1>6, <1>7 DEF SmsInv, LateCounted
  <1> QED
    BY <1>8, <1>9, <1>10 DEF SmsInv

\* The steps of a login.
LEMMA GuesserStep ==
    ASSUME SmsInv, NEW g \in Guessers,
           \/ CheckLockout(g) \/ (\E right \in BOOLEAN : CompareCode(g, right))
           \/ CountFailure(g) \/ LockNumber(g) \/ ClearFailures(g) \/ GuesserFails(g)
    PROVE  SmsInv'
  <1> USE SmsConstants, ComparingFinite DEF SmsInv
  <1>1. CASE CheckLockout(g)
    <2>1. /\ ~locked /\ UNCHANGED <<sent, tries, rate, fails, locked, asker, guesses, late>>
          /\ guesser' = [guesser EXCEPT ![g] = "compare"]
      BY <1>1 DEF CheckLockout, GuesserTo, smsKeys
    <2>2. SmsTypeOK'
      BY <2>1 DEF SmsTypeOK
    <2>3. GuessesCounted' /\ LateCounted'
      BY <2>1 DEF GuessesCounted, LateCounted
    <2> QED
      BY <2>2, <2>3
  <1>2. CASE \E right \in BOOLEAN : CompareCode(g, right)
    <2> PICK right \in BOOLEAN : CompareCode(g, right)
      BY <1>2
    <2>1. guesser[g] = "compare" /\ UNCHANGED <<rate, fails, locked, asker>>
      BY DEF CompareCode
    <2>2. CASE ~sent \/ tries >= MaxTries
      <3>1. /\ tries' \in {0, tries} /\ sent' = FALSE /\ guesses' = 0 /\ late' = late
            /\ guesser' = [guesser EXCEPT ![g] = "fail"]
        BY <2>2 DEF CompareCode, GuesserTo
      <3>2. SmsTypeOK'
        <4>1. sent' \in BOOLEAN
          BY <3>1, Zenon
        <4>2. tries' \in 0 .. MaxTries /\ guesses' \in Nat /\ late' \in Nat
          BY <3>1 DEF SmsTypeOK
        <4> QED
          BY <2>1, <3>1, <4>1, <4>2 DEF SmsTypeOK
      <3>3. GuessesCounted'
        BY <3>1 DEF GuessesCounted, SmsTypeOK
      <3>4. LateCounted'
        <4>1. Cardinality(Comparing') = Cardinality(Comparing) - 1
          BY <2>1, <3>1, FewerCompare
        <4> QED
          BY <2>1, <3>1, <4>1 DEF LateCounted, SmsTypeOK
      <3> QED
        BY <3>2, <3>3, <3>4
    <2>3. CASE ~(~sent \/ tries >= MaxTries)
      <3>1. /\ Compared(right)
            /\ guesser' = [guesser EXCEPT ![g] = IF right THEN "clear" ELSE "fail"]
        BY <2>3 DEF CompareCode, GuesserTo
      <3>2. SmsTypeOK'
        <4>1. sent' \in BOOLEAN
          BY <3>1 DEF Compared
        <4>2. tries' \in 0 .. MaxTries /\ guesses' \in Nat /\ late' \in Nat
          <5>1. CASE right
            BY <2>3, <3>1, <5>1 DEF Compared, SmsTypeOK
          <5>2. CASE ~right
            <6>1. tries' = tries + 1 /\ guesses' = guesses + 1 /\ tries < MaxTries
              BY <2>3, <3>1, <5>2 DEF Compared, SmsTypeOK
            <6>2. late' \in {late, late + 1}
              BY <3>1 DEF Compared
            <6> QED
              BY <6>1, <6>2 DEF SmsTypeOK
          <5> QED
            BY <5>1, <5>2
        <4> QED
          BY <2>1, <3>1, <4>1, <4>2 DEF SmsTypeOK
      <3>3. GuessesCounted'
        BY <2>3, <3>1 DEF Compared, GuessesCounted, SmsTypeOK
      <3>4. LateCounted'
        <4>1. Cardinality(Comparing') = Cardinality(Comparing) - 1
          BY <2>1, <3>1, FewerCompare
        <4> QED
          BY <2>1, <3>1, <4>1 DEF Compared, LateCounted, SmsTypeOK
      <3> QED
        BY <3>2, <3>3, <3>4
    <2> QED
      BY <2>2, <2>3
  <1>3. CASE CountFailure(g)
    <2>1. /\ fails' \in 0 .. MaxFails
          /\ UNCHANGED <<sent, tries, rate, locked, asker, guesses, late>>
          /\ guesser[g] # "compare"
      BY <1>3 DEF CountFailure, SmsTypeOK
    <2>2. PICK step \in {"lock", "idle"} : guesser' = [guesser EXCEPT ![g] = step]
      BY <1>3 DEF CountFailure, GuesserTo
    <2>3. Cardinality(Comparing') = Cardinality(Comparing)
      BY <2>1, <2>2, FewerCompare
    <2>4. SmsTypeOK'
      BY <2>1, <2>2 DEF SmsTypeOK
    <2>5. GuessesCounted' /\ LateCounted'
      BY <2>1, <2>3 DEF GuessesCounted, LateCounted
    <2> QED
      BY <2>4, <2>5
  <1>4. CASE LockNumber(g)
    <2>1. /\ guesser[g] # "compare" /\ locked' = TRUE /\ fails' = 0
          /\ late' = IF locked THEN late ELSE 0
          /\ guesser' = [guesser EXCEPT ![g] = "idle"]
          /\ UNCHANGED <<sent, tries, rate, asker, guesses>>
      BY <1>4 DEF LockNumber, GuesserTo
    <2>2. Cardinality(Comparing') = Cardinality(Comparing)
      BY <2>1, FewerCompare
    <2>3. Cardinality(Comparing) < Cardinality(Guessers)
      BY <2>1, NotAllCompare
    <2>4. SmsTypeOK'
      BY <2>1 DEF SmsTypeOK
    <2>5. GuessesCounted' /\ LateCounted'
      BY <2>1, <2>2, <2>3 DEF GuessesCounted, LateCounted, SmsTypeOK
    <2> QED
      BY <2>4, <2>5
  <1>5. CASE ClearFailures(g) \/ GuesserFails(g)
    <2>1. /\ guesser' = [guesser EXCEPT ![g] = "idle"] /\ fails' \in 0 .. MaxFails
          /\ UNCHANGED <<sent, tries, rate, locked, asker, guesses, late>>
      BY <1>5 DEF ClearFailures, GuesserFails, GuesserTo, smsKeys, SmsTypeOK
    <2>2. Cardinality(Comparing') <= Cardinality(Comparing) /\ Cardinality(Comparing') \in Nat
      <3>1. /\ Cardinality(Comparing') \in Nat
            /\ Cardinality(Comparing') = IF guesser[g] = "compare"
                  THEN Cardinality(Comparing) - 1 ELSE Cardinality(Comparing)
        BY <2>1, FewerCompare
      <3> QED
        BY <3>1
    <2>3. SmsTypeOK'
      BY <2>1 DEF SmsTypeOK
    <2>4. GuessesCounted' /\ LateCounted'
      BY <2>1, <2>2 DEF GuessesCounted, LateCounted, SmsTypeOK
    <2> QED
      BY <2>3, <2>4
  <1> QED
    BY <1>1, <1>2, <1>3, <1>4, <1>5

LEMMA SmsInvStep == SmsInv /\ [SmsNext]_smsVars => SmsInv'
  <1> SUFFICES ASSUME SmsInv, [SmsNext]_smsVars PROVE SmsInv'
    OBVIOUS
  <1> USE SmsConstants DEF SmsInv
  <1>1. UNCHANGED guesser => Comparing' = Comparing
    BY DEF Comparing
  <1>2. CASE CodeDies
    <2>1. /\ sent' \in BOOLEAN /\ guesses' = 0
          /\ UNCHANGED <<tries, rate, fails, locked, asker, guesser, late>>
      BY <1>2 DEF CodeDies
    <2> QED
      BY <1>1, <2>1 DEF SmsTypeOK, GuessesCounted, LateCounted
  <1>3. CASE TriesDie
    BY <1>1, <1>3 DEF TriesDie, SmsTypeOK, GuessesCounted, LateCounted
  <1>4. CASE RateDies
    BY <1>1, <1>4 DEF RateDies, SmsTypeOK, GuessesCounted, LateCounted
  <1>5. CASE FailsDie
    BY <1>1, <1>5 DEF FailsDie, SmsTypeOK, GuessesCounted, LateCounted
  <1>6. CASE LockoutDies
    BY <1>6 DEF LockoutDies, SmsTypeOK, GuessesCounted, LateCounted
  <1>7. CASE UNCHANGED smsVars
    BY <1>1, <1>7 DEF smsVars, smsKeys, SmsTypeOK, GuessesCounted, LateCounted
  <1> QED
    BY <1>2, <1>3, <1>4, <1>5, <1>6, <1>7, AskerStep, GuesserStep DEF SmsNext

\* The invariant holds in every reachable state.
THEOREM SmsInvariant == SmsSpec => []SmsInv
  BY SmsInvInit, SmsInvStep, PTL DEF SmsSpec

\* The variables keep their types, for any limits and any number of requests.
THEOREM SmsTypeCorrect == SmsSpec => []SmsTypeOK
  BY SmsInvariant, PTL DEF SmsInv

\* Both bounds follow from what is counted.
LEMMA SmsInvBounds == SmsInv => GuessesBounded /\ LateGuesses
  <1> SUFFICES ASSUME SmsInv PROVE guesses <= MaxTries /\ late < Cardinality(Guessers)
    BY DEF GuessesBounded, LateGuesses
  <1>1. guesses <= MaxTries
    BY SmsConstants DEF SmsInv, SmsTypeOK, GuessesCounted
  <1>2. Cardinality(Guessers) > 0
    BY SmsConstants, FS_EmptySet, FS_CardinalityType
  <1>3. late < Cardinality(Guessers)
    BY <1>2, ComparingFinite DEF SmsInv, SmsTypeOK, LateCounted
  <1> QED
    BY <1>1, <1>3

\* No code is compared with more guesses than there are tries, for any number of
\* logins and requests.
THEOREM GuessesAreBounded == SmsSpec => []GuessesBounded
  BY SmsInvBounds, SmsInvariant, PTL

\* Once a number is locked, fewer guesses are compared than logins are under way.
THEOREM LateGuessesAreBounded == SmsSpec => []LateGuesses
  BY SmsInvBounds, SmsInvariant, PTL

-----------------------------------------------------------------------------
(* Bootstrap *)

UpTo == {"config", "activationMail", "policy"}
Grouped == {"config", "activationMail", "policy", "adminGroup", "memberGroup", "guestGroup"}

Mailed == {"config", "activationMail"}

Needed ==
    [config |-> {}, activationMail |-> {"config"}, resetMail |-> Mailed,
     policy |-> Mailed, adminGroup |-> UpTo,
     adminLink |-> UpTo \union {"adminGroup"}, memberGroup |-> UpTo \union {"adminGroup"},
     memberLink |-> UpTo \union {"adminGroup", "memberGroup"},
     defaultGroup |-> UpTo \union {"adminGroup", "memberGroup"},
     guestGroup |-> UpTo \union {"adminGroup", "memberGroup"},
     admin |-> Grouped, adminId |-> Grouped \union {"admin"},
     root |-> Grouped \union {"adminId"}, theme |-> Grouped \union {"adminId"},
     someApps |-> Grouped \union {"adminId", "theme"}, allApps |-> Basics]

\* A start-up under way has what it has passed.
Underway == phase \in Rows => Needed[phase] \subseteq done

\* The row whose absence makes a start-up create another one, besides those it
\* looks for themselves.
Leader == [resetMail |-> "activationMail", adminLink |-> "adminGroup",
           memberLink |-> "memberGroup", defaultGroup |-> "memberGroup",
           admin |-> "adminId", root |-> "adminId", allApps |-> "someApps"]

\* A row is there with its leader, is about to be created, or has been lost.  There
\* is a mail template at all times from the first on.
Accompanied ==
    /\ \A r \in DOMAIN Leader : Leader[r] \in done => r \in done \union lost \union Remaining
    /\ "resetMail" \in done => "activationMail" \in done

BootInv == BootTypeOK /\ Underway /\ Accompanied

\* Every step that is looked for or created leads to a step or to serving.
LEMMA Steps ==
    /\ Rows = {"config", "activationMail", "resetMail", "policy", "adminGroup", "adminLink",
               "memberGroup", "memberLink", "defaultGroup", "guestGroup", "admin", "adminId",
               "root", "theme", "someApps", "allApps"}
    /\ DOMAIN LookedFor \subseteq Rows
    /\ \A x \in Rows : After[x] \in Rows \union {"serving"}
    /\ \A x \in DOMAIN LookedFor : LookedFor[x] \in Rows \union {"serving"}
    /\ {"serving", "down", "failed"} \intersect Rows = {}
  BY DEF Rows, After, LookedFor

\* What goes along with a row is created right after it.
LEMMA Following ==
    /\ DOMAIN Along \subseteq Rows \ (DOMAIN LookedFor \union {"admin"})
    /\ \A x \in DOMAIN Along : Along[x] \subseteq Rows
    /\ DOMAIN Leader \union Basics = Rows
    /\ \A r \in DOMAIN Leader : Leader[r] \in Basics
    /\ \A x \in DOMAIN Along : Along[x] \ {x} # {} =>
          After[x] \in DOMAIN Along /\ Along[x] \ {x} \subseteq Along[After[x]]
    /\ \A r \in DOMAIN Leader \ {"admin"} :
          After[Leader[r]] \in DOMAIN Along /\ r \in Along[After[Leader[r]]]
  <1>1. DOMAIN Along = {"resetMail", "adminLink", "memberLink", "defaultGroup", "adminId", "root",
                        "allApps"}
    BY DEF Along
  <1>2. DOMAIN Leader = {"resetMail", "adminLink", "memberLink", "defaultGroup", "admin", "root",
                         "allApps"}
    BY DEF Leader
  <1>3. DOMAIN LookedFor = {"config", "activationMail", "policy", "adminGroup", "memberGroup",
                            "guestGroup", "theme", "someApps"}
    BY DEF LookedFor
  <1>4. DOMAIN Along \subseteq Rows \ (DOMAIN LookedFor \union {"admin"})
    BY <1>1, <1>3, Steps
  <1>5. \A x \in DOMAIN Along : Along[x] \subseteq Rows
    BY Steps DEF Along
  <1>6. DOMAIN Leader \union Basics = Rows /\ \A r \in DOMAIN Leader : Leader[r] \in Basics
    <2>1. \A r \in DOMAIN Leader : Leader[r] \in DOMAIN LookedFor \union {"adminId"}
      BY <1>3 DEF Leader
    <2> QED
      BY <1>2, <1>3, <2>1, Steps DEF Basics
  <1>7. \A x \in DOMAIN Along : Along[x] \ {x} # {} =>
          After[x] \in DOMAIN Along /\ Along[x] \ {x} \subseteq Along[After[x]]
    BY DEF Along, After
  <1>8. \A r \in DOMAIN Leader \ {"admin"} :
          After[Leader[r]] \in DOMAIN Along /\ r \in Along[After[Leader[r]]]
    BY DEF Along, After, Leader
  <1> QED
    BY <1>4, <1>5, <1>6, <1>7, <1>8

\* Finding a row, or creating one, brings a start-up as far as its next step needs.
LEMMA Found_Needed ==
    ASSUME phase \in DOMAIN LookedFor, Found(phase), Needed[phase] \subseteq done,
           "resetMail" \in done => "activationMail" \in done
    PROVE  /\ LookedFor[phase] \in Rows => Needed[LookedFor[phase]] \subseteq done
           /\ LookedFor[phase] = "serving" => Basics \subseteq done
  <1>1. phase \in {"config", "activationMail", "policy", "adminGroup", "memberGroup",
                  "guestGroup", "theme", "someApps"}
    BY DEF LookedFor
  <1> USE DEF LookedFor, Found, Needed, Mailed, UpTo, Grouped, Basics
  <1>2. CASE phase = "config"
    BY <1>2
  <1>3. CASE phase = "activationMail"
    BY <1>3
  <1>4. CASE phase = "policy"
    BY <1>4
  <1>5. CASE phase = "adminGroup"
    BY <1>5
  <1>6. CASE phase = "memberGroup"
    BY <1>6
  <1>7. CASE phase = "guestGroup"
    BY <1>7
  <1>8. CASE phase = "theme"
    BY <1>8
  <1>9. CASE phase = "someApps"
    BY <1>9, Steps
  <1> QED
    BY <1>1, <1>2, <1>3, <1>4, <1>5, <1>6, <1>7, <1>8, <1>9

LEMMA Created_Needed ==
    ASSUME NEW x \in Rows \ {"admin"}, Needed[x] \subseteq done
    PROVE  /\ After[x] \in Rows => Needed[After[x]] \subseteq done \union {x}
           /\ After[x] = "serving" => Basics \subseteq done \union {x}
  <1> USE DEF After, Needed, Mailed, UpTo, Grouped, Basics, LookedFor
  <1>1. CASE x = "config"
    BY <1>1
  <1>2. CASE x = "activationMail"
    BY <1>2
  <1>3. CASE x = "resetMail"
    BY <1>3
  <1>4. CASE x = "policy"
    BY <1>4
  <1>5. CASE x = "adminGroup"
    BY <1>5
  <1>6. CASE x = "adminLink"
    BY <1>6
  <1>7. CASE x = "memberGroup"
    BY <1>7
  <1>8. CASE x = "memberLink"
    BY <1>8
  <1>9. CASE x = "defaultGroup"
    BY <1>9
  <1>10. CASE x = "guestGroup"
    BY <1>10
  <1>11. CASE x = "adminId"
    BY <1>11
  <1>12. CASE x = "root"
    BY <1>12
  <1>13. CASE x = "theme"
    BY <1>13
  <1>14. CASE x = "someApps"
    BY <1>14
  <1>15. CASE x = "allApps"
    BY <1>15, Steps
  <1> QED
    BY <1>1, <1>2, <1>3, <1>4, <1>5, <1>6, <1>7, <1>8,
       <1>9, <1>10, <1>11, <1>12, <1>13, <1>14, <1>15, Steps

\* Types, and what a start-up has passed, are kept by every step.
LEMMA BootTypeStep ==
    ASSUME BootInv, [BootNext]_bootVars
    PROVE  BootTypeOK' /\ Underway'
  <1> USE Steps DEF BootInv, BootTypeOK, Underway
  <1>1. CASE StartUp
    BY <1>1 DEF StartUp, Needed
  <1>2. CASE SkipFound
    <2>1. phase' \in Rows \union {"serving"} /\ UNCHANGED <<done, crashes, lost>>
      BY <1>2 DEF SkipFound
    <2>2. phase' \in Rows => Needed[phase'] \subseteq done
      BY <1>2, Found_Needed DEF SkipFound, Accompanied
    <2> QED
      BY <2>1, <2>2
  <1>3. CASE CreateRow
    <2>1. /\ phase' \in Rows \union {"serving"} /\ done' = done \union {phase} /\ crashes' = crashes
          /\ phase \in Rows /\ lost' = lost \ {phase}
      BY <1>3 DEF CreateRow
    <2>2. phase' \in Rows => Needed[phase'] \subseteq done \union {phase}
      BY <1>3, Created_Needed DEF CreateRow
    <2> QED
      BY <2>1, <2>2
  <1>4. CASE SkipAdmin
    BY <1>4 DEF SkipAdmin, Needed, UpTo, Grouped
  <1>5. CASE CreateAdmin
    <2>1. /\ done' \subseteq Rows /\ lost' \subseteq Rows /\ crashes' = crashes /\ phase = "admin"
          /\ \/ phase' = "adminId" /\ done' = done \union {"admin"}
             \/ phase' = "failed"
      BY <1>5 DEF CreateAdmin
    <2>2. Needed["adminId"] = Needed["admin"] \union {"admin"}
      BY DEF Needed
    <2> QED
      BY <2>1, <2>2
  <1>6. CASE Killed
    <2>1. Remaining \subseteq Rows
      BY Following DEF Remaining
    <2> QED
      BY <1>6, <2>1, BootConstants DEF Killed
  <1>7. CASE \E x \in Changes : Change(x)
    <2>1. \A x \in Changes : x \subseteq Rows
      BY DEF Changes
    <2> QED
      BY <1>7, <2>1 DEF Change
  <1>8. CASE UNCHANGED bootVars
    BY <1>8 DEF bootVars
  <1> QED
    BY <1>1, <1>2, <1>3, <1>4, <1>5, <1>6, <1>7, <1>8 DEF BootNext

\* What goes along with a row is created with it, or counted as lost.
LEMMA AccompaniedStep ==
    ASSUME BootInv, [BootNext]_bootVars
    PROVE  Accompanied'
  <1>1. /\ \A r \in DOMAIN Leader : Leader[r] \in done => r \in done \union lost \union Remaining
        /\ "resetMail" \in done => "activationMail" \in done
    BY DEF BootInv, Accompanied
  <1>2. phase \notin DOMAIN Along => Remaining = {}
    BY DEF Remaining
  <1>3. CASE StartUp \/ SkipFound \/ SkipAdmin
    <2>1. phase \notin DOMAIN Along /\ UNCHANGED <<done, lost>>
      BY <1>3, Steps, Following DEF StartUp, SkipFound, SkipAdmin
    <2> QED
      BY <1>1, <1>2, <2>1 DEF Accompanied
  <1>4. CASE CreateRow
    <2>1. /\ done' = done \union {phase} /\ lost' = lost \ {phase} /\ phase' = After[phase]
          /\ phase \in Rows \ {"admin"} /\ Needed[phase] \subseteq done
      BY <1>4 DEF CreateRow, BootInv, Underway
    <2>2. Remaining \ {phase} \subseteq Remaining'
      BY <2>1, Following DEF Remaining
    <2>3. ASSUME NEW r \in DOMAIN Leader, Leader[r] \in done'
          PROVE  r \in done' \union lost' \union Remaining'
      <3>1. CASE Leader[r] \in done
        BY <1>1, <2>1, <2>2, <3>1
      <3>2. CASE Leader[r] = phase /\ r # "admin"
        BY <2>1, <3>2, Following DEF Remaining
      <3>3. CASE Leader[r] = phase /\ r = "admin"
        <4>1. phase = "adminId"
          BY <3>3 DEF Leader
        <4> QED
          BY <2>1, <3>3, <4>1 DEF Needed
      <3> QED
        BY <2>1, <2>3, <3>1, <3>2, <3>3
    <2>4. "resetMail" \in done' => "activationMail" \in done'
      <3>1. "activationMail" \in Needed["resetMail"]
        BY DEF Needed, Mailed
      <3> QED
        BY <1>1, <2>1, <3>1
    <2> QED
      BY <2>3, <2>4 DEF Accompanied
  <1>5. CASE CreateAdmin
    <2>1. phase \notin DOMAIN Along
      BY <1>5, Following DEF CreateAdmin
    <2>2. CASE UNCHANGED <<done, lost>>
      BY <1>1, <1>2, <2>1, <2>2 DEF Accompanied
    <2>3. CASE done' = done \union {"admin"} /\ lost' = lost \ {"admin"}
      <3>1. \A r \in DOMAIN Leader : Leader[r] # "admin"
        BY DEF Leader
      <3> QED
        BY <1>1, <1>2, <2>1, <2>3, <3>1 DEF Accompanied
    <2> QED
      BY <1>5, <2>2, <2>3 DEF CreateAdmin
  <1>6. CASE Killed
    BY <1>1, <1>6 DEF Killed, Accompanied
  <1>7. CASE \E x \in Changes : Change(x)
    <2> PICK x \in Changes : Change(x)
      BY <1>7
    <2>1. phase \notin DOMAIN Along /\ done' = done \ x /\ lost' = lost \union x
      BY Steps, Following DEF Change
    <2>2. "activationMail" \notin x
      BY DEF Changes
    <2> QED
      BY <1>1, <1>2, <2>1, <2>2 DEF Accompanied
  <1>8. CASE UNCHANGED bootVars
    BY <1>1, <1>8 DEF bootVars, Accompanied, Remaining
  <1> QED
    BY <1>3, <1>4, <1>5, <1>6, <1>7, <1>8 DEF BootNext

\* The invariant is kept by every step.
LEMMA BootInvStep == BootInv /\ [BootNext]_bootVars => BootInv'
  BY BootTypeStep, AccompaniedStep DEF BootInv

\* No row is there yet.
LEMMA BootInvInit == BootInit => BootInv
  <1>1. \A r \in DOMAIN Leader : Leader[r] \notin {}
    OBVIOUS
  <1> QED
    BY <1>1, Steps, BootConstants DEF BootInit, BootInv, BootTypeOK, Underway, Accompanied

\* The invariant holds from the start.
THEOREM BootInvariant == BootSpec => []BootInv
  BY BootInvInit, BootInvStep, PTL DEF BootSpec

\* The variables keep their types, for any number of crashes.
THEOREM BootTypeCorrect == BootSpec => []BootTypeOK
  BY BootInvariant, PTL DEF BootInv

\* The last step of a start-up finds or creates the last of what is looked for, and
\* nothing is about to be created any more.
LEMMA BootServes ==
    BootInv /\ [BootNext]_bootVars =>
        [phase # "serving" /\ phase' = "serving" =>
            Basics \subseteq done' /\ Rows \ done' \subseteq lost']_bootVars
  <1> SUFFICES ASSUME BootInv, BootNext, phase # "serving", phase' = "serving"
               PROVE  Basics \subseteq done' /\ Rows \ done' \subseteq lost'
    OBVIOUS
  <1>1. Basics \subseteq done'
    <2> USE Steps DEF BootInv, BootTypeOK, Underway
    <2>1. CASE SkipFound
      BY <2>1, Found_Needed DEF SkipFound, Accompanied
    <2>2. CASE CreateRow
      BY <2>2, Created_Needed DEF CreateRow
    <2> QED
      BY <2>1, <2>2 DEF BootNext, StartUp, SkipAdmin, CreateAdmin, Killed, Change
  <1>2. Accompanied'
    BY AccompaniedStep
  <1>3. phase' \notin DOMAIN Along
    BY Steps, Following
  <1>4. \A r \in DOMAIN Leader : r \in done' \union lost'
    BY <1>1, <1>2, <1>3, Following DEF Accompanied, Remaining
  <1> QED
    BY <1>1, <1>4, Following

\* A start-up that comes to serve has all the rows it looks for, and of the others only
\* those are missing that a kill has left out or an administrator has taken: for any
\* number of kills, wherever they fall.
THEOREM ServingMissesNothingElse == BootSpec => NothingElseMissing
  BY BootServes, BootInvariant, PTL DEF BootSpec, NothingElseMissing

-----------------------------------------------------------------------------
(* ConfigCache *)

Visits ==
    [step : {"idle", "load", "invalidate"}] \union
    [step : {"set"}, version : 0 .. MaxVersions] \union
    [step : {"ready"}, hit : BOOLEAN]

\* What a step of one request makes of it has its type again.
LEMMA VisitStep ==
    ASSUME ConfigTypeOK, NEW v \in Visitors, NEW x \in Visits,
           visitor' = [visitor EXCEPT ![v] = x],
           config' \in 0 .. MaxVersions, copy' \in 0 .. NoCopy
    PROVE  ConfigTypeOK'
  BY DEF ConfigTypeOK, Visits, NoCopy

\* Every step of the part keeps the types.
LEMMA ConfigTypeStep == ConfigTypeOK /\ [ConfigNext]_configVars => ConfigTypeOK'
  <1> SUFFICES ASSUME ConfigTypeOK, [ConfigNext]_configVars PROVE ConfigTypeOK'
    OBVIOUS
  <1>1. /\ NoVisit \in Visits /\ [step |-> "load"] \in Visits /\ [step |-> "invalidate"] \in Visits
        /\ \A h \in BOOLEAN : [step |-> "ready", hit |-> h] \in Visits
        /\ \A n \in 0 .. MaxVersions : [step |-> "set", version |-> n] \in Visits
    BY DEF Visits, NoVisit
  <1>2. /\ config \in 0 .. MaxVersions /\ copy \in 0 .. NoCopy /\ MaxVersions \in Nat
        /\ NoCopy = MaxVersions + 1
    BY ConfigConstants DEF ConfigTypeOK, NoCopy
  <1>3. ASSUME NEW v \in Visitors, GetHit(v) \/ GetNothing(v) \/ LoadRow(v) \/ Leave(v)
        PROVE  ConfigTypeOK'
    <2>1. PICK x \in Visits : visitor' = [visitor EXCEPT ![v] = x]
      BY <1>1, <1>2, <1>3 DEF GetHit, GetNothing, LoadRow, Leave
    <2>2. config' = config /\ copy' = copy
      BY <1>3 DEF GetHit, GetNothing, LoadRow, Leave
    <2> QED
      BY <1>2, <2>1, <2>2, VisitStep
  <1>4. ASSUME NEW v \in Visitors, SetCopy(v) PROVE ConfigTypeOK'
    <2>1. visitor[v] \in Visits /\ visitor[v].step = "set"
      BY <1>4 DEF SetCopy, ConfigTypeOK, Visits
    <2>2. visitor[v].version \in 0 .. MaxVersions
      BY <2>1 DEF Visits
    <2>3. config' \in 0 .. MaxVersions /\ copy' \in 0 .. NoCopy
      BY <1>2, <1>4, <2>2 DEF SetCopy
    <2>4. visitor' = [visitor EXCEPT ![v] = [step |-> "ready", hit |-> FALSE]]
      BY <1>4 DEF SetCopy
    <2> QED
      BY <1>1, <2>3, <2>4, VisitStep
  <1>5. ASSUME NEW v \in Visitors, UpdateRow(v) PROVE ConfigTypeOK'
    <2>1. config' \in 0 .. MaxVersions /\ copy' \in 0 .. NoCopy
      BY <1>2, <1>5 DEF UpdateRow
    <2>2. PICK x \in Visits : visitor' = [visitor EXCEPT ![v] = x]
      BY <1>1, <1>5 DEF UpdateRow
    <2> QED
      BY <2>1, <2>2, VisitStep
  <1>6. ASSUME NEW v \in Visitors, Invalidate(v) PROVE ConfigTypeOK'
    <2>1. config' \in 0 .. MaxVersions /\ copy' \in 0 .. NoCopy
      BY <1>2, <1>6 DEF Invalidate
    <2>2. visitor' = [visitor EXCEPT ![v] = NoVisit]
      BY <1>6 DEF Invalidate
    <2> QED
      BY <1>1, <2>1, <2>2, VisitStep
  <1>7. CASE CopyExpires
    BY <1>2, <1>7 DEF CopyExpires, ConfigTypeOK, NoCopy
  <1>8. CASE UNCHANGED configVars
    BY <1>8 DEF configVars, ConfigTypeOK, NoCopy
  <1> QED
    BY <1>3, <1>4, <1>5, <1>6, <1>7, <1>8 DEF ConfigNext

\* The variables keep their types, for any number of requests and versions.
THEOREM ConfigTypeCorrect == ConfigSpec => []ConfigTypeOK
  <1>1. ConfigInit => ConfigTypeOK
    BY ConfigConstants DEF ConfigInit, ConfigTypeOK, NoCopy, NoVisit
  <1> QED
    BY <1>1, ConfigTypeStep, PTL DEF ConfigSpec

-----------------------------------------------------------------------------
(* The parts side by side *)

ServerInv == AccessInv /\ ConfigTypeOK /\ MailInv /\ MailCount /\ SmsInv /\ BootInv

\* A step of the whole is a step of every part, or leaves it as it is.
LEMMA PartSteps ==
    [ServerNext]_serverVars =>
        /\ [AccessNext]_accessVars /\ [ConfigNext]_configVars /\ [MailNext]_mailVars
        /\ [SmsNext]_smsVars /\ [BootNext]_bootVars
  BY DEF ServerNext, serverVars

\* Side by side too every part keeps its types and what is promised of it: the
\* whole is what the run checks.
THEOREM ServerHolds ==
    ServerSpec => [](/\ TypeOK
                     /\ BannedRefused
                     /\ MailsBounded /\ TransmitAlone
                     /\ GuessesBounded /\ LateGuesses)
  <1>1. ServerInit => ServerInv
    <2>1. ConfigInit => ConfigTypeOK
      BY ConfigConstants DEF ConfigInit, ConfigTypeOK, NoCopy, NoVisit
    <2> QED
      BY <2>1, AccessInvInit, MailInvInit, MailCountInit, SmsInvInit, BootInvInit
         DEF ServerInit, ServerInv
  <1>2. ServerInv /\ [ServerNext]_serverVars => ServerInv'
    BY PartSteps, AccessInvStep, ConfigTypeStep, MailInvStep, MailCountStep, SmsInvStep,
       BootInvStep DEF ServerInv
  <1>3. ServerInv => /\ TypeOK
                     /\ BannedRefused
                     /\ MailsBounded /\ TransmitAlone
                     /\ GuessesBounded /\ LateGuesses
    <2>1. ServerInv => TypeOK
      BY DEF ServerInv, TypeOK, AccessInv, MailInv, SmsInv, BootInv
    <2>2. ServerInv => BannedRefused /\ TransmitAlone
      BY AccessInvRefuses DEF ServerInv, MailInv, LockHeld
    <2> QED
      BY <2>1, <2>2, MailCountBounds, SmsInvBounds DEF ServerInv
  <1> QED
    BY <1>1, <1>2, <1>3, PTL DEF ServerSpec

\* A start-up of the whole that comes to serve misses nothing else either.
THEOREM ServerMissesNothingElse == ServerSpec => NothingElseMissing
  <1>1. ServerInit => BootInv
    BY BootInvInit DEF ServerInit
  <1>2. BootInv /\ [ServerNext]_serverVars => BootInv'
    BY PartSteps, BootInvStep
  <1>3. BootInv /\ [ServerNext]_serverVars =>
            [phase # "serving" /\ phase' = "serving" =>
                Basics \subseteq done' /\ Rows \ done' \subseteq lost']_bootVars
    BY PartSteps, BootServes
  <1> QED
    BY <1>1, <1>2, <1>3, PTL DEF ServerSpec, NothingElseMissing
=============================================================================
