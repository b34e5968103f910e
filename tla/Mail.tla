-------------------------------- MODULE Mail --------------------------------
(***************************************************************************)
(* Verification codes by mail, for one address: the keys of                *)
(* VerifyCodeStore in Redis, written one call at a time, and the one SMTP  *)
(* connection of the process, shared under a lock and closed by a timer.   *)
(***************************************************************************)
EXTENDS Naturals, FiniteSets

CONSTANTS
    Senders,    \* requests for a code in progress at one time
    HourLimit   \* _RATE_LIMIT_PER_HOUR (5 in the code)

ASSUME MailConstants == IsFiniteSet(Senders) /\ HourLimit \in Nat \ {0}

VARIABLES
    minute,     \* verify_rate_min:{email} exists
    hour,       \* verify_rate_hour:{email}: its count (0: no key), and whether it expires
    code,       \* verify_code:{reason}:{email} exists
    lately,     \* codes counted since the hour's key last expired (history)
    sender,     \* what each request is doing
    lock,       \* who holds MailService._lock
    client,     \* MailService._client: "none", "up", or "lost" by the server
    timer       \* MailService._idle_task

codeVars == <<minute, hour, code, lately>>
smtpVars == <<lock, client, timer>>
mailVars == <<codeVars, sender, smtpVars>>

NoHour == [count |-> 0, expires |-> TRUE]
NoSender == [step |-> "idle"]
Nobody == [by |-> "nobody"]
Timer == [by |-> "timer"]
HeldBy(s) == [by |-> "sender", of |-> s]

MailInit ==
    /\ minute = FALSE
    /\ hour = NoHour
    /\ code = FALSE
    /\ lately = 0
    /\ sender = [s \in Senders |-> NoSender]
    /\ lock = Nobody
    /\ client = "none"
    /\ timer = "none"

To(s, step) == sender' = [sender EXCEPT ![s].step = step]
Quits(s) == sender' = [sender EXCEPT ![s] = NoSender]

-----------------------------------------------------------------------------
(* generate_and_store: six calls of Redis, none of them atomic with another *)

ReadMinute(s) ==
    /\ sender[s].step = "idle"
    /\ ~minute
    /\ sender' = [sender EXCEPT ![s] = [step |-> "hour"]]
    /\ UNCHANGED <<codeVars, smtpVars>>

\* Mutant: one more than the limit.
ReadHourLate(s) ==
    /\ sender[s].step = "hour"
    /\ IF hour.count > HourLimit THEN Quits(s)
       ELSE sender' = [sender EXCEPT ![s] = [step |-> "code", first |-> hour.count = 0]]
    /\ UNCHANGED <<codeVars, smtpVars>>

ReadHour(s) ==
    /\ sender[s].step = "hour"
    /\ IF hour.count >= HourLimit THEN Quits(s)
       ELSE sender' = [sender EXCEPT ![s] = [step |-> "code", first |-> hour.count = 0]]
    /\ UNCHANGED <<codeVars, smtpVars>>

StoreCode(s) ==
    /\ sender[s].step = "code"
    /\ code' = TRUE
    /\ To(s, "minute")
    /\ UNCHANGED <<minute, hour, lately, smtpVars>>

StoreMinute(s) ==
    /\ sender[s].step = "minute"
    /\ minute' = TRUE
    /\ To(s, "count")
    /\ UNCHANGED <<hour, code, lately, smtpVars>>

\* SET 1 with a lifetime if there was no key, else INCR, which creates a key
\* without a lifetime if the old one has expired since it was read.
CountHour(s) ==
    /\ sender[s].step = "count"
    /\ hour' = IF sender[s].first THEN [count |-> 1, expires |-> TRUE]
               ELSE [count |-> hour.count + 1, expires |-> hour.expires /\ hour.count > 0]
    /\ lately' = lately + 1
    /\ To(s, "lock")
    /\ UNCHANGED <<minute, code, smtpVars>>

\* An error of Redis, no template: the request ends with what it has written.
SenderFails(s) ==
    /\ sender[s].step \in {"hour", "code", "minute", "count", "lock"}
    /\ Quits(s)
    /\ UNCHANGED <<codeVars, smtpVars>>

\* verify_and_delete with the right code, for a registration or a new password;
\* a wrong one changes nothing.
VerifyCode ==
    /\ code
    /\ code' = FALSE
    /\ UNCHANGED <<minute, hour, lately, sender, smtpVars>>

CodeExpires ==
    /\ code
    /\ code' = FALSE
    /\ UNCHANGED <<minute, hour, lately, sender, smtpVars>>

MinuteExpires ==
    /\ minute
    /\ minute' = FALSE
    /\ UNCHANGED <<hour, code, lately, sender, smtpVars>>

HourExpires ==
    /\ hour.count > 0 /\ hour.expires
    /\ hour' = NoHour
    /\ lately' = 0
    /\ UNCHANGED <<minute, code, sender, smtpVars>>

-----------------------------------------------------------------------------
(* MailService: one connection, used under the lock *)

TakeLock(s) ==
    /\ sender[s].step = "lock"
    /\ lock = Nobody
    /\ lock' = HeldBy(s)
    /\ To(s, "connect")
    /\ UNCHANGED <<codeVars, client, timer>>

\* _ensure_connected: a connection that was lost is given up first.
Connect(s) ==
    /\ sender[s].step = "connect"
    /\ \/ /\ client' = "up"
          /\ To(s, "transmit")
          /\ UNCHANGED lock
       \/ /\ client # "up"
          /\ client' = "none"
          /\ Quits(s)
          /\ lock' = Nobody
    /\ UNCHANGED <<codeVars, timer>>

\* The mail is sent and the idle timer starts anew, whatever it was doing; or
\* sending fails and the connection is forgotten.
Transmit(s) ==
    /\ sender[s].step = "transmit"
    /\ \/ client = "up" /\ timer' = "asleep" /\ UNCHANGED client
       \/ client' = "none" /\ UNCHANGED timer
    /\ lock' = Nobody
    /\ Quits(s)
    /\ UNCHANGED codeVars

TimerWakes ==
    /\ timer = "asleep"
    /\ timer' = "awake"
    /\ UNCHANGED <<codeVars, sender, lock, client>>

\* Mutant: the timer does not ask for the lock.
TimerBargesIn ==
    /\ timer = "awake"
    /\ timer' = "locked"
    /\ lock' = Timer
    /\ UNCHANGED <<codeVars, sender, client>>

TimerLocks ==
    /\ timer = "awake"
    /\ lock = Nobody
    /\ lock' = Timer
    /\ timer' = "locked"
    /\ UNCHANGED <<codeVars, sender, client>>

TimerCloses ==
    /\ timer = "locked"
    /\ client' = IF client = "up" THEN "none" ELSE client
    /\ lock' = Nobody
    /\ timer' = "none"
    /\ UNCHANGED <<codeVars, sender>>

\* The mail server goes away.
ServerLeaves ==
    /\ client = "up"
    /\ client' = "lost"
    /\ UNCHANGED <<codeVars, sender, lock, timer>>

\* The process ends and another begins: Redis keeps its keys.
MailRestart ==
    /\ sender' = [s \in Senders |-> NoSender]
    /\ lock' = Nobody
    /\ client' = "none"
    /\ timer' = "none"
    /\ UNCHANGED codeVars

-----------------------------------------------------------------------------

MailNext ==
    \/ \E s \in Senders :
          \/ ReadMinute(s) \/ ReadHour(s) \/ StoreCode(s) \/ StoreMinute(s) \/ CountHour(s)
          \/ SenderFails(s) \/ TakeLock(s) \/ Connect(s) \/ Transmit(s)
    \/ VerifyCode \/ CodeExpires \/ MinuteExpires \/ HourExpires
    \/ TimerWakes \/ TimerLocks \/ TimerCloses \/ ServerLeaves \/ MailRestart

MailSpec == MailInit /\ [][MailNext]_mailVars

-----------------------------------------------------------------------------
(* Properties *)

MailTypeOK ==
    /\ minute \in BOOLEAN
    /\ hour \in [count : Nat, expires : BOOLEAN]
    /\ code \in BOOLEAN
    /\ lately \in Nat
    /\ sender \in [Senders ->
           [step : {"idle", "hour"}] \union
           [step : {"code", "minute", "count", "lock", "connect", "transmit"}, first : BOOLEAN]]
    /\ lock \in {Nobody, Timer} \union {HeldBy(s) : s \in Senders}
    /\ client \in {"none", "up", "lost"}
    /\ timer \in {"none", "asleep", "awake", "locked"}

\* Between two expiries of the hour's key an address gets no more mails than this:
\* the limit, the limit again for every other request under way that read the key
\* before there was one (its SET puts the count back to 1), and one more for every
\* two requests of which one read the count before the other added to it.  A
\* request that fails before it counts sends no mail.
MailsBounded ==
    LET n == Cardinality(Senders) IN 2 * lately <= n * (2 * HourLimit + n - 1)

\* No connection is closed under a request that sends through it: the lock is held
\* by one at a time, the timer included.
TransmitAlone ==
    \A s \in Senders :
        /\ sender[s].step \in {"connect", "transmit"} => lock = HeldBy(s)
        /\ sender[s].step = "transmit" => client # "none"
=============================================================================
