-------------------------------- MODULE Sms --------------------------------
(***************************************************************************)
(* Codes by text message, for one phone number: sending through one        *)
(* provider after the other, and the login that enters a code, with its    *)
(* count of tries per code and its lockout of the number.                  *)
(*                                                                         *)
(* The script that compares a code and the two pipelines are one step      *)
(* each; everything between two calls of Redis may be interleaved.         *)
(***************************************************************************)
EXTENDS Naturals, FiniteSets

CONSTANTS
    Askers,         \* requests for a code in progress at one time
    Guessers,       \* logins with a code in progress at one time
    Providers,      \* how many providers are enabled
    MaxTries,       \* _MAX_ATTEMPTS (5 in the code)
    MaxFails        \* _MAX_LOCKOUT_ATTEMPTS (5 in the code)

ASSUME SmsConstants ==
    /\ IsFiniteSet(Guessers) /\ Guessers # {}
    /\ Providers \in Nat \ {0}
    /\ MaxTries \in Nat \ {0}
    /\ MaxFails \in Nat \ {0, 1}

VARIABLES
    sent,       \* sms_code:{reason}:code:{phone} exists
    tries,      \* sms_code:{reason}:attempts:{phone} (0: no key)
    rate,       \* sms_code:rate:{phone} exists
    fails,      \* sms_code:lockout_attempts:{phone} (0: no key; MaxFails: that many or more)
    locked,     \* sms_code:lockout:{phone} exists
    asker,      \* what each request for a code is doing
    guesser,    \* what each login is doing
    guesses,    \* guesses the code in the key has been compared with (history)
    late        \* guesses compared since the number was locked (history)

smsKeys == <<sent, tries, rate, fails, locked>>
smsVars == <<smsKeys, asker, guesser, guesses, late>>

NoAsker == [step |-> "idle", provider |-> 1]

SmsInit ==
    /\ sent = FALSE
    /\ tries = 0
    /\ rate = FALSE
    /\ fails = 0
    /\ locked = FALSE
    /\ asker = [a \in Askers |-> NoAsker]
    /\ guesser = [g \in Guessers |-> "idle"]
    /\ guesses = 0
    /\ late = 0

-----------------------------------------------------------------------------
(* Sending *)

AskerTo(a, step) == asker' = [asker EXCEPT ![a].step = step]

AskForCode(a) ==
    /\ asker[a].step = "idle"
    /\ AskerTo(a, "rate")
    /\ UNCHANGED <<smsKeys, guesser, guesses, late>>

CheckRate(a) ==
    /\ asker[a].step = "rate"
    /\ asker' = [asker EXCEPT ![a] = IF rate THEN NoAsker ELSE [@ EXCEPT !.step = "drop"]]
    /\ UNCHANGED <<smsKeys, guesser, guesses, late>>

\* The old code goes before the new one is sent.
DropCode(a) ==
    /\ asker[a].step = "drop"
    /\ sent' = FALSE
    /\ guesses' = 0
    /\ AskerTo(a, "send")
    /\ UNCHANGED <<tries, rate, fails, locked, guesser, late>>

\* The provider takes the message, or answers that it was not sent (nothing is
\* stored and the caller is told nothing).
SendText(a) ==
    /\ asker[a].step = "send"
    /\ \/ AskerTo(a, "cache")
       \/ asker' = [asker EXCEPT ![a] = NoAsker]
    /\ UNCHANGED <<smsKeys, guesser, guesses, late>>

\* One transaction: the code, the rate limit, no tries.
CacheCode(a) ==
    /\ asker[a].step = "cache"
    /\ sent' = TRUE
    /\ rate' = TRUE
    /\ tries' = 0
    /\ guesses' = 0
    /\ asker' = [asker EXCEPT ![a] = NoAsker]
    /\ UNCHANGED <<fails, locked, guesser, late>>

\* Any error, of the provider or of Redis, makes the next provider's turn.
NextProvider(a) ==
    /\ asker[a].step \in {"drop", "send", "cache"}
    /\ asker' = [asker EXCEPT ![a] =
           IF asker[a].provider < Providers
           THEN [step |-> "rate", provider |-> asker[a].provider + 1] ELSE NoAsker]
    /\ UNCHANGED <<smsKeys, guesser, guesses, late>>

-----------------------------------------------------------------------------
(* verify_and_enforce *)

GuesserTo(g, step) == guesser' = [guesser EXCEPT ![g] = step]

\* Mutant: the lockout is not looked at.
CheckNoLockout(g) ==
    /\ guesser[g] = "idle"
    /\ GuesserTo(g, "compare")
    /\ UNCHANGED <<smsKeys, asker, guesses, late>>

CheckLockout(g) ==
    /\ guesser[g] = "idle"
    /\ ~locked
    /\ GuesserTo(g, "compare")
    /\ UNCHANGED <<smsKeys, asker, guesses, late>>

Compared(right) ==
    /\ sent' = ~right
    /\ tries' = IF right THEN 0 ELSE tries + 1
    /\ guesses' = IF right THEN 0 ELSE guesses + 1
    /\ late' = IF locked THEN late + 1 ELSE late

\* Mutant: only the tries are deleted when they are used up.
CompareKeepsCode(g, right) ==
    /\ guesser[g] = "compare"
    /\ IF ~sent \/ tries >= MaxTries
       THEN /\ tries' = IF sent THEN 0 ELSE tries
            /\ GuesserTo(g, "fail")
            /\ UNCHANGED <<sent, guesses, late>>
       ELSE /\ Compared(right)
            /\ GuesserTo(g, IF right THEN "clear" ELSE "fail")
    /\ UNCHANGED <<rate, fails, locked, asker>>

\* Mutant: the tries are counted and not looked at.
CompareNoLimit(g, right) ==
    /\ guesser[g] = "compare"
    /\ IF ~sent THEN GuesserTo(g, "fail") /\ UNCHANGED <<sent, tries, guesses, late>>
       ELSE /\ Compared(right)
            /\ GuesserTo(g, IF right THEN "clear" ELSE "fail")
    /\ UNCHANGED <<rate, fails, locked, asker>>

\* The script: no code; too many tries; the right one; a wrong one.
CompareCode(g, right) ==
    /\ guesser[g] = "compare"
    /\ IF ~sent \/ tries >= MaxTries
       THEN /\ tries' = IF sent THEN 0 ELSE tries
            /\ sent' = FALSE
            /\ guesses' = 0
            /\ GuesserTo(g, "fail")
            /\ UNCHANGED late
       ELSE /\ Compared(right)
            /\ GuesserTo(g, IF right THEN "clear" ELSE "fail")
    /\ UNCHANGED <<rate, fails, locked, asker>>

\* record_failure: INCR; its first value is given a lifetime by another call.
CountFailure(g) ==
    /\ guesser[g] = "fail"
    /\ fails' = IF fails < MaxFails THEN fails + 1 ELSE fails
    /\ GuesserTo(g, IF fails' = MaxFails THEN "lock" ELSE "idle")
    /\ UNCHANGED <<sent, tries, rate, locked, asker, guesses, late>>

LockNumber(g) ==
    /\ guesser[g] = "lock"
    /\ locked' = TRUE
    /\ fails' = 0
    /\ late' = IF locked THEN late ELSE 0
    /\ GuesserTo(g, "idle")
    /\ UNCHANGED <<sent, tries, rate, asker, guesses>>

ClearFailures(g) ==
    /\ guesser[g] = "clear"
    /\ fails' = 0
    /\ GuesserTo(g, "idle")
    /\ UNCHANGED <<sent, tries, rate, locked, asker, guesses, late>>

\* An error of Redis ends the login between two calls.
GuesserFails(g) ==
    /\ guesser[g] # "idle"
    /\ GuesserTo(g, "idle")
    /\ UNCHANGED <<smsKeys, asker, guesses, late>>

-----------------------------------------------------------------------------
(* Keys expire *)

CodeDies ==
    /\ sent
    /\ sent' = FALSE
    /\ guesses' = 0
    /\ UNCHANGED <<tries, rate, fails, locked, asker, guesser, late>>

\* Every try gives the tries the lifetime a code begins with: they outlive it.
TriesDie ==
    /\ tries > 0 /\ ~sent
    /\ tries' = 0
    /\ UNCHANGED <<sent, rate, fails, locked, asker, guesser, guesses, late>>

RateDies ==
    /\ rate
    /\ rate' = FALSE
    /\ UNCHANGED <<sent, tries, fails, locked, asker, guesser, guesses, late>>

FailsDie ==
    /\ fails > 0
    /\ fails' = 0
    /\ UNCHANGED <<sent, tries, rate, locked, asker, guesser, guesses, late>>

LockoutDies ==
    /\ locked
    /\ locked' = FALSE
    /\ late' = 0
    /\ UNCHANGED <<sent, tries, rate, fails, asker, guesser, guesses>>

-----------------------------------------------------------------------------

SmsNext ==
    \/ \E a \in Askers :
          \/ AskForCode(a) \/ CheckRate(a) \/ DropCode(a) \/ SendText(a)
          \/ CacheCode(a) \/ NextProvider(a)
    \/ \E g \in Guessers :
          \/ CheckLockout(g) \/ (\E right \in BOOLEAN : CompareCode(g, right))
          \/ CountFailure(g) \/ LockNumber(g) \/ ClearFailures(g) \/ GuesserFails(g)
    \/ CodeDies \/ TriesDie \/ RateDies \/ FailsDie \/ LockoutDies

SmsSpec == SmsInit /\ [][SmsNext]_smsVars

-----------------------------------------------------------------------------
(* Properties *)

SmsTypeOK ==
    /\ sent \in BOOLEAN /\ rate \in BOOLEAN /\ locked \in BOOLEAN
    /\ tries \in 0 .. MaxTries
    /\ fails \in 0 .. MaxFails
    /\ asker \in [Askers ->
           [step : {"idle", "rate", "drop", "send", "cache"}, provider : 1 .. Providers]]
    /\ guesser \in [Guessers -> {"idle", "compare", "fail", "lock", "clear"}]
    /\ guesses \in Nat
    /\ late \in Nat

\* No code is compared with more guesses than there are tries, however the logins
\* overlap, codes are sent again and keys expire.
GuessesBounded == guesses <= MaxTries

\* Once a number is locked, only logins that had passed the check before can still
\* be compared, each of them once; the one that locked it has had its turn.
LateGuesses == late < Cardinality(Guessers)
=============================================================================
