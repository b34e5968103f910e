-------------------------------- MODULE Logins --------------------------------
(***************************************************************************)
(* Ways to log in: the columns of a user, the passkeys and the one-time    *)
(* challenges in Redis, and the login providers of the configuration.      *)
(*                                                                         *)
(* A request loads a row, changes some columns and writes those that       *)
(* differ from what it has loaded; a trigger of the database looks at the  *)
(* row that results, with the columns others have written meanwhile.       *)
(***************************************************************************)
EXTENDS FiniteSets

CONSTANTS
    Persons,        \* users, known by their id
    Nonces,         \* challenges; each is generated once
    NoNonce,
    Options,        \* what needs a key and a secret: GitHub, QQ, the captcha chosen
    Clients         \* requests in progress at one time

ASSUME LoginConstants == NoNonce \notin Nonces

VARIABLES
    columns,        \* password_hash, phone and github_id: those that are not NULL
    passkeys,       \* rows of UserAuthn: whose, and for which challenge it was made
    slot,           \* keys webauthn_challenge:reg:{user}
    open,           \* keys webauthn_challenge:auth:{token}
    used,           \* challenges that were generated
    enabled,        \* what the configuration switches on
    secrets,        \* what the configuration has keys and secrets for
    client,         \* what each request is doing
    earned,         \* challenges that led to a session or a passkey (history)
    again           \* those that did so once more (history)

challengeVars == <<slot, open, used>>
optionVars == <<enabled, secrets>>
loginVars == <<columns, passkeys, challengeVars, optionVars, client, earned, again>>

NotBusy == [step |-> "idle"]
Starts(r, what) == client[r] = NotBusy /\ client' = [client EXCEPT ![r] = what]
Stops(r) == client' = [client EXCEPT ![r] = NotBusy]

\* Registered with a password, by GitHub, or created by the administration
\* without a password.  A number or a QQ id alone does not make a user: the
\* address must not be NULL.
LoginsInit ==
    /\ columns \in [Persons -> {{"password"}, {"github"}, {}}]
    /\ passkeys = {}
    /\ slot = [p \in Persons |-> NoNonce]
    /\ open = {}
    /\ used = {}
    /\ enabled = {}
    /\ secrets = {}
    /\ client = [r \in Clients |-> NotBusy]
    /\ earned = {}
    /\ again = {}

-----------------------------------------------------------------------------
(* Passkeys *)

\* A second registration of the same user takes the place of the first.
StartRegistration(p, n) ==
    /\ n \notin used
    /\ used' = used \union {n}
    /\ slot' = [slot EXCEPT ![p] = n]
    /\ UNCHANGED <<columns, passkeys, open, optionVars, client, earned, again>>

LoginOptions(n) ==
    /\ n \notin used
    /\ used' = used \union {n}
    /\ open' = open \union {n}
    /\ UNCHANGED <<columns, passkeys, slot, optionVars, client, earned, again>>

SlotExpires(p) ==
    /\ slot[p] # NoNonce
    /\ slot' = [slot EXCEPT ![p] = NoNonce]
    /\ UNCHANGED <<columns, passkeys, open, used, optionVars, client, earned, again>>

ChallengeExpires(n) ==
    /\ n \in open
    /\ open' = open \ {n}
    /\ UNCHANGED <<columns, passkeys, slot, used, optionVars, client, earned, again>>

\* GETDEL.  A credential made for another challenge is refused, and the
\* challenge is gone as well.
TakeSlot(r, p, n) ==
    /\ n \in used
    /\ slot[p] # NoNonce
    /\ IF slot[p] = n THEN Starts(r, [step |-> "insert", person |-> p, nonce |-> n])
       ELSE client[r] = NotBusy /\ UNCHANGED client
    /\ slot' = [slot EXCEPT ![p] = NoNonce]
    /\ UNCHANGED <<columns, passkeys, open, used, optionVars, earned, again>>

Earns(n) ==
    /\ earned' = earned \union {n}
    /\ again' = again \union ({n} \intersect earned)

\* credential_id is unique.
InsertPasskey(r) ==
    LET n == client[r].nonce IN
    /\ client[r].step = "insert"
    /\ IF \E k \in passkeys : k[2] = n THEN UNCHANGED <<passkeys, earned, again>>
       ELSE passkeys' = passkeys \union {<<client[r].person, n>>} /\ Earns(n)
    /\ Stops(r)
    /\ UNCHANGED <<columns, challengeVars, optionVars>>

\* Mutant: GET, and the key is left to expire.
ReadChallenge(r, n) ==
    /\ n \in open
    /\ Starts(r, [step |-> "verify", nonce |-> n])
    /\ UNCHANGED <<columns, passkeys, challengeVars, optionVars, earned, again>>

TakeChallenge(r, n) ==
    /\ n \in open
    /\ open' = open \ {n}
    /\ Starts(r, [step |-> "verify", nonce |-> n])
    /\ UNCHANGED <<columns, passkeys, slot, used, optionVars, earned, again>>

\* The assertion is verified with the key of a row, the sign count is saved, the
\* status of the user is looked at; any of it may refuse.
PasskeyLogin(r) ==
    /\ client[r].step = "verify"
    /\ \/ passkeys # {} /\ Earns(client[r].nonce)
       \/ UNCHANGED <<earned, again>>
    /\ Stops(r)
    /\ UNCHANGED <<columns, passkeys, challengeVars, optionVars>>

-----------------------------------------------------------------------------
(* The columns of a user *)

\* A reset by mail sets a password; a change replaces one and needs the old one.
ResetPassword(p) ==
    /\ columns' = [columns EXCEPT ![p] = @ \union {"password"}]
    /\ UNCHANGED <<passkeys, challengeVars, optionVars, client, earned, again>>

\* PATCH /admin/user/{id}: the phone number is the one way in it can set, or
\* set to NULL.
LoadUser(r, p, number) ==
    /\ Starts(r, [step |-> "save", person |-> p, number |-> number,
                  old |-> "phone" \in columns[p]])
    /\ UNCHANGED <<columns, passkeys, challengeVars, optionVars, earned, again>>

Written(what) ==
    IF what.number = what.old THEN columns[what.person]
    ELSE IF what.number THEN columns[what.person] \union {"phone"}
    ELSE columns[what.person] \ {"phone"}

\* The trigger refuses the row that has no way in left, and with it every other
\* column of the update.
SaveUser(r) ==
    LET what == client[r] IN
    /\ what.step = "save"
    /\ columns' = IF Written(what) # {} \/ \E k \in passkeys : k[1] = what.person
                  THEN [columns EXCEPT ![what.person] = Written(what)] ELSE columns
    /\ Stops(r)
    /\ UNCHANGED <<passkeys, challengeVars, optionVars, earned, again>>

-----------------------------------------------------------------------------
(* The configuration *)

\* PATCH /admin/settings: a switch and a secret; the other columns do not matter.
LoadOptions(r, o, on, given) ==
    /\ Starts(r, [step |-> "options", option |-> o, on |-> on, given |-> given,
                  wasOn |-> o \in enabled, hadSecret |-> o \in secrets])
    /\ UNCHANGED <<columns, passkeys, challengeVars, optionVars, earned, again>>

With(S, o, new, old) == IF new = old THEN S ELSE IF new THEN S \union {o} ELSE S \ {o}

\* The trigger looks at the row that results: nothing is on without its secret.
SaveOptions(r) ==
    LET what == client[r]
        on == With(enabled, what.option, what.on, what.wasOn)
        with == With(secrets, what.option, what.given, what.hadSecret)
    IN
    /\ what.step = "options"
    /\ IF on \subseteq with THEN enabled' = on /\ secrets' = with
       ELSE UNCHANGED optionVars
    /\ Stops(r)
    /\ UNCHANGED <<columns, passkeys, challengeVars, earned, again>>

ClientDies(r) ==
    /\ client[r] # NotBusy
    /\ Stops(r)
    /\ UNCHANGED <<columns, passkeys, challengeVars, optionVars, earned, again>>

-----------------------------------------------------------------------------

LoginsNext ==
    \/ \E p \in Persons, n \in Nonces : StartRegistration(p, n)
    \/ \E n \in Nonces : LoginOptions(n) \/ ChallengeExpires(n)
    \/ \E p \in Persons : SlotExpires(p) \/ ResetPassword(p)
    \/ \E r \in Clients, p \in Persons, n \in Nonces : TakeSlot(r, p, n)
    \/ \E r \in Clients, n \in Nonces : TakeChallenge(r, n)
    \/ \E r \in Clients, p \in Persons, number \in BOOLEAN : LoadUser(r, p, number)
    \/ \E r \in Clients, o \in Options, on, given \in BOOLEAN : LoadOptions(r, o, on, given)
    \/ \E r \in Clients :
          InsertPasskey(r) \/ PasskeyLogin(r) \/ SaveUser(r) \/ SaveOptions(r) \/ ClientDies(r)

LoginsSpec == LoginsInit /\ [][LoginsNext]_loginVars

-----------------------------------------------------------------------------
(* Properties *)

ClientTypes ==
    {NotBusy} \union
    [step : {"insert"}, person : Persons, nonce : Nonces] \union
    [step : {"verify"}, nonce : Nonces] \union
    [step : {"save"}, person : Persons, number : BOOLEAN, old : BOOLEAN] \union
    [step : {"options"}, option : Options, on : BOOLEAN, given : BOOLEAN,
     wasOn : BOOLEAN, hadSecret : BOOLEAN]

LoginsTypeOK ==
    /\ columns \in [Persons -> SUBSET {"password", "phone", "github"}]
    /\ passkeys \subseteq Persons \X Nonces
    /\ slot \in [Persons -> Nonces \union {NoNonce}]
    /\ open \subseteq used /\ used \subseteq Nonces
    /\ {enabled, secrets} \subseteq SUBSET Options
    /\ client \in [Clients -> ClientTypes]
    /\ again \subseteq earned /\ earned \subseteq used

\* A challenge is good for one session or one passkey, however often and from
\* however many requests at a time the same answer to it comes in.
ChallengesOnce == again = {}
=============================================================================
