------------------------------- MODULE Access -------------------------------
(***************************************************************************)
(* Who may enter: the status of a user in the database, the ban list and   *)
(* the WebDAV authentication cache in Redis, and the checks of a request.  *)
(*                                                                         *)
(* The administration commits a status and then tells Redis; a request     *)
(* asks Redis and then the database.  Database and Redis never commit      *)
(* together, every key expires, and a request may die between two steps.   *)
(***************************************************************************)
EXTENDS Naturals

CONSTANTS
    Users,
    Jobs,           \* requests of the administration in progress at one time
    Requests,       \* requests of users in progress at one time
    MaxUpdates      \* bound: updates the administration begins

ASSUME AccessConstants == MaxUpdates \in Nat

VARIABLES
    active,     \* users with User.status = ACTIVE
    bans,       \* users with a key user_ban:{id}
    tokens,     \* users with an access token that has not expired
    job,        \* what each administration's request is doing
    begun,      \* updates the administration has begun
    check,      \* what each user's request is doing
    account,    \* users whose WebDAV client has the right account and password
    revoking,   \* users whose account is changed and not yet out of the cache
    davCache,   \* users with a key webdav_auth:{email}/{account}:{password}
    davReply    \* what the user's WebDAV client was last told

jobVars == <<job, begun>>
davVars == <<account, revoking, davCache, davReply>>
accessVars == <<active, bans, tokens, jobVars, check, davVars>>

NoJob == [step |-> "idle"]
NoCheck == [step |-> "idle"]

AccessInit ==
    /\ active = Users
    /\ bans = {}
    /\ tokens = {}
    /\ job = [j \in Jobs |-> NoJob]
    /\ begun = 0
    /\ check = [r \in Requests |-> NoCheck]
    /\ account = Users
    /\ revoking = {}
    /\ davCache = {}
    /\ davReply = [u \in Users |-> "none"]

\* Requests that began while their user was not allowed in are barred until the
\* user is allowed again (history).
Unbar(S) ==
    check' = [r \in Requests |->
        IF check[r].step # "idle" /\ check[r].user \in S
        THEN [check[r] EXCEPT !.barred = FALSE] ELSE check[r]]

-----------------------------------------------------------------------------
(* The administration changes a status *)

\* The row is loaded; `on` is what the request asks for.
UpdateLoad(j, u, on) ==
    /\ job[j].step = "idle"
    /\ begun < MaxUpdates
    /\ begun' = begun + 1
    /\ job' = [job EXCEPT ![j] =
           [step |-> "loaded", user |-> u, old |-> u \in active, on |-> on]]
    /\ UNCHANGED <<active, bans, tokens, check, davVars>>

\* Only a column whose value differs from the loaded one is written.
UpdateCommit(j) ==
    LET u == job[j].user IN
    /\ job[j].step = "loaded"
    /\ active' = IF job[j].on = job[j].old THEN active
                 ELSE IF job[j].on THEN active \union {u} ELSE active \ {u}
    /\ Unbar(active' \ active)
    /\ job' = [job EXCEPT ![j].step = "committed"]
    /\ UNCHANGED <<bans, tokens, begun, davVars>>

\* The row is read again after the commit.
UpdateRefresh(j) ==
    /\ job[j].step = "committed"
    /\ job' = [job EXCEPT ![j] =
           IF (job[j].user \in active) = job[j].old THEN NoJob
           ELSE [job[j] EXCEPT !.step = "tell", !.on = job[j].user \in active]]
    /\ UNCHANGED <<active, bans, tokens, begun, check, davVars>>

UpdateTell(j) ==
    LET u == job[j].user IN
    /\ job[j].step = "tell"
    /\ bans' = IF job[j].on THEN bans \ {u} ELSE bans \union {u}
    /\ job' = [job EXCEPT ![j] = NoJob]
    /\ UNCHANGED <<active, tokens, begun, check, davVars>>

UpdateDies(j) ==
    /\ job[j].step # "idle"
    /\ job' = [job EXCEPT ![j] = NoJob]
    /\ UNCHANGED <<active, bans, tokens, begun, check, davVars>>

BanExpires(u) ==
    /\ u \in bans
    /\ bans' = bans \ {u}
    /\ UNCHANGED <<active, tokens, jobVars, check, davVars>>

-----------------------------------------------------------------------------
(* Tokens and requests with a token *)

\* Every provider finds the user by what the client shows, as the refresh does,
\* and refuses any whose status is not ACTIVE ...
LogIn(r, u) ==
    /\ check[r].step = "idle"
    /\ u \in active
    /\ check' = [check EXCEPT ![r] = [step |-> "signing", user |-> u, barred |-> FALSE]]
    /\ UNCHANGED <<active, bans, tokens, jobVars, davVars>>

\* ... and the tokens are issued later, whatever the status is by then.
IssueTokens(r) ==
    /\ check[r].step = "signing"
    /\ tokens' = tokens \union {check[r].user}
    /\ check' = [check EXCEPT ![r] = NoCheck]
    /\ UNCHANGED <<active, bans, jobVars, davVars>>

TokenExpires(u) ==
    /\ u \in tokens
    /\ tokens' = tokens \ {u}
    /\ UNCHANGED <<active, bans, jobVars, check, davVars>>

\* The claims say ACTIVE in every token; the ban list is asked first.
CheckBans(r, u) ==
    /\ check[r].step = "idle"
    /\ u \in tokens \ bans
    /\ check' = [check EXCEPT ![r] =
           [step |-> "cleared", user |-> u, barred |-> u \notin active]]
    /\ UNCHANGED <<active, bans, tokens, jobVars, davVars>>

\* Mutant: the ban list is enough.
CheckStatusLater(r) ==
    /\ check[r].step = "cleared"
    /\ check' = [check EXCEPT ![r].step = "admitted"]
    /\ UNCHANGED <<active, bans, tokens, jobVars, davVars>>

CheckStatus(r) ==
    /\ check[r].step = "cleared"
    /\ check' = [check EXCEPT ![r] =
           IF check[r].user \in active THEN [check[r] EXCEPT !.step = "admitted"] ELSE NoCheck]
    /\ UNCHANGED <<active, bans, tokens, jobVars, davVars>>

Serve(r) ==
    /\ check[r].step = "admitted"
    /\ check' = [check EXCEPT ![r] = NoCheck]
    /\ UNCHANGED <<active, bans, tokens, jobVars, davVars>>

-----------------------------------------------------------------------------
(* WebDAV: basic authentication with a cache *)

\* A hit never lets anybody in: the cached account id is a UUID and is parsed
\* with int(), which raises.
DavHit(r, u) ==
    /\ u \in davCache
    /\ check[r].step = "idle"
    /\ davReply' = [davReply EXCEPT ![u] = "error"]
    /\ UNCHANGED <<active, bans, tokens, jobVars, check, account, revoking, davCache>>

\* Status, account and password are read from the database ...
DavMiss(r, u) ==
    /\ u \notin davCache
    /\ check[r].step = "idle"
    /\ IF u \in active /\ u \in account
       THEN /\ check' = [check EXCEPT ![r] =
                   [step |-> "verified", user |-> u, barred |-> FALSE]]
            /\ UNCHANGED davReply
       ELSE /\ davReply' = [davReply EXCEPT ![u] = "refused"]
            /\ UNCHANGED check
    /\ UNCHANGED <<active, bans, tokens, jobVars, account, revoking, davCache>>

\* ... and the result is cached afterwards, whatever has happened in between.
DavStore(r) ==
    LET u == check[r].user IN
    /\ check[r].step = "verified"
    /\ davCache' = davCache \union {u}
    /\ davReply' = [davReply EXCEPT ![u] = "ok"]
    /\ check' = [check EXCEPT ![r].step = "admitted"]
    /\ UNCHANGED <<active, bans, tokens, jobVars, account, revoking>>

\* The account is deleted, or its password is not the client's any more.
DavRevoke(u) ==
    /\ u \in account
    /\ account' = account \ {u}
    /\ revoking' = revoking \union {u}
    /\ UNCHANGED <<active, bans, tokens, jobVars, check, davCache, davReply>>

\* A new account, of the name the client uses; the cache is not told.
DavCreate(u) ==
    /\ u \notin account
    /\ account' = account \union {u}
    /\ UNCHANGED <<active, bans, tokens, jobVars, check, revoking, davCache, davReply>>

\* The client has the right password again; its account is taken out of the
\* cache as well.
DavGrant(u) ==
    /\ u \notin account
    /\ account' = account \union {u}
    /\ revoking' = revoking \union {u}
    /\ UNCHANGED <<active, bans, tokens, jobVars, check, davCache, davReply>>

\* The keys of every account of that name go, those of other users included.
DavInvalidate(u) ==
    /\ u \in revoking
    /\ revoking' = revoking \ {u}
    /\ davCache' \in {davCache \ {u}, {}}
    /\ UNCHANGED <<active, bans, tokens, jobVars, check, account, davReply>>

\* Mutant: the key is set without ex=.
DavStays(u) ==
    /\ u \in davCache \ Users
    /\ davCache' = davCache \ {u}
    /\ UNCHANGED <<active, bans, tokens, jobVars, check, account, revoking, davReply>>

DavExpires(u) ==
    /\ u \in davCache
    /\ davCache' = davCache \ {u}
    /\ UNCHANGED <<active, bans, tokens, jobVars, check, account, revoking, davReply>>

-----------------------------------------------------------------------------

AccessNext ==
    \/ \E j \in Jobs, u \in Users, on \in BOOLEAN : UpdateLoad(j, u, on)
    \/ \E j \in Jobs :
          UpdateCommit(j) \/ UpdateRefresh(j) \/ UpdateTell(j) \/ UpdateDies(j)
    \/ \E u \in Users : BanExpires(u) \/ TokenExpires(u)
    \/ \E r \in Requests, u \in Users :
          LogIn(r, u) \/ CheckBans(r, u) \/ DavMiss(r, u) \/ DavHit(r, u)
    \/ \E r \in Requests : IssueTokens(r) \/ CheckStatus(r) \/ Serve(r) \/ DavStore(r)
    \/ \E u \in Users :
          DavCreate(u) \/ DavRevoke(u) \/ DavGrant(u) \/ DavInvalidate(u) \/ DavExpires(u)

\* Redis drops a key of the cache when its time is over; a request that has begun
\* ends; a WebDAV client goes on asking.  Nothing is assumed of the administration.
RequestStep(r) == IssueTokens(r) \/ CheckStatus(r) \/ Serve(r) \/ DavStore(r)
DavAsks(u) == \E r \in Requests : DavMiss(r, u)

AccessFairness ==
    /\ \A u \in Users : WF_accessVars(DavExpires(u))
    /\ \A r \in Requests : WF_accessVars(RequestStep(r))
DavFairness == \A u \in Users : SF_accessVars(DavAsks(u))

AccessSpec == AccessInit /\ [][AccessNext]_accessVars /\ AccessFairness /\ DavFairness

-----------------------------------------------------------------------------
(* Properties *)

JobTypes ==
    {NoJob} \union
    [step : {"loaded", "committed", "tell"}, user : Users, old : BOOLEAN, on : BOOLEAN]
CheckTypes ==
    {NoCheck} \union
    [step : {"signing", "cleared", "verified", "admitted"}, user : Users, barred : BOOLEAN]

AccessTypeOK ==
    /\ active \subseteq Users
    /\ bans \subseteq Users
    /\ tokens \subseteq Users
    /\ job \in [Jobs -> JobTypes]
    /\ begun \in 0 .. MaxUpdates
    /\ check \in [Requests -> CheckTypes]
    /\ account \subseteq Users
    /\ revoking \subseteq Users
    /\ davCache \subseteq Users
    /\ davReply \in [Users -> {"none", "ok", "refused", "error"}]

\* Nobody whose status was not ACTIVE when the request began, and has not become
\* ACTIVE since, is let in: not with a token issued earlier, nor with one from a
\* login that the ban has overtaken, not while Redis does not know of the ban yet or
\* any more, not from the WebDAV cache.
BannedRefused ==
    \A r \in Requests : check[r].step = "admitted" => ~check[r].barred

\* A WebDAV client that goes on asking with the right password is let in again
\* and again, the failing cache hits in between notwithstanding.
DavServed ==
    \A u \in Users :
        <>[](u \in active \intersect account) => (davReply[u] = "error" ~> davReply[u] = "ok")
=============================================================================
