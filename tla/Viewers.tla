------------------------------- MODULE Viewers -------------------------------
(***************************************************************************)
(* The file applications: what the administration registers, which         *)
(* extensions each opens, which groups may use it, which one a user        *)
(* prefers, and who is offered what.                                       *)
(*                                                                         *)
(* A list is replaced by deleting the rows that were read and inserting    *)
(* new ones, so rows are told apart by a mark, their id.  A query      *)
(* reads the applications of an extension first and then, one by one,      *)
(* whether the group of the user is linked to them.                        *)
(***************************************************************************)
EXTENDS Naturals, FiniteSets

CONSTANTS
    Apps,           \* each is created at most once
    Exts,           \* extensions, lower case and without the dot
    Teams,          \* groups, each with one user
    Callers         \* requests in progress at one time

ASSUME ViewerConstants ==
    IsFiniteSet(Exts) /\ IsFiniteSet(Teams) /\ IsFiniteSet(Callers)

VARIABLES
    apps,           \* Unborn, Gone, or which of the Flags the row has set
    carries,        \* rows of FileAppExtension: application, extension, mark
    grants,         \* rows of FileAppGroupLink: application, group, mark
    favourites,     \* rows of UserFileAppDefault: group, extension, application
    call,           \* what each request is doing
    wasOn,          \* applications enabled at some moment since the request began (history)
    wasOpen         \* those open at some moment since then, and for whom (history)

appVars == <<apps, carries, grants, favourites>>
viewerVars == <<appVars, call, wasOn, wasOpen>>

Flags == {"enabled", "restricted"}
Unborn == {"unborn"}
Gone == {"gone"}
Registered == {a \in Apps : apps[a] \subseteq Flags}

Hangup == [step |-> "none"]
Calls(c, what) == call[c] = Hangup /\ call' = [call EXCEPT ![c] = what]
HangsUp(c) == call' = [call EXCEPT ![c] = Hangup]

ViewersInit ==
    /\ apps = [a \in Apps |-> Unborn]
    /\ carries = {} /\ grants = {} /\ favourites = {}
    /\ call = [c \in Callers |-> Hangup]
    /\ wasOn = [c \in Callers |-> {}] /\ wasOpen = [c \in Callers |-> {}]

\* The mark of what a write inserts: none of a row that is there or was read.
Marks(rows, step) ==
    {row[3] : row \in rows \union
        UNION {call[c].old : c \in {d \in Callers : call[d].step = step}}}

Fresh(rows, step) ==
    LET marks == Marks(rows, step) IN
    CHOOSE n \in 1..(Cardinality(marks) + 1) : n \notin marks

-----------------------------------------------------------------------------
(* The administration *)

\* The row is committed alone, each extension after it, the links at the end.
CreateApp(c, a, flags, G) ==
    /\ apps[a] = Unborn
    /\ apps' = [apps EXCEPT ![a] = flags]
    /\ Calls(c, [step |-> "fill", app |-> a, groups |-> G])
    /\ UNCHANGED <<carries, grants, favourites>>

Carried(a) == {x \in Exts : \E row \in carries : row[1] = a /\ row[2] = x}

\* An extension that comes twice, once in capitals perhaps, ends the request: the
\* application stays, without its links, and its key is taken.
AddExtension(c, x) ==
    LET a == call[c].app IN
    /\ call[c].step = "fill"
    /\ IF a \in Registered /\ x \notin Carried(a)
       THEN /\ carries' = carries \union {<<a, x, Fresh(carries, "extensions")>>}
            /\ UNCHANGED call
       ELSE HangsUp(c) /\ UNCHANGED carries
    /\ UNCHANGED <<apps, grants, favourites>>

LinkGroups(c) ==
    LET a == call[c].app IN
    /\ call[c].step = "fill"
    /\ IF a \in Registered
       THEN LET n == Fresh(grants, "groups") IN
            grants' = grants \union {<<a, g, n>> : g \in call[c].groups}
       ELSE UNCHANGED grants
    /\ HangsUp(c)
    /\ UNCHANGED <<apps, carries, favourites>>

LoadApp(c, a, flags) ==
    /\ a \in Registered
    /\ Calls(c, [step |-> "patch", app |-> a, old |-> apps[a], new |-> flags])
    /\ UNCHANGED appVars

\* The columns that differ from what was loaded are written.
SaveApp(c) ==
    LET a == call[c].app
        old == call[c].old
        new == call[c].new
    IN
    /\ call[c].step = "patch"
    /\ apps' = IF a \in Registered
               THEN [apps EXCEPT ![a] = (@ \ (old \ new)) \union (new \ old)] ELSE apps
    /\ HangsUp(c)
    /\ UNCHANGED <<carries, grants, favourites>>

\* The foreign keys cascade.
DeleteApp(a) ==
    /\ a \in Registered
    /\ apps' = [apps EXCEPT ![a] = Gone]
    /\ carries' = {row \in carries : row[1] # a}
    /\ grants' = {row \in grants : row[1] # a}
    /\ favourites' = {row \in favourites : row[3] # a}
    /\ UNCHANGED <<call>>

LoadExtensions(c, a, X) ==
    /\ a \in Registered
    /\ Calls(c, [step |-> "extensions", app |-> a, exts |-> X,
                 old |-> {row \in carries : row[1] = a}])
    /\ UNCHANGED appVars

\* With what the discovery document of a WOPI server lists, if that is anything.
Discover(c, a, X) == X # {} /\ LoadExtensions(c, a, X)

\* One commit: a row that another request has inserted meanwhile is not deleted,
\* and if it has the same extension the commit fails.
ReplaceExtensions(c) ==
    LET a == call[c].app
        kept == carries \ call[c].old
    IN
    /\ call[c].step = "extensions"
    /\ IF a \in Registered /\ \A row \in kept : row[1] = a => row[2] \notin call[c].exts
       THEN LET n == Fresh(carries, "extensions") IN
            carries' = kept \union {<<a, x, n>> : x \in call[c].exts}
       ELSE UNCHANGED carries
    /\ HangsUp(c)
    /\ UNCHANGED <<apps, grants, favourites>>

LoadGroups(c, a, G) ==
    /\ a \in Registered
    /\ Calls(c, [step |-> "groups", app |-> a, groups |-> G,
                 old |-> {row \in grants : row[1] = a}])
    /\ UNCHANGED appVars

\* The links have a key of their own: two of the same group can be there.
ReplaceGroups(c) ==
    /\ call[c].step = "groups"
    /\ IF call[c].app \in Registered
       THEN LET n == Fresh(grants, "groups") IN
            grants' = (grants \ call[c].old) \union
                          {<<call[c].app, g, n>> : g \in call[c].groups}
       ELSE UNCHANGED grants
    /\ HangsUp(c)
    /\ UNCHANGED <<apps, carries, favourites>>

-----------------------------------------------------------------------------
(* The users *)

\* The list of viewers; or a WOPI session, which takes the first it may of those
\* that are of this type.  The type is not kept: any application may be of it.
AskViewers(c, g, x, session, wopi) ==
    LET usable == {a \in Registered : /\ x \in Carried(a) /\ "enabled" \in apps[a]
                                      /\ session => a \in wopi}
    IN
    /\ Calls(c, [step |-> "filter", team |-> g, session |-> session, offered |-> {},
                 left |-> usable, limited |-> {a \in usable : "restricted" \in apps[a]}])
    /\ UNCHANGED appVars

Linked(a, g) == \E row \in grants : row[1] = a /\ row[2] = g

Filter(c, a, permitted) ==
    LET q == call[c] IN
    /\ q.step = "filter" /\ a \in q.left
    /\ call' = [call EXCEPT
           ![c].offered = IF permitted THEN @ \union {a} ELSE @,
           ![c].left = IF permitted /\ q.session THEN {} ELSE @ \ {a}]
    /\ UNCHANGED appVars

\* Mutant: an application without any link is taken for one that is open to all.
CheckAnyLink(c, a) ==
    Filter(c, a, \/ a \notin call[c].limited
                 \/ Linked(a, call[c].team) \/ \A row \in grants : row[1] # a)

CheckViewer(c, a) ==
    Filter(c, a, a \notin call[c].limited \/ Linked(a, call[c].team))

AnswerViewers(c) ==
    /\ call[c].step = "filter" /\ call[c].left = {}
    /\ HangsUp(c)
    /\ UNCHANGED appVars

\* Neither the group nor whether the application is enabled is looked at.  In one
\* step: an application that stops to carry the extension before the write, or
\* after it, leaves the same.
SetFavourite(g, x, a) ==
    /\ a \in Registered /\ x \in Carried(a)
    /\ favourites' = {row \in favourites : row[1] # g \/ row[2] # x} \union {<<g, x, a>>}
    /\ UNCHANGED <<apps, carries, grants, call>>

DropFavourite(row) ==
    /\ row \in favourites
    /\ favourites' = favourites \ {row}
    /\ UNCHANGED <<apps, carries, grants, call>>

CallerDies(c) ==
    /\ call[c] # Hangup
    /\ HangsUp(c)
    /\ UNCHANGED appVars

-----------------------------------------------------------------------------

OnNow == {a \in Registered : "enabled" \in apps[a]}
OpenNow ==
    {p \in Registered \X Teams : "restricted" \notin apps[p[1]] \/ Linked(p[1], p[2])}

\* What a query has seen so far; one that begins sees what is.
Since(c, seen, now) == IF call[c].step = "filter" THEN seen ELSE now

ViewersStep ==
    \/ \E c \in Callers, a \in Apps, flags \in SUBSET Flags :
          LoadApp(c, a, flags) \/ \E G \in SUBSET Teams : CreateApp(c, a, flags, G)
    \/ \E c \in Callers, x \in Exts : AddExtension(c, x)
    \/ \E a \in Apps : DeleteApp(a)
    \/ \E c \in Callers, a \in Apps, X \in SUBSET Exts :
          LoadExtensions(c, a, X) \/ Discover(c, a, X)
    \/ \E c \in Callers, a \in Apps, G \in SUBSET Teams : LoadGroups(c, a, G)
    \/ \E c \in Callers, g \in Teams, x \in Exts, session \in BOOLEAN, wopi \in SUBSET Apps :
          AskViewers(c, g, x, session, wopi)
    \/ \E g \in Teams, x \in Exts, a \in Apps : SetFavourite(g, x, a)
    \/ \E c \in Callers, a \in Apps : CheckViewer(c, a)
    \/ \E row \in favourites : DropFavourite(row)
    \/ \E c \in Callers :
          \/ LinkGroups(c) \/ SaveApp(c) \/ ReplaceExtensions(c) \/ ReplaceGroups(c)
          \/ AnswerViewers(c) \/ CallerDies(c)

ViewersNext ==
    /\ ViewersStep
    /\ wasOn' = [c \in Callers |->
           IF call'[c].step # "filter" THEN {}
           ELSE Since(c, wasOn[c], OnNow) \union OnNow']
    /\ wasOpen' = [c \in Callers |->
           IF call'[c].step # "filter" THEN {}
           ELSE Since(c, wasOpen[c], OpenNow) \union OpenNow']

ViewersSpec == ViewersInit /\ [][ViewersNext]_viewerVars

-----------------------------------------------------------------------------
(* Properties *)

CallTypes ==
    {Hangup} \union
    [step : {"fill"}, app : Apps, groups : SUBSET Teams] \union
    [step : {"patch"}, app : Apps, old : SUBSET Flags, new : SUBSET Flags] \union
    [step : {"extensions"}, app : Apps, exts : SUBSET Exts,
     old : SUBSET (Apps \X Exts \X Nat)] \union
    [step : {"groups"}, app : Apps, groups : SUBSET Teams,
     old : SUBSET (Apps \X Teams \X Nat)] \union
    [step : {"filter"}, team : Teams, session : BOOLEAN, offered : SUBSET Apps,
     left : SUBSET Apps, limited : SUBSET Apps]

ViewersTypeOK ==
    /\ apps \in [Apps -> {Unborn, Gone} \union SUBSET Flags]
    /\ carries \subseteq Registered \X Exts \X Nat
    /\ grants \subseteq Registered \X Teams \X Nat
    /\ favourites \subseteq Teams \X Exts \X Registered
    /\ call \in [Callers -> CallTypes]
    /\ wasOn \in [Callers -> SUBSET Apps]
    /\ wasOpen \in [Callers -> SUBSET (Apps \X Teams)]

\* A viewer is offered, and a WOPI session opened, only with an application that
\* was enabled and open to the user's group while the request ran: not while the
\* application was half made, nor between the links that were and those to come.
RestrictedStaysHidden ==
    \A c \in Callers : call[c].step = "filter" =>
        \A a \in call[c].offered : a \in wasOn[c] /\ <<a, call[c].team>> \in wasOpen[c]
=============================================================================
