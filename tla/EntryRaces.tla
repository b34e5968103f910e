------------------------------ MODULE EntryRaces ------------------------------
(***************************************************************************)
(* The entry table of EntryTree when requests overlap: each of them reads  *)
(* and checks first and writes what it has decided later.                  *)
(*                                                                         *)
(* A write goes by primary key and changes only the columns that differ    *)
(* from the row as it was loaded.  What the database refuses is a missing  *)
(* row, a parent that is gone and a name that the partial unique index has *)
(* already.  All rows are folders; a name is one of a few.                 *)
(***************************************************************************)
EXTENDS Naturals

CONSTANTS
    Ids,            \* primary keys an Entry row can take
    Root,           \* the row of the user's root directory
    NoId,           \* SQL NULL in a foreign key column
    Names,          \* the names entries may have
    Handlers        \* requests in progress at one time

ASSUME RaceConstants == Root \in Ids /\ NoId \notin Ids /\ Names # {}

VARIABLES
    rows,       \* ids present in the table
    name,       \* column name
    parent,     \* column parent_id
    trash,      \* ids whose deleted_at is set
    origin,     \* column deleted_original_parent_id
    handler,    \* what each request has decided
    lone        \* a move overlaps with nothing, its target reached by path (fixed)

rowVars == <<rows, name, parent, trash, origin>>
raceVars == <<rowVars, handler, lone>>

Idle == [step |-> "idle"]
SomeName == CHOOSE n \in Names : TRUE

RaceInit ==
    /\ rows = {Root}
    /\ name = [o \in Ids |-> SomeName]
    /\ parent = [o \in Ids |-> NoId]
    /\ trash = {}
    /\ origin = [o \in Ids |-> NoId]
    /\ handler = [h \in Handlers |-> Idle]
    /\ lone \in BOOLEAN

Live == rows \ trash
\* Entry.get_root, which fails unless it finds exactly one.
RootRows == {o \in Live : parent[o] = NoId}

NamesIn(p) == {name[c] : c \in {c \in Live : parent[c] = p}}

\* What hangs below o, o included: the least set that holds o and all children.
Subtree(o) ==
    LET closed == {S \in SUBSET rows : o \in S /\ \A x \in rows : parent[x] \in S => x \in S}
    IN  {x \in rows : \A S \in closed : x \in S}

\* The walk from o up to the row without a parent, o included.
Ancestry(o) ==
    LET closed == {S \in SUBSET rows : o \in S /\ \A x \in S : parent[x] \in rows => parent[x] \in S}
    IN  {x \in rows : \A S \in closed : x \in S}

Decides(h, what) ==
    /\ handler[h] = Idle
    /\ lone => \A g \in Handlers : handler[g].step # "move"
    /\ handler' = [handler EXCEPT ![h] = what]
    /\ UNCHANGED <<rowVars, lone>>

Done(h) == handler' = [handler EXCEPT ![h] = Idle] /\ UNCHANGED lone

\* Keys are UUIDs: a new row takes one that no row has, or had while a request
\* that still runs has seen it, and never the root's.
NewKey(o) ==
    /\ o \notin rows \union {Root}
    /\ \A h \in Handlers : \A column \in DOMAIN handler[h] : handler[h][column] # o

\* The index covers the rows whose deleted_at is NULL and, as NULLs differ, whose
\* parent is not NULL.
Free(o, p, n) ==
    \A x \in Live \ {o} : ~(parent[x] = p /\ p # NoId /\ name[x] = n)

-----------------------------------------------------------------------------
(* Requests: what they decide, and what they write *)

CreateCheck(h, p, n) ==
    /\ p \in Live
    /\ n \notin NamesIn(p)
    /\ Decides(h, [step |-> "create", to |-> p, name |-> n])

\* Mutant: the check is trusted.
CreateUnchecked(h, o) ==
    LET what == handler[h] IN
    /\ what.step = "create"
    /\ NewKey(o)
    /\ what.to \in rows
    /\ rows' = rows \union {o}
    /\ name' = [name EXCEPT ![o] = what.name]
    /\ parent' = [parent EXCEPT ![o] = what.to]
    /\ Done(h)
    /\ UNCHANGED <<trash, origin>>

Create(h, o) ==
    LET what == handler[h] IN
    /\ what.step = "create"
    /\ NewKey(o)
    /\ what.to \in rows /\ Free(o, what.to, what.name)
    /\ rows' = rows \union {o}
    /\ name' = [name EXCEPT ![o] = what.name]
    /\ parent' = [parent EXCEPT ![o] = what.to]
    /\ Done(h)
    /\ UNCHANGED <<trash, origin>>

\* A move that lone requires to overlap with nothing, to a folder the user sees.
AloneAndSeen(dst) ==
    /\ \A g \in Handlers : handler[g] = Idle
    /\ Root \in Live
    /\ dst \in Subtree(Root)

\* Mutant: only the target itself is kept out, not its ancestors.
MoveNearCheck(h, o, dst) ==
    /\ lone => AloneAndSeen(dst)
    /\ o \in Live /\ parent[o] # NoId
    /\ dst \in Live
    /\ o # dst
    /\ name[o] \notin NamesIn(dst)
    /\ Decides(h, [step |-> "move", id |-> o, to |-> dst])

\* The ancestors of the target are looked at here, and not again.
MoveCheck(h, o, dst) ==
    /\ lone => AloneAndSeen(dst)
    /\ o \in Live /\ parent[o] # NoId
    /\ dst \in Live
    /\ o \notin Ancestry(dst)
    /\ name[o] \notin NamesIn(dst)
    /\ Decides(h, [step |-> "move", id |-> o, to |-> dst])

Move(h) ==
    LET what == handler[h] IN
    /\ what.step = "move"
    /\ {what.id, what.to} \subseteq rows
    /\ what.id \in trash \/ Free(what.id, what.to, name[what.id])
    /\ parent' = [parent EXCEPT ![what.id] = what.to]
    /\ Done(h)
    /\ UNCHANGED <<rows, name, trash, origin>>

\* REST leaves out rows without a parent; WebDAV deletes what its path leads to,
\* which the row that get_root finds may be.
DeleteCheck(h, o) ==
    /\ o \in Live
    /\ parent[o] # NoId \/ RootRows = {o}
    /\ Decides(h, [step |-> "delete", id |-> o, parent |-> parent[o], origin |-> origin[o]])

\* The original parent is the one the row was loaded with.
SoftDelete(h) ==
    LET what == handler[h] IN
    /\ what.step = "delete"
    /\ what.id \in rows
    /\ what.parent \in rows \union {NoId}
    /\ trash' = trash \union {what.id}
    /\ parent' = [parent EXCEPT ![what.id] = NoId]
    /\ origin' = [origin EXCEPT ![what.id] = IF what.parent # what.origin THEN what.parent ELSE @]
    /\ Done(h)
    /\ UNCHANGED <<rows, name>>

\* A name that is taken is replaced by one that is not.
DecidesRestore(h, o, target, n) ==
    /\ n \notin NamesIn(target)
    /\ name[o] \notin NamesIn(target) => n = name[o]
    /\ Decides(h, [step |-> "restore", id |-> o, to |-> target, name |-> n,
                   parent |-> parent[o], origin |-> origin[o], old |-> name[o]])

\* Mutant: without a root directory what has no other place comes back without a parent.
RestoreNowhere(h, o, n) ==
    /\ o \in trash
    /\ \E r \in RootRows \union {NoId} :
          DecidesRestore(h, o, IF origin[o] \in Live THEN origin[o] ELSE r, n)

\* The root directory is looked up first: with none, or a second row that looks
\* like one, nothing is restored.
RestoreCheck(h, o, n) ==
    /\ o \in trash
    /\ \E r \in rows :
          /\ RootRows = {r}
          /\ DecidesRestore(h, o, IF origin[o] \in Live THEN origin[o] ELSE r, n)

Restore(h) ==
    LET what == handler[h]
        up == IF what.to # what.parent THEN what.to ELSE parent[what.id]
        n == IF what.name # what.old THEN what.name ELSE name[what.id]
    IN
    /\ what.step = "restore"
    /\ {what.id, what.to} \subseteq rows
    /\ Free(what.id, up, n)
    /\ trash' = trash \ {what.id}
    /\ parent' = [parent EXCEPT ![what.id] = up]
    /\ origin' = [origin EXCEPT ![what.id] = IF what.origin # NoId THEN NoId ELSE @]
    /\ name' = [name EXCEPT ![what.id] = n]
    /\ Done(h)
    /\ UNCHANGED rows

\* What is in the trash now is deleted later by its id alone.
PurgeCheck(h, o) ==
    /\ o \in trash
    /\ Decides(h, [step |-> "purge", id |-> o])

\* The rows below go by CASCADE.
Purge(h) ==
    LET gone == Subtree(handler[h].id) IN
    /\ handler[h].step = "purge"
    /\ handler[h].id \in rows
    /\ rows' = rows \ gone
    /\ trash' = trash \ gone
    /\ parent' = [o \in Ids |-> IF o \in gone THEN NoId ELSE parent[o]]
    /\ origin' = [o \in Ids |-> IF o \in gone \/ origin[o] \in gone THEN NoId ELSE origin[o]]
    /\ name' = [o \in Ids |-> IF o \in gone THEN SomeName ELSE name[o]]
    /\ Done(h)

\* Refused by the database, or killed.
HandlerFails(h) ==
    /\ handler[h] # Idle
    /\ Done(h)
    /\ UNCHANGED rowVars

-----------------------------------------------------------------------------

RaceNext ==
    \/ \E h \in Handlers, o \in rows, n \in Names : CreateCheck(h, o, n) \/ RestoreCheck(h, o, n)
    \/ \E h \in Handlers, o, dst \in rows : MoveCheck(h, o, dst)
    \/ \E h \in Handlers, o \in rows : DeleteCheck(h, o) \/ PurgeCheck(h, o)
    \/ \E h \in Handlers, o \in Ids : Create(h, o)
    \/ \E h \in Handlers : Move(h) \/ SoftDelete(h) \/ Restore(h) \/ Purge(h) \/ HandlerFails(h)

RaceSpec == RaceInit /\ [][RaceNext]_raceVars

-----------------------------------------------------------------------------
(* Properties *)

HandlerTypes ==
    {Idle} \union
    [step : {"create"}, to : Ids, name : Names] \union
    [step : {"move"}, id : Ids, to : Ids] \union
    [step : {"delete"}, id : Ids, parent : Ids \union {NoId}, origin : Ids \union {NoId}] \union
    [step : {"restore"}, id : Ids, to : Ids, name : Names,
     parent : Ids \union {NoId}, origin : Ids \union {NoId}, old : Names] \union
    [step : {"purge"}, id : Ids]

RaceTypeOK ==
    /\ rows \subseteq Ids
    /\ name \in [Ids -> Names]
    /\ parent \in [Ids -> Ids \union {NoId}]
    /\ trash \subseteq rows
    /\ origin \in [Ids -> Ids \union {NoId}]
    /\ handler \in [Handlers -> HandlerTypes]
    /\ lone \in BOOLEAN

\* Overlapping requests leave no two entries of one directory with one name and no
\* parent, present or remembered, that is gone: the index and the keys see to it
\* where the checks have been overtaken.
NamesAndParentsHold ==
    /\ \A s, t \in Live : parent[s] # NoId /\ parent[s] = parent[t] /\ name[s] = name[t] => s = t
    /\ \A o \in rows : {parent[o], origin[o]} \subseteq rows \union {NoId}

\* What closes a cycle of parent_id is a move that overlaps with another request, or
\* one into a deleted folder: requests that decide late where a row was, or goes
\* back to, do not, whatever else they overlap with.
AcyclicAlone ==
    lone => \A S \in (SUBSET rows) \ {{}} : \E o \in S : parent[o] \notin S
=============================================================================
