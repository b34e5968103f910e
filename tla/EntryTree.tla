------------------------------ MODULE EntryTree ------------------------------
(***************************************************************************)
(* The entry table of one user: folders and files, the tree that parent_id *)
(* draws over them, and the trash.                                         *)
(*                                                                         *)
(* A handler reads, checks and commits once, so one action is one request. *)
(* Requests run one at a time here.                                        *)
(*                                                                         *)
(* A trashed entry is a row with deleted_at set.  Deleting a folder marks  *)
(* the folder alone and detaches it (parent_id := NULL): what it contains  *)
(* keeps its own deleted_at = NULL and hangs below a trashed top.          *)
(***************************************************************************)
EXTENDS Integers, Sequences, FiniteSets

CONSTANTS
    Ids,            \* primary keys an Entry row can take
    Root,           \* the row of the user's root directory
    NoId,           \* SQL NULL in a foreign key column
    Stems,          \* file names without a number, as users make them up
    RequestNames,   \* the names requests ask for
    MaxCopies       \* bound: numbers a name may collect by repeated restoring

Kinds == {"file", "folder"}

\* "report (1) (2)" is stem "report" with copies <<1, 2>>; the extension, which
\* the code cuts off and puts back, belongs to the stem.
Name == [stem : Stems \union {"/"}, copies : Seq(Nat)]

\* The name of the root row, "/": no request can ask for a name with a slash.
RootName == [stem |-> "/", copies |-> <<>>]

ASSUME EntryConstants ==
    /\ Root \in Ids
    /\ NoId \notin Ids
    /\ IsFiniteSet(Ids)
    /\ RequestNames \subseteq Name
    /\ MaxCopies \in Nat

VARIABLES
    rows,       \* ids present in the table
    kind,       \* column type
    name,       \* column name
    parent,     \* column parent_id
    trash,      \* ids whose deleted_at is set
    origin,     \* column deleted_original_parent_id
    byPath      \* clients only name targets they reach from the root (fixed)

vars == <<rows, kind, name, parent, trash, origin, byPath>>

-----------------------------------------------------------------------------
(* Reading the tree *)

Live == rows \ trash

\* Entry.get_children: the live rows directly below p.
Children(p) == {c \in Live : parent[c] = p}

NamesIn(p) == {name[c] : c \in Children(p)}

ChildClosed(S) == \A x \in rows : parent[x] \in S => x \in S

ParentClosed(S) == \A x \in S : parent[x] \in rows => parent[x] \in S

\* What the breadth-first walks over parent_id collect from o down, and what
\* ON DELETE CASCADE removes with o: the least child-closed set holding o.
Subtree(o) ==
    LET closed == {S \in SUBSET rows : o \in S /\ ChildClosed(S)}
    IN  {x \in rows : \A S \in closed : x \in S}

\* The walk from o up to the row without a parent, o included.
Ancestry(o) ==
    LET closed == {S \in SUBSET rows : o \in S /\ ParentClosed(S)}
    IN  {x \in rows : \A S \in closed : x \in S}

\* Mutant of RootRows: deleted_at is not looked at.
AllRootRows == {o \in rows : parent[o] = NoId}

\* Entry.get_root
RootRows == {o \in Live : parent[o] = NoId}

\* Entry.get_by_path, of whose answers the code takes the first: the join over
\* the segments of the path, each live and below the one before.  (Names that end
\* in a blank, which the code strips off the path, are left out.)
ByPath(path) ==
    LET reached[i \in 0..Len(path)] ==
            IF i = 0 THEN RootRows
            ELSE {c \in Live : parent[c] \in reached[i - 1] /\ name[c] = path[i]}
    IN  reached[Len(path)]

\* Entry.get_full_path: the names from below the row without a parent down to o.
FullPath(o) ==
    LET path[x \in Ancestry(o)] ==
            IF parent[x] = NoId THEN <<>> ELSE Append(path[parent[x]], name[x])
    IN  path[o]

\* A user reaches an entry by its path from the root, and in no other way: no
\* path leads anywhere once the root itself is in the trash.
Shown == IF Root \in RootRows THEN Subtree(Root) ELSE {}

-----------------------------------------------------------------------------
(* Requests *)

Init ==
    /\ rows = {Root}
    /\ kind = [o \in Ids |-> "folder"]
    /\ name = [o \in Ids |-> RootName]
    /\ parent = [o \in Ids |-> NoId]
    /\ trash = {}
    /\ origin = [o \in Ids |-> NoId]
    /\ byPath \in BOOLEAN

\* The target directories of create, move and copy: any folder with deleted_at NULL.
\* WebDAV paths and freshly listed directories only lead to visible ones; the
\* handlers accept an id remembered from before its parent was deleted, too.
Targets == {p \in Live : kind[p] = "folder" /\ (byPath => p \in Shown)}

\* Keys are UUIDs: a new row takes one that no row has, and never the root's.
FreshIds == Ids \ (rows \union {Root})

Insert(o, k, p, n) ==
    /\ o \in FreshIds
    /\ n \notin NamesIn(p)
    /\ rows' = rows \union {o}
    /\ kind' = [kind EXCEPT ![o] = k]
    /\ name' = [name EXCEPT ![o] = n]
    /\ parent' = [parent EXCEPT ![o] = p]
    /\ origin' = [origin EXCEPT ![o] = NoId]
    /\ UNCHANGED <<trash, byPath>>

\* The handler looks at the directory and at the names in it before it inserts.
Create(o, k, p, n) ==
    /\ p \in Targets
    /\ Insert(o, k, p, n)

\* The last chunk of an upload inserts a file where, and as, the session was made
\* long before: the directory may have been trashed, or hidden, and the name taken
\* since.  Only the unique index looks at the name again.
FinishUpload(o, p, n) ==
    /\ kind[p] = "folder"
    /\ Insert(o, "file", p, n)

Rename(o, n) ==
    /\ o \in Live
    /\ parent[o] # NoId
    /\ n # name[o]
    /\ n \notin NamesIn(parent[o])
    /\ name' = [name EXCEPT ![o] = n]
    /\ UNCHANGED <<rows, kind, parent, trash, origin, byPath>>

\* Mutant: only the target itself is kept out, not its ancestors.
AcceptedUnchecked(dst) ==
    {s \in Live : parent[s] # NoId /\ s # dst /\ name[s] \notin NamesIn(dst)}

\* What the loops of move and copy do not skip: everything but root rows, the
\* target and its ancestors (no cycles), and names the target already holds.
Accepted(dst) ==
    LET up == Ancestry(dst)
        taken == NamesIn(dst)
    IN  {s \in Live : parent[s] # NoId /\ s \notin up /\ name[s] \notin taken}

\* M is what the loop ends up moving: of two sources with one name the first
\* in database order goes and the other is skipped.
Move(dst) ==
    /\ dst \in Targets
    /\ \E M \in SUBSET Accepted(dst) :
          /\ \A s, t \in M : name[s] = name[t] => s = t
          /\ parent' = [o \in Ids |-> IF o \in M THEN dst ELSE parent[o]]
    /\ UNCHANGED <<rows, kind, name, trash, origin, byPath>>

\* A WebDAV MOVE changes place and name at once and looks at neither itself:
\* both ends are named by path, WsgiDAV refuses a target inside the source (it
\* compares the paths as written, without empty segments here), and the unique
\* index refuses a name that is taken.  What it overwrites goes by DavDelete.
Relocate(o, dst, n) ==
    /\ o \in Shown \ {Root}
    /\ dst \in Shown
    /\ kind[dst] = "folder"
    /\ o \notin Ancestry(dst)
    /\ n \notin {name[c] : c \in Children(dst) \ {o}}
    /\ parent' = [parent EXCEPT ![o] = dst]
    /\ name' = [name EXCEPT ![o] = n]
    /\ UNCHANGED <<rows, kind, trash, origin, byPath>>

\* A copy of what hangs below src, with src itself below dst.  new gives every
\* copied row its fresh id.
Duplicate(src, dst) ==
    /\ \E new \in [Subtree(src) -> FreshIds] :
          LET copies == {new[x] : x \in Subtree(src)}
              source(o) == CHOOSE x \in Subtree(src) : new[x] = o
          IN  /\ \A x, y \in Subtree(src) : new[x] = new[y] => x = y
              /\ rows' = rows \union copies
              /\ kind' = [o \in Ids |-> IF o \in copies THEN kind[source(o)] ELSE kind[o]]
              /\ name' = [o \in Ids |-> IF o \in copies THEN name[source(o)] ELSE name[o]]
              /\ parent' = [o \in Ids |->
                     IF o \notin copies THEN parent[o]
                     ELSE IF source(o) = src THEN dst
                     ELSE new[parent[source(o)]]]
              /\ origin' = [o \in Ids |-> IF o \in copies THEN NoId ELSE origin[o]]
    /\ UNCHANGED <<trash, byPath>>

\* Copying one source; a list of sources is copied one after the other, with
\* a commit for each row.
Copy(src, dst) ==
    /\ dst \in Targets
    /\ src \in Accepted(dst)
    /\ Duplicate(src, dst)

\* A WebDAV COPY checks no name, and the copy keeps the name of its source whatever
\* the client asked for: if that is taken the unique index refuses the copy.
DavCopy(src, dst) ==
    /\ src \in Shown \ {Root}
    /\ dst \in Shown
    /\ kind[dst] = "folder"
    /\ src \notin Ancestry(dst)
    /\ name[src] \notin NamesIn(dst)
    /\ Duplicate(src, dst)

\* Mutant: the trashed entry stays where it hangs.
SoftDeleteInPlace(S) ==
    /\ S \subseteq Live
    /\ \A o \in S : parent[o] # NoId
    /\ trash' = trash \union S
    /\ origin' = [o \in Ids |-> IF o \in S THEN parent[o] ELSE origin[o]]
    /\ UNCHANGED <<rows, kind, name, parent, byPath>>

\* Deletion to the trash: root rows are left out of the batch, and only the
\* listed rows change.
SoftDelete(S) ==
    /\ S \subseteq Live
    /\ \A o \in S : parent[o] # NoId
    /\ trash' = trash \union S
    /\ origin' = [o \in Ids |-> IF o \in S THEN parent[o] ELSE origin[o]]
    /\ parent' = [o \in Ids |-> IF o \in S THEN NoId ELSE parent[o]]
    /\ UNCHANGED <<rows, kind, name, byPath>>

\* A WebDAV DELETE trashes whatever its path leads to, the root directory
\* included: nothing refuses it, and the path "//" leads there.
DavDelete(o) ==
    /\ o \in Shown
    /\ trash' = trash \union {o}
    /\ origin' = [origin EXCEPT ![o] = parent[o]]
    /\ parent' = [parent EXCEPT ![o] = NoId]
    /\ UNCHANGED <<rows, kind, name, byPath>>

\* The original parent if that row exists and its own deleted_at is NULL,
\* the root directory otherwise.
RestoreTarget(o) == IF origin[o] \in Live THEN origin[o] ELSE Root

Numbered(n, k) == [stem |-> n.stem, copies |-> Append(n.copies, k)]

\* Mutant: the conflict is not resolved.
SameName(n, taken) == {n}

\* The names a conflict with the names taken is resolved to: n itself, or n
\* with the least unused number (there is one among the first |taken|).
FreeNames(n, taken) ==
    IF n \notin taken THEN {n}
    ELSE {Numbered(n, k) : k \in
             {i \in 1..Cardinality(taken) :
                 /\ Numbered(n, i) \notin taken
                 /\ \A j \in 1..(i - 1) : Numbered(n, j) \in taken}}

\* Mutant: deleted_at is not reset.
RestoreStillTrashed(o) ==
    /\ o \in trash
    /\ Root \in RootRows
    /\ \E m \in FreeNames(name[o], NamesIn(RestoreTarget(o))) :
          /\ Len(m.copies) <= MaxCopies
          /\ name' = [name EXCEPT ![o] = m]
    /\ parent' = [parent EXCEPT ![o] = RestoreTarget(o)]
    /\ origin' = [origin EXCEPT ![o] = NoId]
    /\ UNCHANGED <<rows, kind, trash, byPath>>

\* Restoring one trashed entry; a list of ids is restored one by one in the
\* same transaction, each seeing what the ones before it did.  The root directory
\* is looked up first, needed or not: with the root in the trash all of it fails.
Restore(o) ==
    /\ o \in trash
    /\ Root \in RootRows
    /\ \E m \in FreeNames(name[o], NamesIn(RestoreTarget(o))) :
          /\ Len(m.copies) <= MaxCopies
          /\ name' = [name EXCEPT ![o] = m]
    /\ parent' = [parent EXCEPT ![o] = RestoreTarget(o)]
    /\ trash' = trash \ {o}
    /\ origin' = [origin EXCEPT ![o] = NoId]
    /\ UNCHANGED <<rows, kind, byPath>>

\* Mutant: deleted_original_parent_id keeps naming rows that are gone.
PurgeDangling(S) ==
    /\ S \subseteq trash
    /\ LET gone == UNION {Subtree(o) : o \in S}
       IN  /\ rows' = rows \ gone
           /\ trash' = trash \ gone
           /\ kind' = [o \in Ids |-> IF o \in gone THEN "folder" ELSE kind[o]]
           /\ name' = [o \in Ids |-> IF o \in gone THEN RootName ELSE name[o]]
           /\ parent' = [o \in Ids |-> IF o \in gone THEN NoId ELSE parent[o]]
           /\ origin' = [o \in Ids |-> IF o \in gone THEN NoId ELSE origin[o]]
    /\ UNCHANGED byPath

\* Deleting trashed tops for good takes their subtrees along (CASCADE) and
\* clears the original parents that pointed there (SET NULL).
Purge(S) ==
    /\ S \subseteq trash
    /\ LET gone == UNION {Subtree(o) : o \in S}
       IN  /\ rows' = rows \ gone
           /\ trash' = trash \ gone
           /\ kind' = [o \in Ids |-> IF o \in gone THEN "folder" ELSE kind[o]]
           /\ name' = [o \in Ids |-> IF o \in gone THEN RootName ELSE name[o]]
           /\ parent' = [o \in Ids |-> IF o \in gone THEN NoId ELSE parent[o]]
           /\ origin' = [o \in Ids |->
                  IF o \in gone \/ origin[o] \in gone THEN NoId ELSE origin[o]]
    /\ UNCHANGED byPath

Next ==
    \/ \E o \in Ids, k \in Kinds, p \in rows, n \in RequestNames : Create(o, k, p, n)
    \/ \E o \in rows, n \in RequestNames : Rename(o, n)
    \/ \E dst \in rows : Move(dst)
    \/ \E o, dst \in rows, n \in RequestNames : Relocate(o, dst, n)
    \/ \E o \in Ids, p \in rows, n \in RequestNames : FinishUpload(o, p, n)
    \/ \E src, dst \in rows : Copy(src, dst)
    \/ \E src, dst \in rows : DavCopy(src, dst)
    \/ \E S \in SUBSET rows : SoftDelete(S)
    \/ \E o \in rows : DavDelete(o)
    \/ \E o \in rows : Restore(o)
    \/ \E S \in SUBSET rows : Purge(S)

Spec == Init /\ [][Next]_vars

-----------------------------------------------------------------------------
(* Properties *)

TypeOK ==
    /\ rows \subseteq Ids
    /\ kind \in [Ids -> Kinds]
    /\ name \in [Ids -> Name]
    /\ parent \in [Ids -> Ids \union {NoId}]
    /\ trash \subseteq rows
    /\ origin \in [Ids -> Ids \union {NoId}]
    /\ \A o \in rows : {parent[o], origin[o]} \subseteq rows \union {NoId}

\* The rows without a parent are the root and the trashed tops: the trash list
\* shows every top and nothing that still hangs in the tree, and get_root
\* (fetch_mode "one") never finds a second row, or another one than the root that
\* registration made.  It may find none: over WebDAV the root can be trashed, and
\* nothing brings it back.
DetachedExactly == \A o \in rows : parent[o] = NoId <=> o \in trash \union {Root}

\* Whatever has children is a folder, although a trashed entry comes back to
\* a parent remembered from long ago: the walks of copy and deletion, which
\* descend into folders only, miss nothing.
ParentsAreFolders == \A o \in rows : parent[o] # NoId => kind[parent[o]] = "folder"

\* Following parent_id never comes back: every set of rows holds one whose
\* parent lies outside.  The ancestor walks, the path query and the recursive
\* walks of copy and deletion end because of it.
Acyclic == \A S \in (SUBSET rows) \ {{}} : \E o \in S : parent[o] \notin S

\* Where a row hangs or, once trashed, hung.
Up(o) == IF o \in trash THEN origin[o] ELSE parent[o]

\* The tree and the trash's memory of it have no cycle together.
UpAcyclic == \A S \in (SUBSET rows) \ {{}} : \E o \in S : Up(o) \notin S

\* Deleting, restoring, moving and copying in any order keeps the parent_id
\* graph a tree, as long as nothing is moved into a deleted directory: the
\* ancestor check of the move and the original parent remembered by the trash
\* never close a cycle between them.  (WebDAV leaves it to WsgiDAV to refuse a move
\* below its own source.)
AcyclicByPath == byPath => Acyclic

\* Two entries of one directory never share a name.  The REST handlers that look at
\* the names themselves (create, rename, move, copy, restore) rely on nothing else
\* here, and are right to as long as requests do not overlap; WebDAV and the late
\* insert of an upload are refused by the unique index.
SiblingNamesUnique ==
    \A s, t \in Live : parent[s] # NoId /\ parent[s] = parent[t] /\ name[s] = name[t] => s = t

\* Whatever a user sees is found by its path, and nothing else is: a directory
\* listing, a WebDAV request and the root of a WebDAV account mean one entry each,
\* whatever has been deleted, restored and renamed under the names on the way.
\* (With the root in the trash nothing is seen, and get_by_path finds nothing.)
PathsFind == \A o \in Shown : ByPath(FullPath(o)) = {o}

\* Only what is out of the user's sight is ever destroyed: a row reachable from
\* the root survives every step, the cascade of a permanent deletion included.
\* (A trashed root has put everything out of sight; deleting it for good takes all.)
VisibleSurvives == [][Shown \subseteq rows']_vars

\* An entry that leaves the trash without being destroyed is back in the
\* user's tree ("restored to its original place, or to the root directory if
\* that does not exist").
RestoredIsVisible ==
    [][\A o \in trash : o \in rows' \ trash' => o \in Shown']_vars
=============================================================================
