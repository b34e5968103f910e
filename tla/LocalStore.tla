----------------------------- MODULE LocalStore -----------------------------
(***************************************************************************)
(* Where the local driver keeps the content of a physical file: the policy *)
(* has a rule for the directory and one for the name, the directories are  *)
(* made when the path is generated, long before anything is written there, *)
(* and whoever deletes a file also removes the directories this empties.   *)
(*                                                                         *)
(* The file system does one call at a time; between two calls, which are   *)
(* awaited one by one, other requests run.  One upload makes one physical  *)
(* file, whose life is followed from the generated path to its deletion.   *)
(* Every upload brings the same original file name.                        *)
(***************************************************************************)
EXTENDS Naturals, Sequences

CONSTANTS
    Contents,   \* physical files; also what the rules draw for each ({randomkey16}, {uuid})
    Date,       \* what {date} stands for all along
    Original,   \* the file name the users give
    Nothing     \* there is no such file

ASSUME StoreConstants == Nothing \notin Contents

VARIABLES
    rule,       \* dir_name_rule as segments; whether the stored name is drawn (fixed)
    dirs,       \* directories below the base directory, which is always there
    disk,       \* what a path holds
    life,       \* where the physical file's upload, and its deletion later, are
    at,         \* the directory it is making, or looking at for cleaning up
    relative    \* rows whose storage_path leaves the base directory out

storeVars == <<rule, dirs, disk, life, at, relative>>

\* auto_rename is FALSE by default; without it the original name is kept.
Rules == [dir : {<<>>, <<"date">>, <<"date", "key">>}, drawn : BOOLEAN]

\* Two files never get the same path: something in it is drawn for each.
Keyed == rule.drawn \/ \E i \in DOMAIN rule.dir : rule.dir[i] = "key"

Segment(placeholder, c) == IF placeholder = "key" THEN c ELSE Date

DirOf(c) == [i \in DOMAIN rule.dir |-> Segment(rule.dir[i], c)]

PathOf(c) == [dir |-> DirOf(c), name |-> IF rule.drawn THEN c ELSE Original]

Places == {<<>>, <<Date>>} \union {<<Date, c>> : c \in Contents}
StorePaths == [dir : Places, name : Contents \union {Original}]

IsThere(d) == d = <<>> \/ d \in dirs

\* What is read at a path: a directory that is removed takes what is in it along.
ReadAt(p) == IF IsThere(p.dir) THEN disk[p] ELSE Nothing

\* WebDAV puts the base directory before the column, which changes no absolute path.
DavFinds(c) == ReadAt(PathOf(c))

\* Everyone else uses the column as it is: without the base directory it is looked
\* up where the server runs, and nothing is there.
RestFinds(c) == IF c \in relative THEN Nothing ELSE ReadAt(PathOf(c))

Inside(d) ==
    {e \in dirs : Len(e) = Len(d) + 1 /\ SubSeq(e, 1, Len(d)) = d}
    \union {p \in StorePaths : p.dir = d /\ disk[p] # Nothing}

StoreInit ==
    /\ rule \in Rules
    /\ dirs = {}
    /\ disk = [p \in StorePaths |-> Nothing]
    /\ life = [c \in Contents |-> "unborn"]
    /\ at = [c \in Contents |-> <<>>]
    /\ relative = {}

Enter(c, stage) == life' = [life EXCEPT ![c] = stage]

-----------------------------------------------------------------------------
(* An upload *)

GeneratePath(c) ==
    /\ life[c] = "unborn"
    /\ Enter(c, "path")
    /\ UNCHANGED <<rule, dirs, disk, at, relative>>

\* One level of makedirs(exist_ok=True); it raises if the level above has been
\* removed meanwhile.
MakeDir(c) ==
    /\ life[c] = "path"
    /\ at[c] # DirOf(c)
    /\ LET next == SubSeq(DirOf(c), 1, Len(at[c]) + 1)
       IN  IF IsThere(at[c])
           THEN /\ dirs' = dirs \union {next}
                /\ at' = [at EXCEPT ![c] = next]
                /\ UNCHANGED life
           ELSE /\ Enter(c, "gone")
                /\ UNCHANGED <<dirs, at>>
    /\ UNCHANGED <<rule, disk, relative>>

\* The file is opened for writing, which cuts off what another row has there and
\* fails where the directory is gone: nobody makes it again.
StoreContent(c) ==
    /\ life[c] = "path"
    /\ at[c] = DirOf(c)
    /\ IF IsThere(at[c])
       THEN disk' = [disk EXCEPT ![PathOf(c)] = c] /\ Enter(c, "stored")
       ELSE UNCHANGED disk /\ Enter(c, "gone")
    /\ UNCHANGED <<rule, dirs, at, relative>>

\* The row is committed with the path as it was generated ...
KeepRow(c) ==
    /\ life[c] = "stored"
    /\ Enter(c, "kept")
    /\ UNCHANGED <<rule, dirs, disk, at, relative>>

\* ... but for a WebDAV PUT, which makes it relative to the base directory.
KeepRelative(c) ==
    /\ life[c] = "stored"
    /\ Enter(c, "kept")
    /\ relative' = relative \union {c}
    /\ UNCHANGED <<rule, dirs, disk, at>>

-----------------------------------------------------------------------------
(* A deletion, and the directories it empties *)

\* Whoever deletes takes what the column leads to; if nothing is there, there is no
\* cleanup.
DeleteContent(c) ==
    /\ life[c] = "kept"
    /\ IF RestFinds(c) = Nothing
       THEN UNCHANGED disk /\ Enter(c, "gone")
       ELSE disk' = [disk EXCEPT ![PathOf(c)] = Nothing] /\ Enter(c, "list")
    /\ UNCHANGED <<rule, dirs, at, relative>>

\* An upload that is given up deletes what it has stored.
GiveUp(c) ==
    /\ life[c] = "stored"
    /\ disk' = [disk EXCEPT ![PathOf(c)] = Nothing]
    /\ Enter(c, IF ReadAt(PathOf(c)) = Nothing THEN "gone" ELSE "list")
    /\ UNCHANGED <<rule, dirs, at, relative>>

ListDir(c) ==
    /\ life[c] = "list"
    /\ Enter(c, IF at[c] \in dirs /\ Inside(at[c]) = {} THEN "rmdir" ELSE "gone")
    /\ UNCHANGED <<rule, dirs, disk, at, relative>>

\* Mutant: the directory has just been found empty, and goes.
RemoveListed(c) ==
    /\ life[c] = "rmdir"
    /\ dirs' = dirs \ {at[c]}
    /\ at' = [at EXCEPT ![c] = SubSeq(at[c], 1, Len(at[c]) - 1)]
    /\ Enter(c, "list")
    /\ UNCHANGED <<rule, disk, relative>>

\* rmdir refuses a directory that has something in it by now; the walk goes on
\* one level up, as far as the base directory.
RemoveDir(c) ==
    /\ life[c] = "rmdir"
    /\ IF at[c] \in dirs /\ Inside(at[c]) = {}
       THEN /\ dirs' = dirs \ {at[c]}
            /\ at' = [at EXCEPT ![c] = SubSeq(at[c], 1, Len(at[c]) - 1)]
            /\ Enter(c, "list")
       ELSE /\ Enter(c, "gone")
            /\ UNCHANGED <<dirs, at>>
    /\ UNCHANGED <<rule, disk, relative>>

\* The request ends where it is: an error, or a crash.
StoreFails(c) ==
    /\ life[c] \in {"path", "stored", "list", "rmdir"}
    /\ Enter(c, "gone")
    /\ UNCHANGED <<rule, dirs, disk, at, relative>>

StoreNext ==
    \E c \in Contents :
        \/ GeneratePath(c) \/ MakeDir(c) \/ StoreContent(c)
        \/ KeepRow(c) \/ KeepRelative(c)
        \/ DeleteContent(c) \/ GiveUp(c) \/ ListDir(c) \/ RemoveDir(c) \/ StoreFails(c)

-----------------------------------------------------------------------------
(* Properties *)

StoreTypeOK ==
    /\ rule \in Rules
    /\ dirs \subseteq Places \ {<<>>}
    /\ disk \in [StorePaths -> Contents \union {Nothing}]
    /\ life \in [Contents -> {"unborn", "path", "stored", "kept", "list", "rmdir", "gone"}]
    /\ at \in [Contents -> Places]
    /\ relative \subseteq Contents

\* As long as the policy's rules draw something for each file, WebDAV finds a row's
\* own content for it, whatever other uploads write into the same directories and
\* other deletions remove of them at the same time; and so do downloads, edits and
\* deletions, but for the rows of a WebDAV PUT: for those they find nothing, and the
\* content is never deleted.  (With the rules a new policy has by default the path
\* is the original name, and the second upload of a name overwrites the first.)
OwnPaths ==
    Keyed => \A c \in Contents : life[c] = "kept" =>
                /\ DavFinds(c) = c
                /\ c \notin relative => RestFinds(c) = c
=============================================================================
