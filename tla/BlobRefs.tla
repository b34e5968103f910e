------------------------------ MODULE BlobRefs ------------------------------
(***************************************************************************)
(* Entries share physical files.  A PhysicalFile row counts the entries    *)
(* that reference it; whoever takes the last reference away deletes the    *)
(* content from the storage.                                               *)
(*                                                                         *)
(* The count is an ordinary column: a request reads it, computes the new   *)
(* value in Python and writes that value back, and database and storage do *)
(* not commit together.  One action is one commit, one storage operation   *)
(* or one query; between any two of them other requests run, and a request *)
(* may end there for good (exception, rollback, crash of the server).      *)
(***************************************************************************)
EXTENDS Integers, FiniteSets

CONSTANTS
    Entries,    \* primary keys of Entry rows
    Files,      \* primary keys of PhysicalFile rows, each with a path of its own
    NoFile,     \* SQL NULL in Entry.physical_file_id
    Reqs,       \* requests in progress at one time
    MaxRef      \* bound: highest count a copy may write

ASSUME BlobConstants ==
    /\ IsFiniteSet(Entries)
    /\ NoFile \notin Files
    /\ MaxRef \in Nat

VARIABLES
    entries,    \* Entry rows, the trashed ones included
    file,       \* column Entry.physical_file_id
    rows,       \* PhysicalFile rows
    ref,        \* column PhysicalFile.reference_count
    blobs,      \* contents in the storage, by the row that has (or had) their path
    pc,         \* where each request is
    work,       \* entries a request moves to another file, or deletes
    fresh,      \* file a request is about to reference
    holds,      \* files a request works on
    keep,       \* counts a request has computed and not written yet
    exclusive,  \* requests that overlap work on different files (fixed)
    admin       \* the administration's file deletion is used (fixed)

db == <<entries, file, rows, ref>>
local == <<pc, work, fresh, holds, keep>>
fixed == <<exclusive, admin>>
vars == <<db, blobs, local, fixed>>

Steps == {"idle", "bump", "written", "counted", "moved", "read", "dropping"}

-----------------------------------------------------------------------------

\* The entries other than those in S that reference f.
Others(S, f) == {e \in entries \ S : file[e] = f}

Minus(m, n) == IF n <= m THEN m - n ELSE 0

Quiet(r, F) == exclusive => \A q \in Reqs \ {r} : holds[q] \intersect F = {}

\* A deletion has sent its UPDATEs and DELETEs and not committed: their row
\* locks keep every other writer of those rows waiting.
Locked(r, f) ==
    \E q \in Reqs \ {r} : pc[q] = "dropping" /\ work[q] # {} /\ f \in holds[q]

\* Mutant: the content is taken for unreferenced one reference too early.
ZeroEarly(r) == {f \in holds[r] : keep[r][f] <= 1}

\* The held files whose last reference goes away.
Zero(r) == {f \in holds[r] : keep[r][f] = 0}

Begin(r, step, S, F) ==
    /\ pc[r] = "idle"
    /\ Quiet(r, F)
    /\ pc' = [pc EXCEPT ![r] = step]
    /\ work' = [work EXCEPT ![r] = S]
    /\ holds' = [holds EXCEPT ![r] = F]

Done(r) ==
    /\ pc' = [pc EXCEPT ![r] = "idle"]
    /\ work' = [work EXCEPT ![r] = {}]
    /\ fresh' = [fresh EXCEPT ![r] = NoFile]
    /\ holds' = [holds EXCEPT ![r] = {}]
    /\ keep' = [keep EXCEPT ![r] = [f \in Files |-> 0]]

Init ==
    /\ entries = {}
    /\ file = [e \in Entries |-> NoFile]
    /\ rows = {}
    /\ ref = [f \in Files |-> 0]
    /\ blobs = {}
    /\ pc = [r \in Reqs |-> "idle"]
    /\ work = [r \in Reqs |-> {}]
    /\ fresh = [r \in Reqs |-> NoFile]
    /\ holds = [r \in Reqs |-> {}]
    /\ keep = [r \in Reqs |-> [f \in Files |-> 0]]
    /\ exclusive \in BOOLEAN
    /\ admin \in BOOLEAN

-----------------------------------------------------------------------------
(* New content: upload, WebDAV PUT, migration to another policy *)

\* The content goes to the storage first, under a path nobody has used.
WriteBlob(r, f, S, F) ==
    /\ f \notin rows \union blobs \union UNION {holds[q] : q \in Reqs}
    /\ Begin(r, "written", S, F \union {f})
    /\ fresh' = [fresh EXCEPT ![r] = f]
    /\ blobs' = blobs \union {f}
    /\ UNCHANGED <<db, keep, fixed>>

\* Creating an empty file, or the last chunk of an upload.
Upload(r, f) == WriteBlob(r, f, {}, {})

\* A PUT gives an existing entry new content; what it had is not looked at.
Put(r, f, e) == e \in entries /\ WriteBlob(r, f, {e}, {})

Migrate(r, f, e) ==
    /\ e \in entries
    /\ file[e] \in rows \intersect blobs
    /\ WriteBlob(r, f, {e}, {file[e]})

\* The row is committed with reference_count=1, before any entry names it.
AddRow(r) ==
    /\ pc[r] = "written"
    /\ pc' = [pc EXCEPT ![r] = "counted"]
    /\ rows' = rows \union {fresh[r]}
    /\ ref' = [ref EXCEPT ![fresh[r]] = 1]
    /\ UNCHANGED <<entries, file, blobs, work, fresh, holds, keep, fixed>>

NewEntry(r, e) ==
    /\ work[r] = {}
    /\ e \notin entries \union UNION {work[q] : q \in Reqs}
    /\ entries' = entries \union {e}
    /\ file' = [file EXCEPT ![e] = fresh[r]]

\* A finished upload commits row and entry together.
FinishUpload(r, e) ==
    /\ pc[r] = "written"
    /\ NewEntry(r, e)
    /\ rows' = rows \union {fresh[r]}
    /\ ref' = [ref EXCEPT ![fresh[r]] = 1]
    /\ Done(r)
    /\ UNCHANGED <<blobs, fixed>>

\* The second commit of creating an empty file, and of a copy.  The foreign
\* key takes a row that is there and that no deletion is about to take away.
AddEntry(r, e) ==
    /\ pc[r] = "counted"
    /\ fresh[r] \in rows
    /\ Locked(r, fresh[r]) => \A q \in Reqs \ {r} : fresh[r] \notin Zero(q)
    /\ NewEntry(r, e)
    /\ Done(r)
    /\ UNCHANGED <<rows, ref, blobs, fixed>>

\* The second commit of a PUT, which is done, and of a migration, which goes on
\* to release the file the entry had when it began.
Repoint(r, e) ==
    /\ pc[r] = "counted"
    /\ work[r] = {e}
    /\ e \in entries
    /\ fresh[r] \in rows
    /\ file' = [file EXCEPT ![e] = fresh[r]]
    /\ IF holds[r] = {fresh[r]} THEN Done(r)
       ELSE /\ pc' = [pc EXCEPT ![r] = "moved"]
            /\ work' = [work EXCEPT ![r] = {}]
            /\ fresh' = [fresh EXCEPT ![r] = NoFile]
            /\ holds' = [holds EXCEPT ![r] = holds[r] \ {fresh[r]}]
            /\ UNCHANGED keep
    /\ UNCHANGED <<entries, rows, ref, blobs, fixed>>

-----------------------------------------------------------------------------
(* One more reference: copy *)

\* Copying one file; a folder is copied file by file, from counts read earlier
\* still.
Copy(r, e) ==
    /\ e \in entries
    /\ file[e] \in rows
    /\ ref[file[e]] < MaxRef
    /\ Begin(r, "bump", {}, {file[e]})
    /\ fresh' = [fresh EXCEPT ![r] = file[e]]
    /\ keep' = [keep EXCEPT ![r] = [f \in Files |-> IF f = file[e] THEN ref[f] + 1 ELSE 0]]
    /\ UNCHANGED <<db, blobs, fixed>>

\* Mutant: the increment is computed and never saved.
CountCopyUnsaved(r) ==
    /\ pc[r] = "bump"
    /\ fresh[r] \in rows
    /\ ~Locked(r, fresh[r])
    /\ pc' = [pc EXCEPT ![r] = "counted"]
    /\ keep' = [keep EXCEPT ![r] = [f \in Files |-> 0]]
    /\ UNCHANGED <<db, blobs, work, fresh, holds, fixed>>

CountCopy(r) ==
    /\ pc[r] = "bump"
    /\ fresh[r] \in rows
    /\ ~Locked(r, fresh[r])
    /\ ref' = [ref EXCEPT ![fresh[r]] = keep[r][fresh[r]]]
    /\ pc' = [pc EXCEPT ![r] = "counted"]
    /\ keep' = [keep EXCEPT ![r] = [f \in Files |-> 0]]
    /\ UNCHANGED <<entries, file, rows, blobs, work, fresh, holds, fixed>>

-----------------------------------------------------------------------------
(* Fewer references: permanent deletion, and the end of a migration *)

\* S is all a permanent deletion covers: the files of the trashed tops' trees.
Purge(r, S) ==
    /\ S # {}
    /\ S \subseteq entries
    /\ LET F == {file[e] : e \in S} \ {NoFile}
       IN  /\ Begin(r, "read", S, F)
           /\ keep' = [keep EXCEPT ![r] = [f \in Files |->
                  IF f \in F THEN Minus(ref[f], Cardinality({e \in S : file[e] = f})) ELSE 0]]
    /\ UNCHANGED <<db, blobs, fresh, fixed>>

\* Mutant: the migrated file's old content is given up although copies use it.
ReleaseAlways(r) ==
    /\ pc[r] = "moved"
    /\ holds[r] \subseteq rows
    /\ pc' = [pc EXCEPT ![r] = "read"]
    /\ keep' = [keep EXCEPT ![r] = [f \in Files |-> 0]]
    /\ UNCHANGED <<db, blobs, work, fresh, holds, fixed>>

\* The migration reads the old count after its commits.
Release(r) ==
    /\ pc[r] = "moved"
    /\ holds[r] \subseteq rows
    /\ pc' = [pc EXCEPT ![r] = "read"]
    /\ keep' = [keep EXCEPT ![r] = [f \in Files |-> IF f \in holds[r] THEN Minus(ref[f], 1) ELSE 0]]
    /\ UNCHANGED <<db, blobs, work, fresh, holds, fixed>>

\* Contents whose count is zero are deleted before the commit; a deletion the
\* storage refuses is logged and forgotten.
DropBlobs(r, D) ==
    /\ pc[r] = "read"
    /\ D \subseteq Zero(r)
    /\ work[r] # {} => holds[r] \ Zero(r) \subseteq rows /\ \A f \in holds[r] : ~Locked(r, f)
    /\ blobs' = blobs \ D
    /\ pc' = [pc EXCEPT ![r] = "dropping"]
    /\ UNCHANGED <<db, work, fresh, holds, keep, fixed>>

\* Mutant: no SET NULL on Entry.physical_file_id.
CommitDangling(r) ==
    /\ pc[r] = "dropping"
    /\ holds[r] \ Zero(r) \subseteq rows
    /\ \A f \in holds[r] : ~Locked(r, f)
    /\ entries' = entries \ work[r]
    /\ rows' = rows \ Zero(r)
    /\ ref' = [f \in Files |-> IF f \in holds[r] THEN keep[r][f] ELSE ref[f]]
    /\ file' = [e \in Entries |-> IF e \in work[r] THEN NoFile ELSE file[e]]
    /\ Done(r)
    /\ UNCHANGED <<blobs, fixed>>

\* The commit; entries that still name a deleted row get NULL (SET NULL).
Commit(r) ==
    /\ pc[r] = "dropping"
    /\ holds[r] \ Zero(r) \subseteq rows
    /\ \A f \in holds[r] : ~Locked(r, f)
    /\ entries' = entries \ work[r]
    /\ rows' = rows \ Zero(r)
    /\ ref' = [f \in Files |-> IF f \in holds[r] THEN keep[r][f] ELSE ref[f]]
    /\ file' = [e \in Entries |->
           IF e \in work[r] \/ file[e] \in Zero(r) THEN NoFile ELSE file[e]]
    /\ Done(r)
    /\ UNCHANGED <<blobs, fixed>>

\* The administration's deletion removes the content whatever the count is and
\* then ends with a TypeError: max(0, User.storage - file_size) has no truth value.
AdminDelete(e) ==
    /\ admin
    /\ e \in entries
    /\ blobs' = blobs \ {file[e]}
    /\ UNCHANGED <<db, local, fixed>>

\* Exception, rollback or crash: what is committed or stored stays.
Fail(r) ==
    /\ pc[r] # "idle"
    /\ Done(r)
    /\ UNCHANGED <<db, blobs, fixed>>

Next ==
    \/ \E r \in Reqs, f \in Files : Upload(r, f)
    \/ \E r \in Reqs, f \in Files, e \in Entries : Put(r, f, e)
    \/ \E r \in Reqs, f \in Files, e \in Entries : Migrate(r, f, e)
    \/ \E r \in Reqs : AddRow(r)
    \/ \E r \in Reqs, e \in Entries : FinishUpload(r, e)
    \/ \E r \in Reqs, e \in Entries : AddEntry(r, e)
    \/ \E r \in Reqs, e \in Entries : Repoint(r, e)
    \/ \E r \in Reqs, e \in Entries : Copy(r, e)
    \/ \E r \in Reqs : CountCopy(r)
    \/ \E r \in Reqs, S \in SUBSET Entries : Purge(r, S)
    \/ \E r \in Reqs : Release(r)
    \/ \E r \in Reqs, D \in SUBSET Files : DropBlobs(r, D)
    \/ \E r \in Reqs : Commit(r)
    \/ \E e \in Entries : AdminDelete(e)
    \/ \E r \in Reqs : Fail(r)

Spec == Init /\ [][Next]_vars

-----------------------------------------------------------------------------
(* Properties *)

TypeOK ==
    /\ entries \subseteq Entries
    /\ file \in [Entries -> Files \union {NoFile}]
    /\ \A e \in entries : file[e] \in rows \union {NoFile}
    /\ rows \subseteq Files
    /\ ref \in [Files -> Nat]
    /\ blobs \subseteq Files
    /\ pc \in [Reqs -> Steps]
    /\ work \in [Reqs -> SUBSET Entries]
    /\ fresh \in [Reqs -> Files \union {NoFile}]
    /\ holds \in [Reqs -> SUBSET Files]
    /\ keep \in [Reqs -> [Files -> Nat]]
    /\ <<exclusive, admin>> \in BOOLEAN \X BOOLEAN

\* A reference a request has counted and not handed to an entry yet.
Claims(f) == {r \in Reqs : pc[r] = "counted" /\ fresh[r] = f}

\* The count of a physical file covers the entries that reference it and the
\* entry a request is about to insert, whichever commit a request stops after:
\* requests that fail leave a count too high (the content is never freed) and
\* none too low, as long as overlapping requests work on different files.
CountCovers ==
    exclusive => \A f \in rows :
        Cardinality(Others({}, f)) + Cardinality(Claims(f)) <= ref[f]

\* Content disappears from the storage in the hands of a request that deletes
\* every entry referencing it: nobody else's file is lost with it.
BlobsKept ==
    [][exclusive /\ ~admin => \A f \in blobs \ blobs' :
          \E r \in Reqs : pc'[r] = "dropping" /\ Others(work[r], f) = {}]_vars

\* The same of every interleaving, as the module comment has it: content is
\* deleted only once no entry references it.
OnlyUnreferencedDeleted ==
    [][~admin => \A f \in blobs \ blobs' :
          \E r \in Reqs : pc'[r] = "dropping" /\ Others(work[r], f) = {}]_vars

\* The entries whose content can be read, and those a deletion has read.
Readable == {e \in entries : file[e] \in blobs}
Doomed == {e \in entries : \E r \in Reqs : pc[r] \in {"read", "dropping"} /\ e \in work[r]}

Contents == INSTANCE ContentStore WITH
    files <- entries, readable <- Readable, doomed <- Doomed,
    careful <- exclusive /\ ~admin

\* Counting references implements the promise that every entry has a content of
\* its own (ContentStore): whatever uploads, copies, PUTs, migrations and
\* deletions do, and wherever they stop, an entry loses its content only to its
\* own deletion, as long as overlapping requests work on different files.
OwnContents == Contents!Spec
=============================================================================
