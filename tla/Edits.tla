-------------------------------- MODULE Edits --------------------------------
(***************************************************************************)
(* Changing the content of files: the text editor's patch, WOPI PutFile    *)
(* and WebDAV PUT, next to the copies that share the content.              *)
(*                                                                         *)
(* A patch and a PutFile overwrite the physical file in place: they load   *)
(* the rows, write the file (which truncates it first) and then commit the *)
(* new sizes and the charge.  A PUT writes a new physical file and points  *)
(* the entry to it.  Nothing locks a file, nothing undoes a write.         *)
(***************************************************************************)
EXTENDS Integers, FiniteSets, FiniteSetsExt

CONSTANTS
    Entries,    \* primary keys of Entry rows, all files
    Files,      \* primary keys of PhysicalFile rows, each with a path of its own
    NoFile,     \* SQL NULL
    Reqs,       \* requests in progress at one time
    MaxText,    \* bound: length of a text
    MaxCharge,  \* bound: an operation that stores more begins below this charge
    MaxRef,     \* bound: highest count a copy may write
    Modes       \* values of apart

ASSUME EditConstants ==
    /\ IsFiniteSet(Entries) /\ IsFiniteSet(Reqs)
    /\ NoFile \notin Files \union Entries
    /\ MaxText \in Nat
    /\ {MaxCharge, MaxRef} \subseteq Nat
    /\ Modes \subseteq BOOLEAN

VARIABLES
    entries,    \* Entry rows
    file,       \* column Entry.physical_file_id
    size,       \* column Entry.size
    rows,       \* PhysicalFile rows
    ref,        \* column PhysicalFile.reference_count
    psize,      \* column PhysicalFile.size
    blobs,      \* files in the storage, by the row that has (or had) their path
    content,    \* what is in them
    used,       \* column User.storage
    req,        \* what each request is doing and remembers
    torn,       \* files an edit wrote to and stopped before its commit (history)
    shared,     \* files a copy has ever shared (history)
    over,       \* units an entry had before a PUT and is still charged (history)
    missed,     \* units in entries that were never charged (history)
    apart       \* requests that overlap work on different entries and files
                \* (fixed)

entryVars == <<entries, file, size>>
fileVars == <<rows, ref, psize>>
disk == <<blobs, content>>
history == <<torn, shared, over, missed>>
vars == <<entryVars, fileVars, disk, used, req, history, apart>>

-----------------------------------------------------------------------------
(* Contents *)

\* A text is told apart by its length once its line ends are normalised; with
\* CR LF line ends it is one unit longer.  Mixed is what two overlapping writes
\* leave: the longer content with the start of the other.
Mixed == MaxText + 1
Contents == {[text |-> t, len |-> n] : t \in 0..Mixed, n \in 0..Mixed}
Empty == [text |-> 0, len |-> 0]
Content(t, crlf) == [text |-> t, len |-> IF crlf THEN t + 1 ELSE t]
Sendable == {Empty} \union {Content(t, crlf) : t \in 1..MaxText, crlf \in BOOLEAN}

\* Writing new from the start of a file that holds old.
Over(new, old) == IF old.len > new.len THEN [text |-> Mixed, len |-> old.len] ELSE new

AnyBase == MaxText + 2      \* the base of a save that names none
Editing == {"opened", "ready", "cut", "wrote"}
Putting == {"stored", "row", "pointed"}
Request == [pc : {"idle"} \union Editing \union Putting,
            e : Entries \union {NoFile}, f : Files \union {NoFile},
            base : 0..AnyBase, new : Contents, size : Nat, psize : Nat]

Idle == [pc |-> "idle", e |-> NoFile, f |-> NoFile, base |-> AnyBase, new |-> Empty,
         size |-> 0, psize |-> 0]

-----------------------------------------------------------------------------

At(r, step) == req[r].pc = step
Step(r, step) == req' = [req EXCEPT ![r].pc = step]
Done(r) == req' = [req EXCEPT ![r] = Idle]

FilesOf(r) == {req[r].f, IF req[r].e \in entries THEN file[req[r].e] ELSE NoFile}

\* Nobody else is at work on entry e or on file f.
Alone(e, f) ==
    apart => \A q \in Reqs : req[q].e # e /\ f \notin FilesOf(q) \ {NoFile}

Adjust(delta) == used' = Max({0, used + delta})

\* Bound.
Room == used + over + missed < MaxCharge

Total(S) == MapThenSumSet(LAMBDA e : size[e], S)

\* A column is only written when the value differs from the one loaded.
Column(col, key, loaded, new) == IF new = loaded THEN col ELSE [col EXCEPT ![key] = new]

Init ==
    /\ entries = {} /\ rows = {} /\ blobs = {}
    /\ file = [e \in Entries |-> NoFile]
    /\ size = [e \in Entries |-> 0]
    /\ ref = [f \in Files |-> 0]
    /\ psize = [f \in Files |-> 0]
    /\ content = [f \in Files |-> Empty]
    /\ used = 0
    /\ req = [r \in Reqs |-> Idle]
    /\ torn = {} /\ shared = {}
    /\ over = 0 /\ missed = 0
    /\ apart \in Modes

-----------------------------------------------------------------------------
(* Editing in place *)

\* The rows are loaded when the request begins, and kept.
Open(r, e, step, base, new) ==
    /\ At(r, "idle")
    /\ e \in entries
    /\ file[e] # NoFile
    /\ Alone(e, file[e])
    /\ Room
    /\ req' = [req EXCEPT ![r] = [pc |-> step, e |-> e, f |-> file[e], base |-> base,
                                  new |-> new, size |-> size[e], psize |-> psize[file[e]]]]
    /\ UNCHANGED <<entryVars, fileVars, disk, used, history, apart>>

\* What a patch makes has LF line ends.
Patch(r, e, base, t) == Open(r, e, "opened", base, Content(t, FALSE))

\* Mutant of PatchRead: the hash is not compared.
PatchReadAny(r) ==
    /\ At(r, "opened")
    /\ req[r].f \in blobs
    /\ Step(r, "ready")
    /\ UNCHANGED <<entryVars, fileVars, disk, used, history, apart>>

\* The hash of the normalised text must be the client's base_hash.
PatchRead(r) ==
    /\ At(r, "opened")
    /\ req[r].f \in blobs
    /\ content[req[r].f].text = req[r].base
    /\ Step(r, "ready")
    /\ UNCHANGED <<entryVars, fileVars, disk, used, history, apart>>

\* PutFile takes any content and compares nothing.
PutFile(r, e, new) == Open(r, e, "ready", AnyBase, new)

\* Opening with 'wb' truncates the file, or makes it again.
Truncate(r) ==
    /\ At(r, "ready")
    /\ blobs' = blobs \union {req[r].f}
    /\ content' = [content EXCEPT ![req[r].f] = Empty]
    /\ Step(r, "cut")
    /\ UNCHANGED <<entryVars, fileVars, used, history, apart>>

Write(r) ==
    /\ At(r, "cut")
    /\ content' = IF req[r].f \in blobs
                  THEN [content EXCEPT ![req[r].f] = Over(req[r].new, @)]
                  ELSE content
    /\ Step(r, "wrote")
    /\ UNCHANGED <<entryVars, fileVars, blobs, used, history, apart>>

\* Mutant of Save: the size of the physical file is left alone.
SaveEntryOnly(r) ==
    /\ At(r, "wrote")
    /\ req[r].e \in entries
    /\ req[r].f \in rows
    /\ size' = Column(size, req[r].e, req[r].size, req[r].new.len)
    /\ Adjust(req[r].new.len - req[r].size)
    /\ Done(r)
    /\ UNCHANGED <<entries, file, fileVars, disk, torn, shared, over, missed, apart>>

\* Both sizes and the difference to the size loaded at the start, one commit.
Save(r) ==
    /\ At(r, "wrote")
    /\ req[r].e \in entries
    /\ req[r].f \in rows
    /\ size' = Column(size, req[r].e, req[r].size, req[r].new.len)
    /\ psize' = Column(psize, req[r].f, req[r].psize, req[r].new.len)
    /\ Adjust(req[r].new.len - req[r].size)
    /\ torn' = torn \ {req[r].f}
    /\ Done(r)
    /\ UNCHANGED <<entries, file, rows, ref, disk, shared, over, missed, apart>>

-----------------------------------------------------------------------------
(* WebDAV PUT *)

\* PUT to a free name first inserts an entry without content.
CreateFile(e) ==
    /\ e \notin entries
    /\ entries' = entries \union {e}
    /\ UNCHANGED <<file, size, fileVars, disk, used, req, history, apart>>

\* The whole body goes to a new path first; a stream that ends with an error
\* unlinks it again.  (The quota that limits the stream is that of Uploads.)
Put(r, e, f, new) ==
    /\ At(r, "idle")
    /\ e \in entries
    /\ f \notin rows \union blobs \union {req[q].f : q \in Reqs}
    /\ Alone(e, file[e])
    /\ Room
    /\ blobs' = blobs \union {f}
    /\ content' = [content EXCEPT ![f] = new]
    /\ req' = [req EXCEPT ![r] = [Idle EXCEPT !.pc = "stored", !.e = e, !.f = f, !.new = new]]
    /\ UNCHANGED <<entryVars, fileVars, used, history, apart>>

PutRow(r) ==
    /\ At(r, "stored")
    /\ rows' = rows \union {req[r].f}
    /\ ref' = [ref EXCEPT ![req[r].f] = 1]
    /\ psize' = [psize EXCEPT ![req[r].f] = req[r].new.len]
    /\ Step(r, "row")
    /\ UNCHANGED <<entryVars, disk, used, history, apart>>

\* The physical file the entry had before is not looked at; an entry that is
\* gone is passed over.
PutPoint(r) ==
    /\ At(r, "row")
    /\ req' = [req EXCEPT ![r].pc = "pointed", ![r].f = NoFile]
    /\ IF req[r].e \in entries
       THEN /\ file' = [file EXCEPT ![req[r].e] = req[r].f]
            /\ size' = [size EXCEPT ![req[r].e] = req[r].new.len]
            /\ over' = over + size[req[r].e]
       ELSE UNCHANGED <<file, size, over>>
    /\ UNCHANGED <<entries, fileVars, disk, used, torn, shared, missed, apart>>

\* Mutant of PutCharge: the size that is there now is taken for the old one.
PutChargeDifference(r) ==
    /\ At(r, "pointed")
    /\ Adjust(req[r].new.len - size[req[r].e])
    /\ Done(r)
    /\ UNCHANGED <<entryVars, fileVars, disk, history, apart>>

PutCharge(r) ==
    /\ At(r, "pointed")
    /\ Adjust(req[r].new.len)
    /\ Done(r)
    /\ UNCHANGED <<entryVars, fileVars, disk, history, apart>>

-----------------------------------------------------------------------------
(* Copies and deletions, each in one step: BlobRefs has their details *)

\* A copy shares the content.  The router charges for it without a look at the
\* quota, WebDAV COPY does not charge at all.
Copy(e, d, dav) ==
    /\ e \in entries /\ d \notin entries
    /\ file[e] # NoFile
    /\ Room
    /\ ref[file[e]] < MaxRef
    /\ Alone(e, file[e])
    /\ entries' = entries \union {d}
    /\ file' = [file EXCEPT ![d] = file[e]]
    /\ size' = [size EXCEPT ![d] = size[e]]
    /\ ref' = [ref EXCEPT ![file[e]] = @ + 1]
    /\ shared' = shared \union {file[e]}
    /\ IF dav
       THEN missed' = missed + size[e] /\ UNCHANGED used
       ELSE Adjust(size[e]) /\ UNCHANGED missed
    /\ UNCHANGED <<rows, psize, disk, req, torn, over, apart>>

\* Mutant of Freed: the count is not looked at.
FreedAlways(e) == {file[e]} \ {NoFile}

\* The physical file that goes with e.
Freed(e) == {f \in Files : f = file[e] /\ ref[f] <= 1}

Purge(e) ==
    /\ e \in entries
    /\ Alone(e, file[e])
    /\ entries' = entries \ {e}
    /\ file' = [file EXCEPT ![e] = NoFile]
    /\ size' = [size EXCEPT ![e] = 0]
    /\ Adjust(-size[e])
    /\ IF file[e] = NoFile
       THEN UNCHANGED <<fileVars, disk, torn, shared>>
       ELSE LET gone == Freed(e)
            IN  /\ rows' = rows \ gone
                /\ blobs' = blobs \ gone
                /\ torn' = torn \ gone /\ shared' = shared \ gone
                /\ ref' = [ref EXCEPT ![file[e]] = IF @ = 0 THEN 0 ELSE @ - 1]
                /\ psize' = [f \in Files |-> IF f \in gone THEN 0 ELSE psize[f]]
                /\ content' = [f \in Files |-> IF f \in gone THEN Empty ELSE content[f]]
    /\ UNCHANGED <<req, over, missed, apart>>

\* Exception, rollback or crash: what is committed or written stays.
Fail(r) ==
    /\ ~At(r, "idle")
    /\ torn' = IF req[r].pc \in {"cut", "wrote"} THEN torn \union {req[r].f} ELSE torn
    /\ missed' = IF At(r, "pointed") THEN missed + req[r].new.len ELSE missed
    /\ Done(r)
    /\ UNCHANGED <<entryVars, fileVars, disk, used, shared, over, apart>>

Next ==
    \/ \E r \in Reqs, e \in Entries, b \in 0..MaxText, t \in 0..MaxText : Patch(r, e, b, t)
    \/ \E r \in Reqs : PatchRead(r)
    \/ \E r \in Reqs, e \in Entries, c \in Sendable : PutFile(r, e, c)
    \/ \E r \in Reqs : Truncate(r)
    \/ \E r \in Reqs : Write(r)
    \/ \E r \in Reqs : Save(r)
    \/ \E e \in Entries : CreateFile(e)
    \/ \E r \in Reqs, e \in Entries, f \in Files, c \in Sendable : Put(r, e, f, c)
    \/ \E r \in Reqs : PutRow(r)
    \/ \E r \in Reqs : PutPoint(r)
    \/ \E r \in Reqs : PutCharge(r)
    \/ \E e, d \in Entries, dav \in BOOLEAN : Copy(e, d, dav)
    \/ \E e \in Entries : Purge(e)
    \/ \E r \in Reqs : Fail(r)

Spec == Init /\ [][Next]_vars

-----------------------------------------------------------------------------
(* Properties *)

TypeOK ==
    /\ entries \subseteq Entries
    /\ file \in [Entries -> Files \union {NoFile}]
    /\ \A e \in entries : file[e] \in rows \union {NoFile}
    /\ rows \subseteq Files /\ blobs \subseteq Files
    /\ size \in [Entries -> Nat]
    /\ ref \in [Files -> Nat] /\ psize \in [Files -> Nat]
    /\ content \in [Files -> Contents]
    /\ req \in [Reqs -> Request]
    /\ torn \subseteq Files /\ shared \subseteq Files
    /\ {used, over, missed} \subseteq Nat
    /\ apart \in Modes

\* The sizes tell the truth.  A physical file is as long as its row says, unless
\* a save is under way or stopped between the write and the commit; an entry
\* has the size of its content, unless that was ever shared: an edit through
\* one copy leaves the sizes of the others behind.  Holds through any order of
\* patches, PutFiles, PUTs, copies and deletions that overlap on other files.
SizesAgree ==
    apart => \A f \in rows \ torn :
        (\A r \in Reqs : req[r].f = f => req[r].pc \notin {"cut", "wrote"}) =>
            /\ f \in blobs /\ content[f].len = psize[f]
            /\ f \notin shared => \A e \in entries : file[e] = f => size[e] = psize[f]

\* What the PUTs before their last commit are going to charge.
NewLen == [r \in Reqs |-> req[r].new.len]
Coming == MapThenSumSet(LAMBDA r : NewLen[r], {r \in Reqs : At(r, "pointed")})

\* The user is charged what the entries take up: less only by WebDAV copies and
\* by PUTs that are not, or never, at their last commit; more only by what PUTs
\* replaced, which is never given back.
Charged ==
    apart => /\ Total(entries) <= used + Coming + missed
             /\ used + Coming <= Total(entries) + over

\* A patch overwrites the version its base_hash names, and no other: no save
\* between the client's reading and its own is lost.
PatchesBased ==
    [][apart => \A r \in Reqs :
          req[r].pc = "ready" /\ req'[r].pc = "cut" /\ req[r].base # AnyBase =>
              content[req[r].f].text = req[r].base]_vars

\* "Take a unified diff and a base_hash, and apply the patch once it is
\* verified that there is no concurrent conflict."
NoConflict ==
    [][\A r \in Reqs :
          req[r].pc = "ready" /\ req'[r].pc = "cut" /\ req[r].base # AnyBase
          /\ req[r].f \in rows =>
              content[req[r].f].text = req[r].base]_vars
=============================================================================
