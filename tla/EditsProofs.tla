----------------------------- MODULE EditsProofs -----------------------------
(***************************************************************************)
(* Type correctness of Edits; and, while requests that overlap work on     *)
(* different entries and files, that the sizes are those of the contents,  *)
(* that a patch overwrites the text it compared, and that the user is      *)
(* charged what the entries take up.                                       *)
(*                                                                         *)
(* Base holds in any run: the file a PUT brings is nobody else's before an *)
(* entry points to it, and no row counts fewer entries than point to it    *)
(* (so that a deletion never takes a file from another entry).  InOrder    *)
(* adds what keeps a request right that loaded its rows long ago: no other *)
(* request names its entry or its file (Distinct), what it remembers is    *)
(* still so and what it wrote is there (Fitting), and a file that was      *)
(* never shared has one entry (OwnFiles).  The charge stops at zero, so    *)
(* its bounds need that what PUTs are still going to charge is already in  *)
(* the sizes of their entries (ComingCovered).                             *)
(***************************************************************************)
EXTENDS Edits, Sums, TLAPS

-----------------------------------------------------------------------------
(* The invariant of any run *)

Holders(f) == {e \in entries : file[e] = f}

\* What a request names.
Knows(x) ==
    /\ x.pc # "idle" => x.e \in Entries
    /\ x.pc = "idle" => x.e = NoFile
    /\ x.pc \in {"idle", "pointed"} => x.f = NoFile
    /\ x.pc \notin {"idle", "pointed"} => x.f \in Files

Bringing == {"stored", "row"}

\* The file a PUT has brought is nobody else's before an entry points to it.
Unused ==
    \A r \in Reqs : req[r].pc \in Bringing =>
        /\ \A e \in entries : file[e] # req[r].f
        /\ \A q \in Reqs \ {r} : req[q].f # req[r].f
        /\ At(r, "stored") => req[r].f \notin rows
        /\ At(r, "row") => req[r].f \in rows /\ ref[req[r].f] > 0

\* No row counts fewer entries than point to it.
Counted == \A f \in Files : Cardinality(Holders(f)) <= ref[f]

Base ==
    /\ TypeOK
    /\ \A r \in Reqs : Knows(req[r])
    /\ Unused
    /\ Counted
    /\ \A e \in Entries \ entries : file[e] = NoFile /\ size[e] = 0

-----------------------------------------------------------------------------
(* Requests and contents *)

\* What a content is: lengths and texts are bounded.
LEMMA ContentIs ==
    /\ Mixed \in Nat /\ Empty \in Contents /\ Empty.len = 0
    /\ \A c \in Contents : c.text \in 0..Mixed /\ c.len \in 0..Mixed /\ c.len \in Nat
    /\ Sendable \subseteq Contents
    /\ \A t \in 0..MaxText : Content(t, FALSE) \in Contents
  <1>1. Mixed \in Nat /\ 0 \in 0..Mixed /\ \A t \in 0..MaxText : t \in 0..Mixed /\ t + 1 \in 0..Mixed
    BY EditConstants DEF Mixed
  <1>2. Empty \in Contents /\ Empty.len = 0
    BY <1>1 DEF Empty, Contents
  <1>3. \A c \in Contents : c.text \in 0..Mixed /\ c.len \in 0..Mixed /\ c.len \in Nat
    BY <1>1 DEF Contents
  <1>4. \A t \in 0..MaxText, crlf \in BOOLEAN : Content(t, crlf) \in Contents
    BY <1>1 DEF Content, Contents
  <1>5. \A t \in 1..MaxText : t \in 0..MaxText
    OBVIOUS
  <1>6. Sendable \subseteq Contents
    BY <1>2, <1>4, <1>5 DEF Sendable
  <1> QED
    BY <1>1, <1>2, <1>3, <1>4, <1>6

\* Writing over a file that was truncated leaves what was written.
LEMMA OverIs ==
    ASSUME NEW new \in Contents, NEW old \in Contents
    PROVE  /\ Over(new, old) \in Contents
           /\ old.len = 0 => Over(new, old) = new
  <1>1. Mixed \in 0..Mixed /\ old.len \in 0..Mixed /\ new.len \in Nat
    BY ContentIs
  <1>2. [text |-> Mixed, len |-> old.len] \in Contents
    BY <1>1 DEF Contents
  <1> QED
    BY <1>1, <1>2 DEF Over

\* A request that does nothing names nothing.
LEMMA IdleIs ==
    /\ Idle \in Request /\ Knows(Idle)
    /\ Idle.pc = "idle" /\ Idle.e = NoFile /\ Idle.f = NoFile /\ Idle.base = AnyBase
    /\ Idle.new = Empty /\ Idle.size = 0 /\ Idle.psize = 0
  <1>1. Empty \in Contents /\ AnyBase \in 0..AnyBase
    BY ContentIs, EditConstants DEF AnyBase
  <1> QED
    BY <1>1 DEF Idle, Request, Knows

\* The fields of a request.
LEMMA Fields ==
    ASSUME NEW x \in Request
    PROVE  /\ x.pc \in {"idle"} \union Editing \union Putting
           /\ x.e \in Entries \union {NoFile} /\ x.f \in Files \union {NoFile}
           /\ x.base \in 0..AnyBase /\ x.new \in Contents /\ x.new.len \in Nat
           /\ x.size \in Nat /\ x.psize \in Nat
  BY ContentIs DEF Request

\* What becomes of the requests when one of them changes.
LEMMA Written ==
    ASSUME TypeOK, NEW r \in Reqs, NEW new, req' = [req EXCEPT ![r] = new]
    PROVE  /\ req'[r] = new
           /\ \A q \in Reqs \ {r} : req'[q] = req[q]
           /\ new \in Request => req' \in [Reqs -> Request]
  BY DEF TypeOK

\* A request goes on to another step and forgets nothing.
LEMMA Goes ==
    ASSUME TypeOK, NEW r \in Reqs, NEW step \in Editing \union Putting, Step(r, step)
    PROVE  \E new \in Request :
              /\ req' = [req EXCEPT ![r] = new]
              /\ new.pc = step /\ new.e = req[r].e /\ new.f = req[r].f
              /\ new.base = req[r].base /\ new.new = req[r].new
              /\ new.size = req[r].size /\ new.psize = req[r].psize
  <1> DEFINE new == [req[r] EXCEPT !.pc = step]
  <1>1. req[r] \in Request
    BY DEF TypeOK
  <1>2. new \in Request /\ new.pc = step /\ new.e = req[r].e /\ new.f = req[r].f
        /\ new.base = req[r].base /\ new.new = req[r].new
        /\ new.size = req[r].size /\ new.psize = req[r].psize
    BY <1>1 DEF Request
  <1>3. req' = [req EXCEPT ![r] = new]
    BY DEF Step, TypeOK
  <1> HIDE DEF new
  <1> QED
    BY <1>2, <1>3

\* The entries of a file can be counted.
LEMMA HoldersFinite ==
    ASSUME TypeOK, NEW f
    PROVE  /\ IsFiniteSet(Holders(f)) /\ Cardinality(Holders(f)) \in Nat
           /\ \A e \in Holders(f) : Cardinality(Holders(f)) > 0
  <1>1. IsFiniteSet(Holders(f))
    BY EditConstants, FS_Subset DEF TypeOK, Holders
  <1> QED
    BY <1>1, FS_CardinalityType, FS_EmptySet

\* What is added to the charge is added, unless it would become negative.
LEMMA AdjustNat ==
    ASSUME NEW delta \in Int, used \in Nat, Adjust(delta)
    PROVE  /\ used' \in Nat
           /\ used + delta >= 0 => used' = used + delta
           /\ used + delta < 0 => used' = 0
  BY Positive DEF Adjust

\* What a column holds after a save.
LEMMA ColumnIs ==
    ASSUME NEW S, NEW col \in [S -> Nat], NEW k \in S, NEW loaded, NEW new \in Nat
    PROVE  /\ Column(col, k, loaded, new) \in [S -> Nat]
           /\ \A x \in S \ {k} : Column(col, k, loaded, new)[x] = col[x]
           /\ loaded = col[k] => Column(col, k, loaded, new)[k] = new
  BY DEF Column

\* A request goes on, and what PUTs have brought stays unused.
LEMMA UnusedStep ==
    ASSUME Base, NEW r \in Reqs, NEW new, req' = [req EXCEPT ![r] = new],
           \A q \in Reqs \ {r} : req[q].pc \in Bringing =>
                /\ \A e \in entries' : file'[e] # req[q].f
                /\ new.f # req[q].f
                /\ At(q, "stored") => req[q].f \notin rows'
                /\ At(q, "row") => req[q].f \in rows' /\ ref'[req[q].f] > 0,
           new.pc \in Bringing =>
                /\ \A e \in entries' : file'[e] # new.f
                /\ \A q \in Reqs \ {r} : req[q].f # new.f
                /\ new.pc = "stored" => new.f \notin rows'
                /\ new.pc = "row" => new.f \in rows' /\ ref'[new.f] > 0
    PROVE  Unused'
  <1>1. req'[r] = new /\ \A q \in Reqs \ {r} : req'[q] = req[q]
    BY Written DEF Base
  <1> SUFFICES ASSUME NEW q \in Reqs, req'[q].pc \in Bringing
               PROVE  /\ \A e \in entries' : file'[e] # req'[q].f
                      /\ \A p \in Reqs \ {q} : req'[p].f # req'[q].f
                      /\ req'[q].pc = "stored" => req'[q].f \notin rows'
                      /\ req'[q].pc = "row" => req'[q].f \in rows' /\ ref'[req'[q].f] > 0
    BY DEF Unused, At, Bringing
  <1>2. CASE q = r
    BY <1>1, <1>2
  <1>3. CASE q # r
    <2>1. req'[q] = req[q] /\ \A p \in Reqs \ {q, r} : req[p].f # req[q].f
      BY <1>1, <1>3 DEF Base, Unused
    <2> QED
      BY <1>1, <1>3, <2>1 DEF At
  <1> QED
    BY <1>2, <1>3

\* A step of a request that leaves the rows and their entries as they are.
LEMMA BaseQuiet ==
    ASSUME Base, NEW r \in Reqs, NEW new \in Request, req' = [req EXCEPT ![r] = new],
           Knows(new), new.pc \notin Bringing, new.f \in {req[r].f, NoFile},
           UNCHANGED <<entries, file, rows, ref>>
    PROVE  /\ req' \in [Reqs -> Request] /\ \A q \in Reqs : Knows(req[q])'
           /\ Unused' /\ Counted'
           /\ \A e \in entries' : file'[e] \in rows' \union {NoFile}
  <1>1. req'[r] = new /\ (\A q \in Reqs \ {r} : req'[q] = req[q]) /\ req' \in [Reqs -> Request]
    BY Written DEF Base
  <1>2. \A q \in Reqs : Knows(req[q])'
    BY <1>1 DEF Base, Knows
  <1>3. ASSUME NEW q \in Reqs \ {r}, req[q].pc \in Bringing
        PROVE  /\ \A e \in entries' : file'[e] # req[q].f
               /\ new.f # req[q].f
               /\ At(q, "stored") => req[q].f \notin rows'
               /\ At(q, "row") => req[q].f \in rows' /\ ref'[req[q].f] > 0
    <2>1. req[q].f \in Files /\ req[r].f # req[q].f
      BY <1>3 DEF Base, Knows, Unused, Bringing
    <2> QED
      BY <1>3, <2>1, EditConstants DEF Base, Unused
  <1>4. Unused'
    BY <1>3, UnusedStep
  <1>5. Counted'
    BY DEF Base, Counted, Holders
  <1> QED
    BY <1>1, <1>2, <1>4, <1>5 DEF Base, TypeOK

-----------------------------------------------------------------------------
(* Base is inductive *)

\* Loading the rows.
LEMMA BaseOpen ==
    ASSUME Base, NEW r \in Reqs, NEW e \in Entries, NEW step \in {"opened", "ready"},
           NEW base \in 0..AnyBase, NEW new \in Contents, Open(r, e, step, base, new)
    PROVE  Base'
  <1> DEFINE x == [pc |-> step, e |-> e, f |-> file[e], base |-> base, new |-> new,
                   size |-> size[e], psize |-> psize[file[e]]]
  <1>1. /\ req' = [req EXCEPT ![r] = x] /\ e \in entries /\ file[e] \in rows
        /\ file[e] \in Files
        /\ UNCHANGED <<entryVars, fileVars, disk, used, history, apart>>
    BY DEF Open, Base, TypeOK
  <1>2. /\ x \in Request /\ x.pc = step /\ x.e = e /\ x.f = file[e]
    BY <1>1 DEF Request, Editing, Base, TypeOK
  <1>3. Knows(x) /\ x.pc \notin Bringing
    BY <1>1, <1>2 DEF Knows, Bringing
  <1> HIDE DEF x
  <1>4. req' \in [Reqs -> Request] /\ \A q \in Reqs : Knows(req[q])'
    <2>1. req'[r] = x /\ (\A q \in Reqs \ {r} : req'[q] = req[q]) /\ req' \in [Reqs -> Request]
      BY <1>1, <1>2, Written DEF Base
    <2> QED
      BY <1>3, <2>1 DEF Base, Knows
  <1>5. Unused'
    <2>1. ASSUME NEW q \in Reqs \ {r}, req[q].pc \in Bringing
          PROVE  /\ \A d \in entries' : file'[d] # req[q].f
                 /\ x.f # req[q].f
                 /\ At(q, "stored") => req[q].f \notin rows'
                 /\ At(q, "row") => req[q].f \in rows' /\ ref'[req[q].f] > 0
      BY <1>1, <1>2, <2>1 DEF Base, Unused, entryVars, fileVars
    <2> QED
      BY <1>1, <1>3, <2>1, UnusedStep
  <1> QED
    BY <1>1, <1>4, <1>5 DEF Base, TypeOK, Counted, Holders, entryVars, fileVars, disk, history

\* A step that only moves a request on and may change what files hold.
LEMMA BaseGoes ==
    ASSUME Base, NEW r \in Reqs, NEW step \in Editing, Step(r, step), req[r].pc \in Editing,
           UNCHANGED <<entryVars, fileVars, used, history, apart>>,
           blobs' \subseteq Files, content' \in [Files -> Contents]
    PROVE  Base'
  <1>1. PICK new \in Request :
              /\ req' = [req EXCEPT ![r] = new]
              /\ new.pc = step /\ new.e = req[r].e /\ new.f = req[r].f
    BY Goes DEF Base
  <1>2. Knows(new) /\ new.pc \notin Bringing
    BY <1>1 DEF Base, Knows, Editing, Bringing
  <1>3. UNCHANGED <<entries, file, rows, ref>>
    BY DEF entryVars, fileVars
  <1>4. /\ req' \in [Reqs -> Request] /\ \A q \in Reqs : Knows(req[q])'
        /\ Unused' /\ Counted'
        /\ \A e \in entries' : file'[e] \in rows' \union {NoFile}
    BY <1>1, <1>2, <1>3, BaseQuiet
  <1> QED
    BY <1>4 DEF Base, TypeOK, entryVars, fileVars, history

\* The comparison of the hash, the truncation, the write.
LEMMA BaseEdits ==
    ASSUME Base, NEW r \in Reqs, PatchRead(r) \/ Truncate(r) \/ Write(r)
    PROVE  Base'
  <1>1. CASE PatchRead(r)
    <2>1. Step(r, "ready") /\ "ready" \in Editing /\ req[r].pc \in Editing
      BY <1>1 DEF PatchRead, At, Editing
    <2>2. UNCHANGED <<entryVars, fileVars, used, history, apart, blobs, content>>
      BY <1>1 DEF PatchRead, disk
    <2>3. blobs' \subseteq Files /\ content' \in [Files -> Contents]
      BY <2>2 DEF Base, TypeOK
    <2> QED
      BY <2>1, <2>2, <2>3, BaseGoes
  <1>2. CASE Truncate(r)
    <2>1. Step(r, "cut") /\ "cut" \in Editing /\ req[r].pc \in Editing
      BY <1>2 DEF Truncate, At, Editing
    <2>2. UNCHANGED <<entryVars, fileVars, used, history, apart>>
      BY <1>2 DEF Truncate
    <2>3. blobs' \subseteq Files /\ content' \in [Files -> Contents]
      BY <1>2, <2>1, ContentIs DEF Truncate, Base, TypeOK, Knows, Editing
    <2> QED
      BY <2>1, <2>2, <2>3, BaseGoes
  <1>3. CASE Write(r)
    <2>1. Step(r, "wrote") /\ "wrote" \in Editing /\ req[r].pc \in Editing
      BY <1>3 DEF Write, At, Editing
    <2>2. UNCHANGED <<entryVars, fileVars, used, history, apart, blobs>>
      BY <1>3 DEF Write
    <2>3. req[r].f \in Files /\ req[r].new \in Contents
      BY <2>1, Fields DEF Base, TypeOK, Knows, Editing
    <2>4. Over(req[r].new, content[req[r].f]) \in Contents
      BY <2>3, OverIs DEF Base, TypeOK
    <2>5. blobs' \subseteq Files /\ content' \in [Files -> Contents]
      BY <1>3, <2>2, <2>3, <2>4 DEF Write, Base, TypeOK
    <2> QED
      BY <2>1, <2>2, <2>5, BaseGoes
  <1> QED
    BY <1>1, <1>2, <1>3

\* The commit of an edit.
LEMMA BaseSave ==
    ASSUME Base, NEW r \in Reqs, Save(r)
    PROVE  Base'
  <1>1. /\ req' = [req EXCEPT ![r] = Idle] /\ req[r].e \in entries /\ req[r].f \in rows
        /\ UNCHANGED <<entries, file, rows, ref, blobs, content, shared, over, missed, apart>>
        /\ torn' = torn \ {req[r].f}
    BY DEF Save, Done, disk
  <1>2. /\ req' \in [Reqs -> Request] /\ \A q \in Reqs : Knows(req[q])'
        /\ Unused' /\ Counted'
        /\ \A e \in entries' : file'[e] \in rows' \union {NoFile}
    <2>1. Idle.pc \notin Bringing
      BY IdleIs DEF Bringing
    <2> QED
      BY <1>1, <2>1, IdleIs, BaseQuiet
  <1>3. req[r].new.len \in Nat /\ req[r].size \in Nat /\ req[r].f \in Files /\ req[r].e \in Entries
    BY <1>1, Fields DEF Base, TypeOK
  <1>4. /\ size' \in [Entries -> Nat] /\ \A x \in Entries \ {req[r].e} : size'[x] = size[x]
        /\ psize' \in [Files -> Nat]
    BY <1>3, ColumnIs DEF Save, Base, TypeOK
  <1>5. used' \in Nat
    BY <1>3, AdjustNat DEF Save, Base, TypeOK
  <1> QED
    BY <1>1, <1>2, <1>4, <1>5 DEF Base, TypeOK

\* An entry without content.
LEMMA BaseCreateFile ==
    ASSUME Base, NEW e \in Entries, CreateFile(e)
    PROVE  Base'
  <1>1. /\ entries' = entries \union {e} /\ file[e] = NoFile
        /\ UNCHANGED <<file, size, rows, ref, psize, blobs, content, used, req, torn, shared,
                       over, missed, apart>>
    BY DEF CreateFile, Base, fileVars, disk, history
  <1>2. \A f \in Files : Holders(f)' = Holders(f)
    BY <1>1, EditConstants DEF Holders
  <1>3. Counted'
    BY <1>1, <1>2 DEF Base, Counted
  <1>4. Unused'
    BY <1>1, EditConstants DEF Base, Knows, Unused, Bringing, At
  <1> QED
    BY <1>1, <1>3, <1>4 DEF Base, TypeOK, Knows

\* The body of a PUT in a new file.
LEMMA BasePut ==
    ASSUME Base, NEW r \in Reqs, NEW e \in Entries, NEW f \in Files, NEW c \in Contents,
           Put(r, e, f, c)
    PROVE  Base'
  <1> DEFINE new == [Idle EXCEPT !.pc = "stored", !.e = e, !.f = f, !.new = c]
  <1>1. /\ req' = [req EXCEPT ![r] = new] /\ e \in entries
        /\ f \notin rows \union blobs \union {req[q].f : q \in Reqs}
        /\ blobs' = blobs \union {f} /\ content' = [content EXCEPT ![f] = c]
        /\ UNCHANGED <<entryVars, fileVars, used, history, apart>>
    BY DEF Put
  <1>2. new \in Request /\ new.pc = "stored" /\ new.e = e /\ new.f = f
    BY IdleIs DEF Request, Putting
  <1>3. Knows(new)
    BY <1>1, <1>2 DEF Knows
  <1> HIDE DEF new
  <1>4. req' \in [Reqs -> Request] /\ \A q \in Reqs : Knows(req[q])'
    <2>1. req'[r] = new /\ (\A q \in Reqs \ {r} : req'[q] = req[q]) /\ req' \in [Reqs -> Request]
      BY <1>1, <1>2, Written DEF Base
    <2> QED
      BY <1>3, <2>1 DEF Base, Knows
  <1>5. Unused'
    <2>1. ASSUME NEW q \in Reqs \ {r}, req[q].pc \in Bringing
          PROVE  /\ \A d \in entries' : file'[d] # req[q].f
                 /\ new.f # req[q].f
                 /\ At(q, "stored") => req[q].f \notin rows'
                 /\ At(q, "row") => req[q].f \in rows' /\ ref'[req[q].f] > 0
      BY <1>1, <1>2, <2>1 DEF Base, Unused, entryVars, fileVars
    <2>2. \A d \in entries' : file'[d] # new.f
      BY <1>1, <1>2, EditConstants DEF Base, TypeOK, entryVars
    <2>3. \A q \in Reqs \ {r} : req[q].f # new.f
      BY <1>1, <1>2
    <2>4. new.f \notin rows'
      BY <1>1, <1>2 DEF fileVars
    <2> QED
      BY <1>1, <1>2, <2>1, <2>2, <2>3, <2>4, UnusedStep
  <1>6. blobs' \subseteq Files /\ content' \in [Files -> Contents]
    BY <1>1 DEF Base, TypeOK
  <1> QED
    BY <1>1, <1>4, <1>5, <1>6 DEF Base, TypeOK, Counted, Holders, entryVars, fileVars, history

\* The row of that file.
LEMMA BasePutRow ==
    ASSUME Base, NEW r \in Reqs, PutRow(r)
    PROVE  Base'
  <1> DEFINE f == req[r].f
  <1>1. PICK new \in Request : /\ req' = [req EXCEPT ![r] = new]
                               /\ new.pc = "row" /\ new.e = req[r].e /\ new.f = f
    BY Goes DEF PutRow, Putting, Base
  <1>2. /\ req[r].pc = "stored" /\ f \in Files /\ req[r].new.len \in Nat
        /\ f \notin rows /\ Knows(new) /\ req[r].pc \in Bringing
    BY <1>1, Fields DEF PutRow, At, Base, TypeOK, Knows, Unused, Bringing
  <1>3. /\ rows' = rows \union {f} /\ ref' = [ref EXCEPT ![f] = 1]
        /\ psize' = [psize EXCEPT ![f] = req[r].new.len]
        /\ UNCHANGED <<entryVars, disk, used, history, apart>>
    BY DEF PutRow
  <1>4. (\A d \in entries : file[d] # f) /\ \A q \in Reqs \ {r} : req[q].f # f
    BY <1>2 DEF Base, Unused
  <1> HIDE DEF f
  <1>5. req' \in [Reqs -> Request] /\ \A q \in Reqs : Knows(req[q])'
    <2>1. req'[r] = new /\ (\A q \in Reqs \ {r} : req'[q] = req[q]) /\ req' \in [Reqs -> Request]
      BY <1>1, Written DEF Base
    <2> QED
      BY <1>2, <2>1 DEF Base, Knows
  <1>6. /\ rows' \subseteq Files /\ ref' \in [Files -> Nat] /\ psize' \in [Files -> Nat]
        /\ ref'[f] = 1 /\ \A g \in Files \ {f} : ref'[g] = ref[g]
    BY <1>2, <1>3 DEF Base, TypeOK
  <1>7. Unused'
    <2>1. ASSUME NEW q \in Reqs \ {r}, req[q].pc \in Bringing
          PROVE  /\ \A d \in entries' : file'[d] # req[q].f
                 /\ new.f # req[q].f
                 /\ At(q, "stored") => req[q].f \notin rows'
                 /\ At(q, "row") => req[q].f \in rows' /\ ref'[req[q].f] > 0
      <3>1. req[q].f \in Files /\ req[q].f # f
        BY <1>4, <2>1 DEF Base, Knows, Bringing
      <3> QED
        BY <1>1, <1>3, <1>6, <2>1, <3>1 DEF Base, Unused, entryVars
    <2>2. \A d \in entries' : file'[d] # new.f
      BY <1>1, <1>3, <1>4 DEF entryVars
    <2>3. /\ \A q \in Reqs \ {r} : req[q].f # new.f
          /\ new.f \in rows' /\ ref'[new.f] > 0 /\ new.pc # "stored"
      BY <1>1, <1>3, <1>4, <1>6
    <2> QED
      BY <1>1, <2>1, <2>2, <2>3, UnusedStep
  <1>8. Counted'
    <2>1. \A g : Holders(g)' = Holders(g)
      BY <1>3 DEF Holders, entryVars
    <2>2. Holders(f) = {}
      BY <1>4 DEF Holders
    <2>3. Cardinality(Holders(f)) = 0
      BY <2>2, FS_EmptySet
    <2> QED
      BY <1>6, <2>1, <2>3 DEF Base, Counted
  <1> QED
    BY <1>3, <1>5, <1>6, <1>7, <1>8 DEF Base, TypeOK, entryVars, disk, history

\* The entry points to it.
LEMMA BasePutPoint ==
    ASSUME Base, NEW r \in Reqs, PutPoint(r)
    PROVE  Base'
  <1> DEFINE f == req[r].f
             e == req[r].e
             new == [req[r] EXCEPT !.pc = "pointed", !.f = NoFile]
  <1>1. /\ new \in Request /\ new.pc = "pointed" /\ new.f = NoFile /\ new.e = e
        /\ req' = [req EXCEPT ![r] = new]
    BY DEF PutPoint, Base, TypeOK, Request, Putting
  <1>2. /\ req[r].pc = "row" /\ req[r].pc \in Bringing
    BY DEF PutPoint, At, Bringing
  <1>3. /\ f \in Files /\ e \in Entries /\ req[r].new.len \in Nat /\ Knows(new)
        /\ f \in rows /\ ref[f] > 0
        /\ (\A d \in entries : file[d] # f) /\ \A q \in Reqs \ {r} : req[q].f # f
    BY <1>1, <1>2, Fields DEF At, Base, TypeOK, Knows, Unused
  <1>4. UNCHANGED <<entries, rows, ref, psize, blobs, content, used, torn, shared, missed, apart>>
    BY DEF PutPoint, fileVars, disk
  <1>5. IF e \in entries
        THEN /\ file' = [file EXCEPT ![e] = f]
             /\ size' = [size EXCEPT ![e] = req[r].new.len]
             /\ over' = over + size[e]
        ELSE UNCHANGED <<file, size, over>>
    BY DEF PutPoint
  <1> HIDE DEF f, e, new
  <1>6. req' \in [Reqs -> Request] /\ \A q \in Reqs : Knows(req[q])'
    <2>1. req'[r] = new /\ (\A q \in Reqs \ {r} : req'[q] = req[q]) /\ req' \in [Reqs -> Request]
      BY <1>1, Written DEF Base
    <2> QED
      BY <1>3, <2>1 DEF Base, Knows
  <1>7. /\ file' \in [Entries -> Files \union {NoFile}] /\ size' \in [Entries -> Nat] /\ over' \in Nat
        /\ \A d \in Entries \ {e} : file'[d] = file[d] /\ size'[d] = size[d]
        /\ file'[e] \in {file[e], f}
        /\ e \notin entries => file'[e] = file[e] /\ size'[e] = size[e]
    BY <1>3, <1>5 DEF Base, TypeOK
  <1>8. Unused'
    <2>1. ASSUME NEW q \in Reqs \ {r}, req[q].pc \in Bringing
          PROVE  /\ \A d \in entries' : file'[d] # req[q].f
                 /\ new.f # req[q].f
                 /\ At(q, "stored") => req[q].f \notin rows'
                 /\ At(q, "row") => req[q].f \in rows' /\ ref'[req[q].f] > 0
      <3>1. req[q].f \in Files /\ req[q].f # f
        BY <1>3, <2>1 DEF Base, Knows, Bringing
      <3>2. \A d \in entries' : file'[d] \in {file[d], f}
        BY <1>4, <1>7 DEF Base, TypeOK
      <3> QED
        BY <1>1, <1>4, <2>1, <3>1, <3>2, EditConstants DEF Base, Unused
    <2>2. new.pc \notin Bringing
      BY <1>1 DEF Bringing
    <2> QED
      BY <1>1, <2>1, <2>2, UnusedStep
  <1>9. Counted'
    <2> SUFFICES ASSUME NEW g \in Files PROVE Cardinality(Holders(g)') <= ref[g]
      BY <1>4 DEF Counted, Holders
    <2>1. Cardinality(Holders(g)) <= ref[g] /\ ref[g] \in Nat
      BY DEF Base, Counted, TypeOK
    <2>2. CASE g = f
      <3>1. Holders(g)' \subseteq {e}
        BY <1>3, <1>4, <1>7, <2>2 DEF Holders, Base, TypeOK
      <3>2. Cardinality({e}) = 1 /\ IsFiniteSet({e})
        BY FS_Singleton
      <3>3. Cardinality(Holders(g)') <= 1 /\ Cardinality(Holders(g)') \in Nat
        BY <3>1, <3>2, FS_Subset, FS_CardinalityType
      <3> QED
        BY <1>3, <2>1, <2>2, <3>3
    <2>3. CASE g # f
      <3>1. Holders(g)' \subseteq Holders(g)
        BY <1>4, <1>7, <2>3 DEF Holders, Base, TypeOK
      <3>2. /\ Cardinality(Holders(g)') <= Cardinality(Holders(g))
            /\ Cardinality(Holders(g)') \in Nat /\ Cardinality(Holders(g)) \in Nat
        BY <3>1, HoldersFinite, FS_Subset, FS_CardinalityType DEF Base
      <3> QED
        BY <2>1, <3>2
    <2> QED
      BY <2>2, <2>3
  <1>10. \A d \in entries' : file'[d] \in rows' \union {NoFile}
    BY <1>3, <1>4, <1>7 DEF Base, TypeOK
  <1> QED
    BY <1>4, <1>6, <1>7, <1>8, <1>9, <1>10 DEF Base, TypeOK

\* The charge.
LEMMA BasePutCharge ==
    ASSUME Base, NEW r \in Reqs, PutCharge(r)
    PROVE  Base'
  <1>1. /\ req' = [req EXCEPT ![r] = Idle]
        /\ UNCHANGED <<entryVars, fileVars, disk, history, apart>>
    BY DEF PutCharge, Done
  <1>2. /\ req' \in [Reqs -> Request] /\ \A q \in Reqs : Knows(req[q])'
        /\ Unused' /\ Counted'
        /\ \A e \in entries' : file'[e] \in rows' \union {NoFile}
    <2>1. Idle.pc \notin Bringing /\ UNCHANGED <<entries, file, rows, ref>>
      BY <1>1, IdleIs DEF Bringing, entryVars, fileVars
    <2> QED
      BY <1>1, <2>1, IdleIs, BaseQuiet
  <1>3. used' \in Nat
    BY Fields, AdjustNat DEF PutCharge, Base, TypeOK
  <1> QED
    BY <1>1, <1>2, <1>3 DEF Base, TypeOK, entryVars, fileVars, disk, history

\* A request stops.
LEMMA BaseFail ==
    ASSUME Base, NEW r \in Reqs, Fail(r)
    PROVE  Base'
  <1>1. /\ req' = [req EXCEPT ![r] = Idle]
        /\ UNCHANGED <<entryVars, fileVars, disk, used, shared, over, apart>>
    BY DEF Fail, Done
  <1>2. /\ req' \in [Reqs -> Request] /\ \A q \in Reqs : Knows(req[q])'
        /\ Unused' /\ Counted'
        /\ \A e \in entries' : file'[e] \in rows' \union {NoFile}
    <2>1. Idle.pc \notin Bringing /\ UNCHANGED <<entries, file, rows, ref>>
      BY <1>1, IdleIs DEF Bringing, entryVars, fileVars
    <2> QED
      BY <1>1, <2>1, IdleIs, BaseQuiet
  <1>3. torn' \subseteq Files /\ missed' \in Nat
    BY Fields DEF Fail, Base, TypeOK, Knows
  <1> QED
    BY <1>1, <1>2, <1>3 DEF Base, TypeOK, entryVars, fileVars, disk

\* One entry more for a file, and one more is counted.
LEMMA BaseCopy ==
    ASSUME Base, NEW e \in Entries, NEW d \in Entries, NEW dav \in BOOLEAN, Copy(e, d, dav)
    PROVE  Base'
  <1> DEFINE f == file[e]
  <1>1. /\ e \in entries /\ d \notin entries /\ f # NoFile
        /\ entries' = entries \union {d}
        /\ file' = [file EXCEPT ![d] = f]
        /\ size' = [size EXCEPT ![d] = size[e]]
        /\ ref' = [ref EXCEPT ![f] = @ + 1]
        /\ shared' = shared \union {f}
        /\ UNCHANGED <<rows, psize, blobs, content, req, torn, over, apart>>
    BY DEF Copy, disk
  <1>2. f \in Files /\ f \in rows
    BY <1>1 DEF Base, TypeOK
  <1>3. IF dav THEN missed' = missed + size[e] /\ UNCHANGED used ELSE Adjust(size[e]) /\ UNCHANGED missed
    BY DEF Copy
  <1> HIDE DEF f
  <1>4. /\ file' \in [Entries -> Files \union {NoFile}] /\ size' \in [Entries -> Nat]
        /\ ref' \in [Files -> Nat] /\ file'[d] = f
        /\ \A x \in Entries \ {d} : file'[x] = file[x] /\ size'[x] = size[x]
        /\ ref'[f] = ref[f] + 1 /\ \A g \in Files \ {f} : ref'[g] = ref[g]
    BY <1>1, <1>2 DEF Base, TypeOK
  <1>5. used' \in Nat /\ missed' \in Nat
    BY <1>3, AdjustNat DEF Base, TypeOK
  <1>6. \A x \in entries' : file'[x] \in rows' \union {NoFile}
    BY <1>1, <1>2, <1>4 DEF Base, TypeOK
  <1>7. Unused'
    <2> SUFFICES ASSUME NEW r \in Reqs, req[r].pc \in Bringing
                 PROVE  /\ \A x \in entries' : file'[x] # req[r].f
                        /\ \A q \in Reqs \ {r} : req[q].f # req[r].f
                        /\ At(r, "stored") => req[r].f \notin rows
                        /\ At(r, "row") => req[r].f \in rows /\ ref'[req[r].f] > 0
      BY <1>1 DEF Unused, At, Bringing
    <2>1. /\ \A x \in entries : file[x] # req[r].f
          /\ \A q \in Reqs \ {r} : req[q].f # req[r].f
          /\ At(r, "stored") => req[r].f \notin rows
          /\ At(r, "row") => req[r].f \in rows /\ ref[req[r].f] > 0
      BY DEF Base, Unused
    <2>2. req[r].f # f /\ req[r].f \in Files
      BY <1>1, <2>1 DEF f, Base, Knows, Bringing
    <2>3. \A x \in entries' : file'[x] # req[r].f
      BY <1>1, <1>4, <2>1, <2>2 DEF Base, TypeOK
    <2> QED
      BY <1>4, <2>1, <2>2, <2>3
  <1>8. Counted'
    <2> SUFFICES ASSUME NEW g \in Files PROVE Cardinality(Holders(g)') <= ref'[g]
      BY DEF Counted, Holders
    <2>1. Cardinality(Holders(g)) <= ref[g] /\ ref[g] \in Nat
      BY DEF Base, Counted, TypeOK
    <2>2. CASE g = f
      <3>1. Holders(g)' = Holders(g) \union {d}
        BY <1>1, <1>4, <2>2 DEF Holders, Base, TypeOK
      <3>2. IsFiniteSet(Holders(g)) /\ Cardinality(Holders(g)) \in Nat
        BY HoldersFinite DEF Base
      <3>3. Cardinality(Holders(g)') \in {Cardinality(Holders(g)), Cardinality(Holders(g)) + 1}
        BY <3>1, <3>2, FS_AddElement
      <3> QED
        BY <1>4, <2>1, <2>2, <3>2, <3>3
    <2>3. CASE g # f
      <3>1. Holders(g)' = Holders(g)
        BY <1>1, <1>4, <2>3 DEF Holders, Base, TypeOK
      <3> QED
        BY <1>4, <2>1, <2>3, <3>1
    <2> QED
      BY <2>2, <2>3
  <1> QED
    BY <1>1, <1>2, <1>4, <1>5, <1>6, <1>7, <1>8 DEF Base, TypeOK, Knows

\* What a purge does to the file e has, and to the others.
LEMMA PurgeIs ==
    ASSUME Base, NEW e \in Entries, Purge(e)
    PROVE  /\ e \in entries /\ entries' = entries \ {e}
           /\ file' = [file EXCEPT ![e] = NoFile] /\ size' = [size EXCEPT ![e] = 0]
           /\ Adjust(-size[e])
           /\ rows' = rows \ Freed(e) /\ blobs' = blobs \ Freed(e)
           /\ torn' = torn \ Freed(e) /\ shared' = shared \ Freed(e)
           /\ ref' \in [Files -> Nat] /\ psize' \in [Files -> Nat] /\ content' \in [Files -> Contents]
           /\ \A g \in Files : /\ g # file[e] => ref'[g] = ref[g]
                               /\ g = file[e] => ref'[g] = IF ref[g] = 0 THEN 0 ELSE ref[g] - 1
                               /\ g \notin Freed(e) => psize'[g] = psize[g] /\ content'[g] = content[g]
           /\ UNCHANGED <<req, over, missed, apart>>
           /\ \A x \in entries' : file[x] \notin Freed(e)
  <1>1. /\ e \in entries /\ entries' = entries \ {e}
        /\ file' = [file EXCEPT ![e] = NoFile] /\ size' = [size EXCEPT ![e] = 0]
        /\ Adjust(-size[e]) /\ UNCHANGED <<req, over, missed, apart>>
    BY DEF Purge
  <1>2. CASE file[e] = NoFile
    <2>1. Freed(e) = {}
      BY <1>2, EditConstants DEF Freed
    <2>2. UNCHANGED <<rows, ref, psize, blobs, content, torn, shared>>
      BY <1>2 DEF Purge, fileVars, disk
    <2> QED
      BY <1>1, <1>2, <2>1, <2>2, EditConstants DEF Base, TypeOK
  <1>3. CASE file[e] # NoFile
    <2>1. /\ rows' = rows \ Freed(e) /\ blobs' = blobs \ Freed(e)
          /\ torn' = torn \ Freed(e) /\ shared' = shared \ Freed(e)
          /\ ref' = [ref EXCEPT ![file[e]] = IF @ = 0 THEN 0 ELSE @ - 1]
          /\ psize' = [f \in Files |-> IF f \in Freed(e) THEN 0 ELSE psize[f]]
          /\ content' = [f \in Files |-> IF f \in Freed(e) THEN Empty ELSE content[f]]
      BY <1>3 DEF Purge
    <2>2. file[e] \in Files
      BY <1>3 DEF Base, TypeOK
    <2>3. ref' \in [Files -> Nat] /\ \A g \in Files :
              /\ g # file[e] => ref'[g] = ref[g]
              /\ g = file[e] => ref'[g] = IF ref[g] = 0 THEN 0 ELSE ref[g] - 1
      BY <2>1, <2>2 DEF Base, TypeOK
    <2>4. psize' \in [Files -> Nat] /\ content' \in [Files -> Contents]
      BY <2>1, ContentIs DEF Base, TypeOK
    <2>5. \A g \in Files \ Freed(e) : psize'[g] = psize[g] /\ content'[g] = content[g]
      BY <2>1
    <2>6. ASSUME NEW x \in entries', file[x] \in Freed(e) PROVE FALSE
      <3> DEFINE H == Holders(file[e])
      <3>1. file[x] = file[e] /\ ref[file[e]] <= 1 /\ x # e /\ {x, e} \subseteq H
        BY <1>1, <2>6 DEF Freed, Holders
      <3>2. IsFiniteSet(H) /\ Cardinality(H) \in Nat /\ Cardinality(H) <= ref[file[e]]
        BY <2>2, HoldersFinite DEF Base, Counted
      <3> HIDE DEF H
      <3>3. Cardinality({x, e}) = 2
        <4>1. {x, e} = {x} \union {e} /\ e \notin {x}
          BY <3>1
        <4>2. IsFiniteSet({x}) /\ Cardinality({x}) = 1
          BY FS_Singleton
        <4>3. Cardinality({x} \union {e}) = Cardinality({x}) + 1
          BY <4>1, <4>2, FS_AddElement
        <4> QED
          BY <4>1, <4>2, <4>3
      <3>4. Cardinality({x, e}) <= Cardinality(H)
        BY <3>1, <3>2, FS_Subset
      <3> QED
        BY <2>2, <3>1, <3>2, <3>3, <3>4 DEF Base, TypeOK
    <2> QED
      BY <1>1, <2>1, <2>3, <2>4, <2>5, <2>6
  <1> QED
    BY <1>2, <1>3

\* One entry less; the file goes with its last entry.
LEMMA BasePurge ==
    ASSUME Base, NEW e \in Entries, Purge(e)
    PROVE  Base'
  <1>1. /\ e \in entries /\ entries' = entries \ {e}
        /\ file' = [file EXCEPT ![e] = NoFile] /\ size' = [size EXCEPT ![e] = 0]
        /\ Adjust(-size[e])
        /\ rows' = rows \ Freed(e) /\ blobs' = blobs \ Freed(e)
        /\ torn' = torn \ Freed(e) /\ shared' = shared \ Freed(e)
        /\ ref' \in [Files -> Nat] /\ psize' \in [Files -> Nat] /\ content' \in [Files -> Contents]
        /\ \A g \in Files : /\ g # file[e] => ref'[g] = ref[g]
                            /\ g = file[e] => ref'[g] = IF ref[g] = 0 THEN 0 ELSE ref[g] - 1
        /\ UNCHANGED <<req, over, missed, apart>>
        /\ \A x \in entries' : file[x] \notin Freed(e)
    BY PurgeIs
  <1>2. used' \in Nat
    BY <1>1, AdjustNat DEF Base, TypeOK
  <1>3. /\ file' \in [Entries -> Files \union {NoFile}] /\ size' \in [Entries -> Nat]
        /\ file'[e] = NoFile /\ size'[e] = 0
        /\ \A x \in Entries \ {e} : file'[x] = file[x] /\ size'[x] = size[x]
    BY <1>1 DEF Base, TypeOK
  <1>4. \A x \in entries' : file'[x] \in rows' \union {NoFile}
    BY <1>1, <1>3 DEF Base, TypeOK
  <1>5. Unused'
    <2> SUFFICES ASSUME NEW r \in Reqs, req[r].pc \in Bringing
                 PROVE  /\ \A x \in entries' : file'[x] # req[r].f
                        /\ \A q \in Reqs \ {r} : req[q].f # req[r].f
                        /\ At(r, "stored") => req[r].f \notin rows'
                        /\ At(r, "row") => req[r].f \in rows' /\ ref'[req[r].f] > 0
      BY <1>1 DEF Unused, At, Bringing
    <2>1. /\ \A x \in entries : file[x] # req[r].f
          /\ \A q \in Reqs \ {r} : req[q].f # req[r].f
          /\ At(r, "stored") => req[r].f \notin rows
          /\ At(r, "row") => req[r].f \in rows /\ ref[req[r].f] > 0
      BY DEF Base, Unused
    <2>2. req[r].f # file[e] /\ req[r].f \in Files
      BY <1>1, <2>1 DEF Base, Knows, Bringing
    <2>3. \A x \in entries' : file'[x] # req[r].f
      BY <1>1, <1>3, <2>1 DEF Base, TypeOK
    <2>4. req[r].f \notin Freed(e)
      BY <2>2 DEF Freed
    <2> QED
      BY <1>1, <2>1, <2>2, <2>3, <2>4
  <1>6. Counted'
    <2> SUFFICES ASSUME NEW g \in Files PROVE Cardinality(Holders(g)') <= ref'[g]
      BY DEF Counted, Holders
    <2>1. Cardinality(Holders(g)) <= ref[g] /\ ref[g] \in Nat
      BY DEF Base, Counted, TypeOK
    <2>2. IsFiniteSet(Holders(g)) /\ Cardinality(Holders(g)) \in Nat
      BY HoldersFinite DEF Base
    <2>3. CASE g = file[e]
      <3>1. Holders(g)' = Holders(g) \ {e} /\ e \in Holders(g)
        BY <1>1, <1>3, <2>3, EditConstants DEF Holders, Base, TypeOK
      <3>2. Cardinality(Holders(g)') = Cardinality(Holders(g)) - 1 /\ Cardinality(Holders(g)) > 0
        BY <2>2, <3>1, FS_RemoveElement, HoldersFinite DEF Base
      <3> QED
        BY <1>1, <2>1, <2>2, <2>3, <3>2
    <2>4. CASE g # file[e]
      <3>1. Holders(g)' = Holders(g)
        BY <1>1, <1>3, <2>4, EditConstants DEF Holders, Base, TypeOK
      <3> QED
        BY <1>1, <2>1, <2>4, <3>1
    <2> QED
      BY <2>3, <2>4
  <1>7. \A x \in Entries \ entries' : file'[x] = NoFile /\ size'[x] = 0
    BY <1>1, <1>3 DEF Base
  <1>8. \A r \in Reqs : Knows(req[r])'
    BY <1>1 DEF Base, Knows
  <1>9. TypeOK'
    BY <1>1, <1>2, <1>3, <1>4 DEF Base, TypeOK
  <1> QED
    BY <1>5, <1>6, <1>7, <1>8, <1>9 DEF Base

\* The invariant is kept by every step...
LEMMA BaseStep == Base /\ [Next]_vars => Base'
  <1> SUFFICES ASSUME Base, [Next]_vars PROVE Base'
    OBVIOUS
  <1>1. CASE UNCHANGED vars
    BY <1>1 DEF Base, TypeOK, Knows, Unused, Counted, Holders, At, vars, entryVars, fileVars,
       disk, history
  <1>2. ASSUME NEW r \in Reqs, NEW e \in Entries, NEW b \in 0..MaxText, NEW t \in 0..MaxText,
               Patch(r, e, b, t)
        PROVE  Base'
    <2>1. b \in 0..AnyBase
      BY EditConstants DEF AnyBase
    <2>2. Content(t, FALSE) \in Contents
      BY ContentIs
    <2> QED
      BY <1>2, <2>1, <2>2, BaseOpen DEF Patch
  <1>3. ASSUME NEW r \in Reqs, NEW e \in Entries, NEW c \in Sendable, PutFile(r, e, c)
        PROVE  Base'
    <2>1. AnyBase \in 0..AnyBase /\ c \in Contents
      BY EditConstants, ContentIs DEF AnyBase
    <2> QED
      BY <1>3, <2>1, BaseOpen DEF PutFile
  <1>4. ASSUME NEW r \in Reqs, NEW e \in Entries, NEW f \in Files, NEW c \in Sendable,
               Put(r, e, f, c)
        PROVE  Base'
    BY <1>4, ContentIs, BasePut
  <1> QED
    BY <1>1, <1>2, <1>3, <1>4, BaseEdits, BaseSave, BaseCreateFile, BasePutRow, BasePutPoint,
       BasePutCharge, BaseCopy, BasePurge, BaseFail DEF Next

\* ...and holds in the beginning.
LEMMA BaseInit == Init => Base
  <1> SUFFICES ASSUME Init PROVE Base
    OBVIOUS
  <1>1. TypeOK
    BY IdleIs, ContentIs, EditConstants DEF Init, TypeOK
  <1>2. \A r \in Reqs : req[r] = Idle
    BY DEF Init
  <1>3. Unused
    BY <1>2, IdleIs DEF Unused, Bringing
  <1>4. Counted
    <2>1. \A f : Holders(f) = {}
      BY DEF Init, Holders
    <2> QED
      BY <2>1, FS_EmptySet DEF Init, Counted
  <1> QED
    BY <1>1, <1>2, <1>3, <1>4, IdleIs DEF Base, Init

\* The variables keep their types, for any entries, files and requests, whether or
\* not requests overlap on them.
THEOREM EditsTypeOK == Spec => []TypeOK
  BY BaseInit, BaseStep, PTL DEF Spec, Base

-----------------------------------------------------------------------------
(* Requests that work on different entries and files *)

\* No two requests name the same entry or the same file.
Distinct ==
    \A r, q \in Reqs : r # q =>
        /\ req[r].pc # "idle" => req[q].e # req[r].e
        /\ req[r].f \in Files => req[q].f # req[r].f

\* What a request remembers is still so, and what it wrote is there.
Fitting(x) ==
    /\ x.pc # "idle" => x.e \in entries
    /\ x.pc \in Editing => /\ file[x.e] = x.f /\ x.f \in rows
                           /\ size[x.e] = x.size /\ psize[x.f] = x.psize
    /\ x.pc = "ready" => x.base = AnyBase \/ content[x.f].text = x.base
    /\ x.pc \in {"cut", "wrote"} => x.f \in blobs
    /\ x.pc = "cut" => content[x.f] = Empty
    /\ x.pc = "wrote" => content[x.f] = x.new
    /\ x.pc = "stored" => x.f \in blobs /\ content[x.f] = x.new
    /\ x.pc = "row" => psize[x.f] = x.new.len
    /\ x.pc = "pointed" => size[x.e] = x.new.len

\* A file that was never shared has one entry.
OwnFiles ==
    \A f \in Files \ shared : \A e, d \in entries : file[e] = f /\ file[d] = f => e = d

InOrder == Distinct /\ (\A r \in Reqs : Fitting(req[r])) /\ OwnFiles

\* Beyond the entry e and the file f nothing changes.
Touches(e, f) ==
    /\ \A x \in Entries \ {e} : /\ x \in entries => x \in entries'
                               /\ file'[x] = file[x] /\ size'[x] = size[x]
    /\ \A g \in Files \ {f} : /\ psize'[g] = psize[g] /\ content'[g] = content[g]
                              /\ g \in rows => g \in rows'
                              /\ g \in blobs => g \in blobs'

\* No request but those in S works on e or f.
Avoid(S, e, f) ==
    \A q \in Reqs \ S : /\ req[q].pc # "idle" => req[q].e # e
                        /\ req[q].f \in Files => req[q].f # f

\* Requests that work apart.
LEMMA AloneAvoids ==
    ASSUME apart, NEW e, NEW f, Alone(e, f)
    PROVE  Avoid({}, e, f) /\ (f # NoFile => \A q \in Reqs : f \notin FilesOf(q))
  BY EditConstants DEF Alone, Avoid, FilesOf

\* What a request remembers outlasts the steps that touch other rows.
LEMMA FittingFrame ==
    ASSUME NEW x, Knows(x), Fitting(x), NEW e, NEW f, Touches(e, f),
           x.pc # "idle" => x.e # e, x.f \in Files => x.f # f
    PROVE  Fitting(x)'
  BY DEF Fitting, Touches, Knows, Editing

\* A step of the request r that touches e and f at most, which are nobody else's.
LEMMA OrderStep ==
    ASSUME Base, InOrder, NEW r \in Reqs, NEW new \in Request, Knows(new),
           req' = [req EXCEPT ![r] = new],
           NEW e, NEW f, Touches(e, f), Avoid({r}, e, f),
           new.pc # "idle" => \A q \in Reqs \ {r} : req[q].pc # "idle" => req[q].e # new.e,
           new.f \in Files => \A q \in Reqs \ {r} : req[q].f # new.f,
           Fitting(new)'
    PROVE  Distinct' /\ (\A q \in Reqs : Fitting(req[q]))'
  <1>1. req'[r] = new /\ \A q \in Reqs \ {r} : req'[q] = req[q]
    BY Written DEF Base
  <1>2. \A q \in Reqs : Knows(req[q]) /\ req[q] \in Request
    BY DEF Base, TypeOK
  <1>3. Distinct'
    <2> SUFFICES ASSUME NEW p \in Reqs, NEW q \in Reqs, p # q
                 PROVE  /\ req'[p].pc # "idle" => req'[q].e # req'[p].e
                        /\ req'[p].f \in Files => req'[q].f # req'[p].f
      BY DEF Distinct
    <2>1. CASE p # r /\ q # r
      BY <1>1, <2>1 DEF InOrder, Distinct
    <2>2. CASE p = r
      <3>1. req'[p] = new /\ req'[q] = req[q] /\ q \in Reqs \ {r}
        BY <1>1, <2>2
      <3>2. new.pc # "idle" => new.e \in Entries /\ new.e # NoFile
        BY EditConstants DEF Knows
      <3> QED
        BY <1>2, <3>1, <3>2 DEF Knows
    <2>3. CASE q = r
      <3>1. req'[q] = new /\ req'[p] = req[p] /\ p \in Reqs \ {r}
        BY <1>1, <2>3
      <3>2. new.pc = "idle" => new.e = NoFile
        BY DEF Knows
      <3>3. req[p].pc # "idle" => req[p].e \in Entries /\ req[p].e # NoFile
        BY <1>2, EditConstants DEF Knows
      <3>4. new.f \in Files \union {NoFile} /\ (req[p].f \in Files => req[p].f # NoFile)
        BY EditConstants, Fields
      <3> QED
        BY <3>1, <3>2, <3>3, <3>4
    <2> QED
      BY <2>1, <2>2, <2>3
  <1>4. ASSUME NEW q \in Reqs PROVE Fitting(req[q])'
    <2>1. CASE q = r
      BY <1>1, <2>1 DEF Fitting
    <2>2. CASE q # r
      <3>1. PICK x : x = req[q]
        OBVIOUS
      <3>2. Knows(x) /\ Fitting(x) /\ req'[q] = x
        BY <1>1, <1>2, <2>2, <3>1 DEF InOrder
      <3>3. (x.pc # "idle" => x.e # e) /\ (x.f \in Files => x.f # f)
        BY <2>2, <3>1 DEF Avoid
      <3>4. Fitting(x)'
        BY <3>2, <3>3, FittingFrame
      <3> QED
        BY <3>2, <3>4 DEF Fitting
    <2> QED
      BY <2>1, <2>2
  <1> QED
    BY <1>3, <1>4

\* A step that no request takes.
LEMMA OrderElsewhere ==
    ASSUME Base, InOrder, req' = req, NEW e, NEW f, Touches(e, f), Avoid({}, e, f)
    PROVE  Distinct' /\ (\A q \in Reqs : Fitting(req[q]))'
  <1>1. Distinct'
    BY DEF InOrder, Distinct
  <1>2. ASSUME NEW q \in Reqs PROVE Fitting(req[q])'
    <2>1. PICK x : x = req[q]
      OBVIOUS
    <2>2. Knows(x) /\ Fitting(x) /\ req'[q] = x
      BY <2>1 DEF InOrder, Base
    <2>3. (x.pc # "idle" => x.e # e) /\ (x.f \in Files => x.f # f)
      BY <2>1 DEF Avoid
    <2>4. Fitting(x)'
      BY <2>2, <2>3, FittingFrame
    <2> QED
      BY <2>2, <2>4 DEF Fitting
  <1> QED
    BY <1>1, <1>2

-----------------------------------------------------------------------------
(* The sizes *)

Agrees(f) ==
    /\ f \in blobs /\ content[f].len = psize[f]
    /\ f \notin shared => \A e \in entries : file[e] = f => size[e] = psize[f]

Untorn(f) ==
    f \in rows \ torn /\ \A r \in Reqs : req[r].f = f => req[r].pc \notin {"cut", "wrote"}

\* The property in these words.
LEMMA SizesAre == SizesAgree <=> (apart => \A f \in rows : Untorn(f) => Agrees(f))
  BY DEF SizesAgree, Untorn, Agrees

\* A step that concerns the size of the file f at most.
LEMMA SizesStep ==
    ASSUME Base, apart, SizesAgree, NEW f,
           \A g \in Files \ {f} :
               /\ psize'[g] = psize[g] /\ content'[g] = content[g]
               /\ g \in rows' => g \in rows
               /\ g \in torn => g \in torn'
               /\ g \in blobs => g \in blobs' /\ (g \in shared => g \in shared')
               /\ \A e \in entries' : file'[e] = g =>
                      e \in entries /\ file[e] = g /\ size'[e] = size[e],
           \A g \in Files \ {f}, r \in Reqs : req[r].f = g /\ req[r].pc \in {"cut", "wrote"} =>
               req'[r].f = g /\ req'[r].pc \in {"cut", "wrote"},
           rows' \subseteq Files,
           Untorn(f)' => Agrees(f)'
    PROVE  SizesAgree'
  <1> SUFFICES ASSUME NEW g \in Files, Untorn(g)' PROVE Agrees(g)'
    BY DEF SizesAgree, Untorn, Agrees
  <1>1. CASE g = f
    BY <1>1
  <1>2. CASE g # f
    <2>1. Untorn(g)
      BY <1>2 DEF Untorn
    <2>2. Agrees(g)
      BY <2>1, SizesAre DEF Untorn
    <2> QED
      BY <1>2, <2>2 DEF Agrees
  <1> QED
    BY <1>1, <1>2

\* Nothing but requests changes, and no request that has written is one of them.
LEMMA SizesQuiet ==
    ASSUME Base, apart, SizesAgree, UNCHANGED <<entryVars, fileVars, disk, torn, shared>>,
           \A r \in Reqs : req[r].pc \in {"cut", "wrote"} => req'[r] = req[r]
    PROVE  SizesAgree'
  <1>1. UNCHANGED <<entries, file, size, rows, psize, blobs, content>> /\ rows' \subseteq Files
    BY DEF entryVars, fileVars, disk, Base, TypeOK
  <1>2. ~Untorn(NoFile)'
    BY <1>1, EditConstants DEF Untorn
  <1> QED
    BY <1>1, <1>2, SizesStep

\* Whoever else is at work, is so on another entry and another file.
LEMMA OwnAvoid ==
    ASSUME Base, InOrder, NEW r \in Reqs, req[r].pc # "idle"
    PROVE  Avoid({r}, req[r].e, req[r].f)
  <1> SUFFICES ASSUME NEW q \in Reqs \ {r}
               PROVE  /\ req[q].pc # "idle" => req[q].e # req[r].e
                      /\ req[q].f \in Files => req[q].f # req[r].f
    BY DEF Avoid
  <1> QED
    BY DEF InOrder, Distinct

\* The settings of a run and the rows no step gives away.
LEMMA OwnFilesQuiet ==
    ASSUME OwnFiles, UNCHANGED <<entries, file, shared>>
    PROVE  OwnFiles'
  BY DEF OwnFiles

\* A step of the requests alone.
LEMMA TouchesNothing ==
    ASSUME UNCHANGED <<entryVars, fileVars, disk>>, NEW e, NEW f
    PROVE  Touches(e, f)
  BY DEF Touches, entryVars, fileVars, disk

-----------------------------------------------------------------------------
(* Order and sizes are kept *)

\* What is loaded is so, and stays so while nobody else comes near.
LEMMA OrderOpen ==
    ASSUME Base, apart, InOrder, SizesAgree,
           NEW r \in Reqs, NEW e \in Entries, NEW step \in {"opened", "ready"},
           NEW base \in 0..AnyBase, NEW new \in Contents, Open(r, e, step, base, new),
           step = "ready" => base = AnyBase
    PROVE  InOrder' /\ SizesAgree'
  <1>0. PICK x : x = [pc |-> step, e |-> e, f |-> file[e], base |-> base, new |-> new,
                      size |-> size[e], psize |-> psize[file[e]]]
    OBVIOUS
  <1>1. /\ req' = [req EXCEPT ![r] = x] /\ e \in entries /\ file[e] \in rows
        /\ file[e] \in Files /\ Alone(e, file[e]) /\ req[r].pc = "idle"
        /\ UNCHANGED <<entryVars, fileVars, disk, torn, shared>>
    BY <1>0 DEF Open, Base, TypeOK, history, At
  <1>2. x \in Request /\ x.pc = step /\ x.e = e /\ x.f = file[e] /\ x.base = base
        /\ x.size = size[e] /\ x.psize = psize[file[e]]
    BY <1>0, <1>1 DEF Request, Editing, Base, TypeOK
  <1>3. Knows(x)
    BY <1>1, <1>2 DEF Knows
  <1>4. Fitting(x)'
    <2>1. /\ e \in entries' /\ file'[e] = file[e] /\ file[e] \in rows'
          /\ size'[e] = size[e] /\ psize'[file[e]] = psize[file[e]]
      BY <1>1 DEF entryVars, fileVars
    <2>2. x.pc \in {"opened", "ready"} /\ (x.pc = "ready" => x.base = AnyBase)
      BY <1>2
    <2> QED
      BY <1>2, <2>1, <2>2 DEF Fitting
  <1>5. Avoid({}, e, file[e]) /\ Avoid({r}, e, file[e])
    <2>1. Avoid({}, e, file[e])
      BY <1>1, AloneAvoids
    <2> QED
      BY <2>1 DEF Avoid
  <1>6. Touches(e, file[e])
    BY <1>1, TouchesNothing
  <1>7. Distinct' /\ (\A q \in Reqs : Fitting(req[q]))'
    <2>1. x.pc # "idle" => \A q \in Reqs \ {r} : req[q].pc # "idle" => req[q].e # x.e
      BY <1>2, <1>5 DEF Avoid
    <2>2. x.f \in Files => \A q \in Reqs \ {r} : req[q].f # x.f
      BY <1>1, <1>2, <1>5 DEF Avoid
    <2>3. x \in Request /\ req' = [req EXCEPT ![r] = x]
      BY <1>1, <1>2
    <2>4. Avoid({r}, e, file[e])
      BY <1>5
    <2> QED
      BY <1>3, <1>4, <1>6, <2>1, <2>2, <2>3, <2>4, OrderStep
  <1>8. OwnFiles'
    BY <1>1, OwnFilesQuiet DEF InOrder, entryVars
  <1>9. SizesAgree'
    <2>1. \A q \in Reqs : req[q].pc \in {"cut", "wrote"} => req'[q] = req[q]
      BY <1>1 DEF Base, TypeOK
    <2> QED
      BY <1>1, <2>1, SizesQuiet
  <1> QED
    BY <1>7, <1>8, <1>9 DEF InOrder

\* The request goes on with the entry and the file it has.
LEMMA OrderGoes ==
    ASSUME Base, InOrder, NEW r \in Reqs, NEW new \in Request, req' = [req EXCEPT ![r] = new],
           req[r].pc # "idle", new.pc # "idle", Knows(new), new.e = req[r].e,
           new.f \in {req[r].f, NoFile},
           Touches(req[r].e, req[r].f), Fitting(new)'
    PROVE  Distinct' /\ (\A q \in Reqs : Fitting(req[q]))'
  <1>1. Avoid({r}, req[r].e, req[r].f)
    BY OwnAvoid
  <1>2. \A q \in Reqs \ {r} : req[q].pc # "idle" => req[q].e # new.e
    BY <1>1 DEF Avoid
  <1>3. new.f \in Files => \A q \in Reqs \ {r} : req[q].f # new.f
    BY <1>1, EditConstants DEF Avoid
  <1> QED
    BY <1>1, <1>2, <1>3, OrderStep

\* The hash is compared with what will be overwritten.
LEMMA OrderPatchRead ==
    ASSUME Base, apart, InOrder, SizesAgree, NEW r \in Reqs, PatchRead(r)
    PROVE  InOrder' /\ SizesAgree'
  <1>1. PICK new \in Request :
              /\ req' = [req EXCEPT ![r] = new]
              /\ new.pc = "ready" /\ new.e = req[r].e /\ new.f = req[r].f
              /\ new.base = req[r].base /\ new.new = req[r].new
              /\ new.size = req[r].size /\ new.psize = req[r].psize
    BY Goes DEF PatchRead, Editing, Base
  <1>2. /\ UNCHANGED <<entryVars, fileVars, disk, torn, shared>>
        /\ req[r].pc = "opened" /\ content[req[r].f].text = req[r].base
    BY DEF PatchRead, At, history
  <1>3. Knows(new) /\ Fitting(req[r])
    BY <1>1, <1>2 DEF Base, Knows, InOrder
  <1>4. Fitting(new)'
    BY <1>1, <1>2, <1>3 DEF Fitting, Editing, entryVars, fileVars, disk
  <1>5. Distinct' /\ (\A q \in Reqs : Fitting(req[q]))'
    BY <1>1, <1>2, <1>3, <1>4, TouchesNothing, OrderGoes
  <1>6. OwnFiles'
    BY <1>2, OwnFilesQuiet DEF InOrder, entryVars
  <1>7. SizesAgree'
    <2>1. \A q \in Reqs : req[q].pc \in {"cut", "wrote"} => req'[q] = req[q]
      BY <1>1, <1>2 DEF Base, TypeOK
    <2> QED
      BY <1>2, <2>1, SizesQuiet
  <1> QED
    BY <1>5, <1>6, <1>7 DEF InOrder

\* The request truncates or writes its file.
LEMMA OrderWrites ==
    ASSUME Base, apart, InOrder, SizesAgree, NEW r \in Reqs, Truncate(r) \/ Write(r)
    PROVE  InOrder' /\ SizesAgree'
  <1>0. PICK f : f = req[r].f
    OBVIOUS
  <1>1. PICK step \in {"cut", "wrote"} : Step(r, step) /\ (Truncate(r) <=> step = "cut")
    BY DEF Truncate, Write, At
  <1>2. PICK new \in Request :
              /\ req' = [req EXCEPT ![r] = new]
              /\ new.pc = step /\ new.e = req[r].e /\ new.f = f
              /\ new.base = req[r].base /\ new.new = req[r].new
              /\ new.size = req[r].size /\ new.psize = req[r].psize
    BY <1>0, <1>1, Goes DEF Editing, Base
  <1>3. /\ UNCHANGED <<entries, file, size, rows, ref, psize, torn, shared>>
        /\ req[r].pc \in {"ready", "cut"}
    BY DEF Truncate, Write, At, entryVars, fileVars, history
  <1>4. Knows(new) /\ Fitting(req[r]) /\ f \in Files
    BY <1>0, <1>2, <1>3 DEF Base, Knows, InOrder
  <1>5. /\ blobs' = blobs \union {f}
        /\ content' = [content EXCEPT ![f] = IF step = "cut" THEN Empty ELSE req[r].new]
    <2>1. CASE Truncate(r)
      BY <1>0, <1>1, <2>1 DEF Truncate
    <2>2. CASE ~Truncate(r)
      <3>1. Write(r) /\ step = "wrote"
        BY <1>1, <2>2
      <3>2. req[r].pc = "cut"
        BY <3>1 DEF Write, At
      <3>3. f \in blobs /\ content[f] = Empty
        BY <1>0, <1>4, <3>2 DEF Fitting
      <3>4. Over(req[r].new, content[f]) = req[r].new
        BY <3>3, OverIs, ContentIs, Fields DEF Base, TypeOK
      <3>5. content' = [content EXCEPT ![f] = Over(req[r].new, content[f])] /\ blobs' = blobs
        BY <1>0, <1>4, <3>1, <3>3 DEF Write, Base, TypeOK
      <3> QED
        BY <3>1, <3>3, <3>4, <3>5
    <2> QED
      BY <2>1, <2>2
  <1>6. Touches(req[r].e, f)
    BY <1>3, <1>4, <1>5 DEF Touches, Base, TypeOK
  <1>7. Fitting(new)'
    BY <1>0, <1>2, <1>3, <1>4, <1>5 DEF Fitting, Editing, Base, TypeOK
  <1>8. Distinct' /\ (\A q \in Reqs : Fitting(req[q]))'
    BY <1>0, <1>2, <1>3, <1>4, <1>6, <1>7, OrderGoes
  <1>9. OwnFiles'
    BY <1>3, OwnFilesQuiet DEF InOrder
  <1>10. SizesAgree'
    <2>1. req'[r] = new /\ \A q \in Reqs \ {r} : req'[q] = req[q]
      BY <1>2, Written DEF Base
    <2>2. Untorn(f)' => Agrees(f)'
      <3>1. req'[r].f = f /\ req'[r].pc \in {"cut", "wrote"}
        BY <1>2, <2>1
      <3> QED
        BY <3>1 DEF Untorn
    <2>3. \A g \in Files \ {f} :
               /\ psize'[g] = psize[g] /\ content'[g] = content[g]
               /\ g \in rows' => g \in rows
               /\ g \in torn => g \in torn'
               /\ g \in blobs => g \in blobs' /\ (g \in shared => g \in shared')
               /\ \A e \in entries' : file'[e] = g =>
                      e \in entries /\ file[e] = g /\ size'[e] = size[e]
      BY <1>3, <1>4, <1>5 DEF Base, TypeOK
    <2>4. \A g \in Files \ {f}, q \in Reqs : req[q].f = g /\ req[q].pc \in {"cut", "wrote"} =>
               req'[q].f = g /\ req'[q].pc \in {"cut", "wrote"}
      BY <1>0, <2>1
    <2>5. rows' \subseteq Files
      BY <1>3 DEF Base, TypeOK
    <2> QED
      BY <2>2, <2>3, <2>4, <2>5, SizesStep
  <1> QED
    BY <1>8, <1>9, <1>10 DEF InOrder

\* A request ends.
LEMMA OrderDone ==
    ASSUME Base, InOrder, NEW r \in Reqs, req' = [req EXCEPT ![r] = Idle],
           NEW e, NEW f, Touches(e, f), Avoid({r}, e, f)
    PROVE  Distinct' /\ (\A q \in Reqs : Fitting(req[q]))'
  <1>1. Idle.f \notin Files /\ Fitting(Idle)'
    BY IdleIs, EditConstants DEF Fitting, Editing
  <1> QED
    BY <1>1, IdleIs, OrderStep

\* A save writes both sizes; the file had one entry unless it was shared.
LEMMA OrderSave ==
    ASSUME Base, apart, InOrder, SizesAgree, NEW r \in Reqs, Save(r)
    PROVE  InOrder' /\ SizesAgree'
  <1>0. PICK e, f, n : e = req[r].e /\ f = req[r].f /\ n = req[r].new.len
    OBVIOUS
  <1>1. /\ req' = [req EXCEPT ![r] = Idle] /\ e \in entries /\ f \in rows
        /\ UNCHANGED <<entries, file, rows, ref, blobs, content, shared>>
        /\ torn' = torn \ {f} /\ req[r].pc = "wrote"
    BY <1>0 DEF Save, Done, disk, At
  <1>2. n \in Nat /\ f \in Files /\ e \in Entries /\ Fitting(req[r])
    BY <1>0, <1>1, Fields DEF Base, TypeOK, InOrder
  <1>3. /\ file[e] = f /\ size[e] = req[r].size /\ psize[f] = req[r].psize
        /\ f \in blobs /\ content[f] = req[r].new
    BY <1>0, <1>1, <1>2 DEF Fitting, Editing
  <1>4. /\ \A x \in Entries \ {e} : size'[x] = size[x]
        /\ \A g \in Files \ {f} : psize'[g] = psize[g]
        /\ size'[e] = n /\ psize'[f] = n
    <2>1. /\ size' = Column(size, e, req[r].size, n)
          /\ psize' = Column(psize, f, req[r].psize, n)
      BY <1>0 DEF Save
    <2> QED
      BY <1>2, <1>3, <2>1, ColumnIs DEF Base, TypeOK
  <1>5. Touches(e, f)
    BY <1>1, <1>4 DEF Touches
  <1>6. Avoid({r}, e, f)
    BY <1>0, <1>1, OwnAvoid
  <1>7. Distinct' /\ (\A q \in Reqs : Fitting(req[q]))'
    BY <1>1, <1>5, <1>6, OrderDone
  <1>8. OwnFiles'
    BY <1>1, OwnFilesQuiet DEF InOrder
  <1>9. SizesAgree'
    <2>1. req'[r] = Idle /\ \A q \in Reqs \ {r} : req'[q] = req[q]
      BY <1>1, Written DEF Base
    <2>2. Agrees(f)'
      <3>1. f \in blobs' /\ content'[f].len = psize'[f]
        BY <1>0, <1>1, <1>3, <1>4
      <3>2. f \notin shared' => \A x \in entries' : file'[x] = f => x = e
        BY <1>1, <1>2, <1>3 DEF InOrder, OwnFiles
      <3>3. f \notin shared' => \A x \in entries' : file'[x] = f => size'[x] = psize'[f]
        BY <1>4, <3>2
      <3> QED
        BY <3>1, <3>3 DEF Agrees
    <2>3. \A g \in Files \ {f} :
               /\ psize'[g] = psize[g] /\ content'[g] = content[g]
               /\ g \in rows' => g \in rows
               /\ g \in torn => g \in torn'
               /\ g \in blobs => g \in blobs' /\ (g \in shared => g \in shared')
               /\ \A x \in entries' : file'[x] = g =>
                      x \in entries /\ file[x] = g /\ size'[x] = size[x]
      BY <1>1, <1>3, <1>4 DEF Base, TypeOK
    <2>4. \A g \in Files \ {f}, q \in Reqs : req[q].f = g /\ req[q].pc \in {"cut", "wrote"} =>
               req'[q].f = g /\ req'[q].pc \in {"cut", "wrote"}
      BY <1>0, <1>1, <2>1, OwnAvoid DEF Avoid
    <2>5. rows' \subseteq Files
      BY <1>1 DEF Base, TypeOK
    <2>6. Untorn(f)' => Agrees(f)'
      BY <2>2
    <2> QED
      BY <2>3, <2>4, <2>5, <2>6, SizesStep
  <1> QED
    BY <1>7, <1>8, <1>9 DEF InOrder

\* What the other requests wrote is still theirs.
LEMMA OthersKeep ==
    ASSUME Base, InOrder, NEW r \in Reqs, NEW new, req' = [req EXCEPT ![r] = new],
           NEW f, req[r].pc \notin {"cut", "wrote"} \/ f = req[r].f
    PROVE  \A g \in Files \ {f}, q \in Reqs : req[q].f = g /\ req[q].pc \in {"cut", "wrote"} =>
               req'[q].f = g /\ req'[q].pc \in {"cut", "wrote"}
  <1>1. \A q \in Reqs \ {r} : req'[q] = req[q]
    BY Written DEF Base
  <1> QED
    BY <1>1

\* The new entry is no request's, as theirs all exist.
LEMMA OrderCreateFile ==
    ASSUME Base, apart, InOrder, SizesAgree, NEW e \in Entries, CreateFile(e)
    PROVE  InOrder' /\ SizesAgree'
  <1>1. /\ e \notin entries /\ entries' = entries \union {e} /\ file[e] = NoFile
        /\ UNCHANGED <<file, size, rows, ref, psize, blobs, content, req, torn, shared>>
    BY DEF CreateFile, Base, fileVars, disk, history
  <1>2. Touches(e, NoFile)
    BY <1>1 DEF Touches
  <1>3. Avoid({}, e, NoFile)
    BY <1>1, EditConstants DEF Avoid, InOrder, Fitting
  <1>4. Distinct' /\ (\A q \in Reqs : Fitting(req[q]))'
    BY <1>1, <1>2, <1>3, OrderElsewhere
  <1>5. OwnFiles'
    BY <1>1, EditConstants DEF InOrder, OwnFiles
  <1>6. SizesAgree'
    <2>1. \A g \in Files \ {NoFile} :
               /\ psize'[g] = psize[g] /\ content'[g] = content[g]
               /\ g \in rows' => g \in rows
               /\ g \in torn => g \in torn'
               /\ g \in blobs => g \in blobs' /\ (g \in shared => g \in shared')
               /\ \A x \in entries' : file'[x] = g =>
                      x \in entries /\ file[x] = g /\ size'[x] = size[x]
      BY <1>1
    <2>2. \A g \in Files \ {NoFile}, q \in Reqs : req[q].f = g /\ req[q].pc \in {"cut", "wrote"} =>
               req'[q].f = g /\ req'[q].pc \in {"cut", "wrote"}
      BY <1>1
    <2>3. rows' \subseteq Files
      BY <1>1 DEF Base, TypeOK
    <2>4. Untorn(NoFile)' => Agrees(NoFile)'
      BY <2>3, EditConstants DEF Untorn
    <2> QED
      BY <2>1, <2>2, <2>3, <2>4, SizesStep
  <1> QED
    BY <1>4, <1>5, <1>6 DEF InOrder

\* The new file is no request's and no entry's.
LEMMA OrderPut ==
    ASSUME Base, apart, InOrder, SizesAgree, NEW r \in Reqs, NEW e \in Entries,
           NEW f \in Files, NEW c \in Contents, Put(r, e, f, c)
    PROVE  InOrder' /\ SizesAgree'
  <1>0. PICK new : new = [Idle EXCEPT !.pc = "stored", !.e = e, !.f = f, !.new = c]
    OBVIOUS
  <1>1. /\ req' = [req EXCEPT ![r] = new] /\ e \in entries /\ req[r].pc = "idle"
        /\ f \notin rows \union blobs /\ \A q \in Reqs : req[q].f # f
        /\ Alone(e, file[e])
        /\ blobs' = blobs \union {f} /\ content' = [content EXCEPT ![f] = c]
        /\ UNCHANGED <<entries, file, size, rows, ref, psize, torn, shared>>
    BY <1>0 DEF Put, At, entryVars, fileVars, history
  <1>2. /\ new \in Request /\ new.pc = "stored" /\ new.e = e /\ new.f = f /\ new.new = c
        /\ Knows(new)
    BY <1>0, IdleIs DEF Request, Putting, Knows
  <1>3. Avoid({}, e, f) /\ Avoid({r}, e, f)
    <2>1. Avoid({}, e, file[e])
      BY <1>1, AloneAvoids
    <2> QED
      BY <1>1, <2>1 DEF Avoid
  <1>4. /\ content'[f] = c /\ f \in blobs'
        /\ \A g \in Files \ {f} : content'[g] = content[g]
    BY <1>1 DEF Base, TypeOK
  <1>5. Touches(e, f)
    BY <1>1, <1>4 DEF Touches
  <1>6. Fitting(new)'
    BY <1>1, <1>2, <1>4 DEF Fitting, Editing
  <1>7. Distinct' /\ (\A q \in Reqs : Fitting(req[q]))'
    <2>1. new.pc # "idle" => \A q \in Reqs \ {r} : req[q].pc # "idle" => req[q].e # new.e
      BY <1>2, <1>3 DEF Avoid
    <2>2. new.f \in Files => \A q \in Reqs \ {r} : req[q].f # new.f
      BY <1>1, <1>2
    <2> QED
      BY <1>1, <1>2, <1>3, <1>5, <1>6, <2>1, <2>2, OrderStep
  <1>8. OwnFiles'
    BY <1>1, OwnFilesQuiet DEF InOrder
  <1>9. SizesAgree'
    <2>1. \A g \in Files \ {f} :
               /\ psize'[g] = psize[g] /\ content'[g] = content[g]
               /\ g \in rows' => g \in rows
               /\ g \in torn => g \in torn'
               /\ g \in blobs => g \in blobs' /\ (g \in shared => g \in shared')
               /\ \A x \in entries' : file'[x] = g =>
                      x \in entries /\ file[x] = g /\ size'[x] = size[x]
      BY <1>1, <1>4
    <2>2. \A g \in Files \ {f}, q \in Reqs : req[q].f = g /\ req[q].pc \in {"cut", "wrote"} =>
               req'[q].f = g /\ req'[q].pc \in {"cut", "wrote"}
      BY <1>1, OthersKeep
    <2>3. rows' \subseteq Files
      BY <1>1 DEF Base, TypeOK
    <2>4. Untorn(f)' => Agrees(f)'
      BY <1>1 DEF Untorn
    <2> QED
      BY <2>1, <2>2, <2>3, <2>4, SizesStep
  <1> QED
    BY <1>7, <1>8, <1>9 DEF InOrder

\* The row of a new file has the length of what was stored.
LEMMA OrderPutRow ==
    ASSUME Base, apart, InOrder, SizesAgree, NEW r \in Reqs, PutRow(r)
    PROVE  InOrder' /\ SizesAgree'
  <1>0. PICK f, n : f = req[r].f /\ n = req[r].new.len
    OBVIOUS
  <1>1. PICK new \in Request :
              /\ req' = [req EXCEPT ![r] = new]
              /\ new.pc = "row" /\ new.e = req[r].e /\ new.f = f /\ new.new = req[r].new
    BY <1>0, Goes DEF PutRow, Putting, Base
  <1>2. /\ rows' = rows \union {f} /\ psize' = [psize EXCEPT ![f] = n]
        /\ UNCHANGED <<entries, file, size, blobs, content, torn, shared>> /\ req[r].pc = "stored"
    BY <1>0 DEF PutRow, At, entryVars, disk, history
  <1>3. /\ Fitting(req[r]) /\ Knows(new) /\ f \in Files /\ n \in Nat
        /\ \A x \in entries : file[x] # f
    BY <1>0, <1>1, <1>2, Fields DEF Base, TypeOK, Knows, InOrder, Unused, Bringing
  <1>4. /\ psize'[f] = n /\ \A g \in Files \ {f} : psize'[g] = psize[g]
    BY <1>2, <1>3 DEF Base, TypeOK
  <1>5. Touches(req[r].e, f)
    BY <1>2, <1>4 DEF Touches
  <1>6. Fitting(new)'
    BY <1>0, <1>1, <1>2, <1>3, <1>4 DEF Fitting, Editing
  <1>7. Distinct' /\ (\A q \in Reqs : Fitting(req[q]))'
    BY <1>0, <1>1, <1>2, <1>3, <1>5, <1>6, OrderGoes
  <1>8. OwnFiles'
    BY <1>2, OwnFilesQuiet DEF InOrder
  <1>9. SizesAgree'
    <2>1. \A g \in Files \ {f} :
               /\ psize'[g] = psize[g] /\ content'[g] = content[g]
               /\ g \in rows' => g \in rows
               /\ g \in torn => g \in torn'
               /\ g \in blobs => g \in blobs' /\ (g \in shared => g \in shared')
               /\ \A x \in entries' : file'[x] = g =>
                      x \in entries /\ file[x] = g /\ size'[x] = size[x]
      BY <1>2, <1>4
    <2>2. \A g \in Files \ {f}, q \in Reqs : req[q].f = g /\ req[q].pc \in {"cut", "wrote"} =>
               req'[q].f = g /\ req'[q].pc \in {"cut", "wrote"}
      BY <1>0, <1>1, OthersKeep
    <2>3. rows' \subseteq Files
      BY <1>2, <1>3 DEF Base, TypeOK
    <2>4. Agrees(f)'
      <3>1. f \in blobs /\ content[f].len = n
        BY <1>0, <1>2, <1>3 DEF Fitting
      <3> QED
        BY <1>2, <1>3, <1>4, <3>1 DEF Agrees
    <2>5. Untorn(f)' => Agrees(f)'
      BY <2>4
    <2> QED
      BY <2>1, <2>2, <2>3, <2>5, SizesStep
  <1> QED
    BY <1>7, <1>8, <1>9 DEF InOrder

\* The entry takes the size of the new file, which is its alone.
LEMMA OrderPutPoint ==
    ASSUME Base, apart, InOrder, SizesAgree, NEW r \in Reqs, PutPoint(r)
    PROVE  InOrder' /\ SizesAgree'
  <1>0. PICK e, f, n, new : /\ e = req[r].e /\ f = req[r].f /\ n = req[r].new.len
                            /\ new = [req[r] EXCEPT !.pc = "pointed", !.f = NoFile]
    OBVIOUS
  <1>1. /\ new \in Request /\ new.pc = "pointed" /\ new.f = NoFile /\ new.e = e
        /\ new.new = req[r].new /\ req' = [req EXCEPT ![r] = new]
    BY <1>0 DEF PutPoint, Base, TypeOK, Request, Putting
  <1>2. /\ req[r].pc = "row" /\ req[r].pc \in Bringing
        /\ UNCHANGED <<entries, rows, ref, psize, blobs, content, torn, shared>>
    BY DEF PutPoint, At, fileVars, disk, Bringing
  <1>3. /\ Fitting(req[r]) /\ Knows(new) /\ f \in Files /\ n \in Nat /\ e \in entries
        /\ e \in Entries /\ f \in rows
        /\ (\A x \in entries : file[x] # f) /\ (\A q \in Reqs \ {r} : req[q].f # f)
    BY <1>0, <1>1, <1>2, Fields DEF At, Base, TypeOK, Knows, InOrder, Fitting, Unused
  <1>4. file' = [file EXCEPT ![e] = f] /\ size' = [size EXCEPT ![e] = n]
    BY <1>0, <1>3 DEF PutPoint
  <1>5. /\ file'[e] = f /\ size'[e] = n
        /\ \A x \in Entries \ {e} : file'[x] = file[x] /\ size'[x] = size[x]
    BY <1>3, <1>4 DEF Base, TypeOK
  <1>6. Touches(e, f)
    BY <1>2, <1>5 DEF Touches
  <1>7. Fitting(new)'
    BY <1>0, <1>1, <1>2, <1>3, <1>5 DEF Fitting, Editing
  <1>8. Distinct' /\ (\A q \in Reqs : Fitting(req[q]))'
    BY <1>0, <1>1, <1>2, <1>3, <1>6, <1>7, OrderGoes
  <1>9. \A x \in entries' : /\ file'[x] = f => x = e
                            /\ \A g \in Files \ {f} : file'[x] = g =>
                                  x \in entries /\ file[x] = g /\ size'[x] = size[x]
    BY <1>2, <1>3, <1>5 DEF Base, TypeOK
  <1>10. OwnFiles'
    BY <1>2, <1>9 DEF InOrder, OwnFiles
  <1>11. SizesAgree'
    <2>1. \A g \in Files \ {f} :
               /\ psize'[g] = psize[g] /\ content'[g] = content[g]
               /\ g \in rows' => g \in rows
               /\ g \in torn => g \in torn'
               /\ g \in blobs => g \in blobs' /\ (g \in shared => g \in shared')
               /\ \A x \in entries' : file'[x] = g =>
                      x \in entries /\ file[x] = g /\ size'[x] = size[x]
      BY <1>2, <1>9
    <2>2. \A g \in Files \ {f}, q \in Reqs : req[q].f = g /\ req[q].pc \in {"cut", "wrote"} =>
               req'[q].f = g /\ req'[q].pc \in {"cut", "wrote"}
      BY <1>0, <1>1, OthersKeep
    <2>3. rows' \subseteq Files
      BY <1>2 DEF Base, TypeOK
    <2>4. ASSUME Untorn(f)' PROVE Agrees(f)'
      <3>1. Untorn(f)
        BY <1>0, <1>2, <1>3, <2>4 DEF Untorn
      <3>2. Agrees(f)
        BY <1>3, <3>1, SizesAre
      <3>3. psize[f] = n
        BY <1>0, <1>2, <1>3 DEF Fitting
      <3> QED
        BY <1>2, <1>5, <1>9, <3>2, <3>3 DEF Agrees
    <2>5. Untorn(f)' => Agrees(f)'
      BY <2>4
    <2> QED
      BY <2>1, <2>2, <2>3, <2>5, SizesStep
  <1> QED
    BY <1>8, <1>10, <1>11 DEF InOrder

\* The charge concerns no size.
LEMMA OrderPutCharge ==
    ASSUME Base, apart, InOrder, SizesAgree, NEW r \in Reqs, PutCharge(r)
    PROVE  InOrder' /\ SizesAgree'
  <1>0. PICK e, f : e = req[r].e /\ f = req[r].f
    OBVIOUS
  <1>1. /\ req' = [req EXCEPT ![r] = Idle] /\ req[r].pc = "pointed"
        /\ UNCHANGED <<entryVars, fileVars, disk, torn, shared>>
    BY DEF PutCharge, Done, At, history
  <1>2. Distinct' /\ (\A q \in Reqs : Fitting(req[q]))'
    BY <1>0, <1>1, TouchesNothing, OwnAvoid, OrderDone
  <1>3. OwnFiles'
    BY <1>1, OwnFilesQuiet DEF InOrder, entryVars
  <1>4. SizesAgree'
    <2>1. \A q \in Reqs : req[q].pc \in {"cut", "wrote"} => req'[q] = req[q]
      BY <1>1 DEF Base, TypeOK
    <2> QED
      BY <1>1, <2>1, SizesQuiet
  <1> QED
    BY <1>2, <1>3, <1>4 DEF InOrder

\* The file is shared from now on.
LEMMA OrderCopy ==
    ASSUME Base, apart, InOrder, SizesAgree, NEW e \in Entries, NEW d \in Entries,
           NEW dav \in BOOLEAN, Copy(e, d, dav)
    PROVE  InOrder' /\ SizesAgree'
  <1>0. PICK f : f = file[e]
    OBVIOUS
  <1>1. /\ e \in entries /\ d \notin entries /\ f # NoFile
        /\ entries' = entries \union {d}
        /\ file' = [file EXCEPT ![d] = f]
        /\ size' = [size EXCEPT ![d] = size[e]]
        /\ shared' = shared \union {f}
        /\ UNCHANGED <<rows, psize, blobs, content, req, torn>>
    BY <1>0 DEF Copy, disk
  <1>2. \A x \in Entries \ {d} : file'[x] = file[x] /\ size'[x] = size[x]
    BY <1>1 DEF Base, TypeOK
  <1>3. file'[d] = f
    BY <1>1 DEF Base, TypeOK
  <1>4. Touches(d, NoFile)
    BY <1>1, <1>2 DEF Touches
  <1>5. Avoid({}, d, NoFile)
    BY <1>1, EditConstants DEF Avoid, InOrder, Fitting
  <1>6. Distinct' /\ (\A q \in Reqs : Fitting(req[q]))'
    BY <1>1, <1>4, <1>5, OrderElsewhere
  <1>7. \A x \in entries', g \in Files \ {f} : file'[x] = g =>
                                  x \in entries /\ file[x] = g /\ size'[x] = size[x]
    BY <1>1, <1>2, <1>3 DEF Base, TypeOK
  <1>8. OwnFiles'
    BY <1>1, <1>7 DEF InOrder, OwnFiles
  <1>9. SizesAgree'
    <2>1. \A g \in Files \ {f} :
               /\ psize'[g] = psize[g] /\ content'[g] = content[g]
               /\ g \in rows' => g \in rows
               /\ g \in torn => g \in torn'
               /\ g \in blobs => g \in blobs' /\ (g \in shared => g \in shared')
               /\ \A x \in entries' : file'[x] = g =>
                      x \in entries /\ file[x] = g /\ size'[x] = size[x]
      BY <1>1, <1>7
    <2>2. \A g \in Files \ {f}, q \in Reqs : req[q].f = g /\ req[q].pc \in {"cut", "wrote"} =>
               req'[q].f = g /\ req'[q].pc \in {"cut", "wrote"}
      BY <1>1
    <2>3. rows' \subseteq Files
      BY <1>1 DEF Base, TypeOK
    <2>4. ASSUME Untorn(f)' PROVE Agrees(f)'
      <3>1. Untorn(f) /\ f \in rows
        BY <1>1, <2>4 DEF Untorn
      <3>2. Agrees(f)
        BY <3>1, SizesAre
      <3> QED
        BY <1>1, <3>2 DEF Agrees
    <2>5. Untorn(f)' => Agrees(f)'
      BY <2>4
    <2> QED
      BY <2>1, <2>2, <2>3, <2>5, SizesStep
  <1> QED
    BY <1>6, <1>8, <1>9 DEF InOrder

\* Nobody is at work on what is deleted.
LEMMA OrderPurge ==
    ASSUME Base, apart, InOrder, SizesAgree, NEW e \in Entries, Purge(e)
    PROVE  InOrder' /\ SizesAgree'
  <1>0. PICK f, gone : f = file[e] /\ gone = Freed(e)
    OBVIOUS
  <1>1. /\ e \in entries /\ entries' = entries \ {e}
        /\ file' = [file EXCEPT ![e] = NoFile] /\ size' = [size EXCEPT ![e] = 0]
        /\ rows' = rows \ gone /\ blobs' = blobs \ gone
        /\ torn' = torn \ gone /\ shared' = shared \ gone
        /\ \A g \in Files \ gone : psize'[g] = psize[g] /\ content'[g] = content[g]
        /\ req' = req
        /\ \A x \in entries' : file[x] \notin gone
    BY <1>0, PurgeIs
  <1>2. gone \subseteq {f}
    BY <1>0 DEF Freed
  <1>3. \A x \in Entries \ {e} : file'[x] = file[x] /\ size'[x] = size[x]
    BY <1>1 DEF Base, TypeOK
  <1>4. Avoid({}, e, f)
    BY <1>0, AloneAvoids DEF Purge
  <1>5. Touches(e, f)
    BY <1>1, <1>2, <1>3 DEF Touches
  <1>6. Distinct' /\ (\A q \in Reqs : Fitting(req[q]))'
    BY <1>1, <1>4, <1>5, OrderElsewhere
  <1>7. \A x \in entries' : x \in entries /\ file'[x] = file[x] /\ size'[x] = size[x]
    BY <1>1, <1>3 DEF Base, TypeOK
  <1>8. OwnFiles'
    BY <1>1, <1>7 DEF InOrder, OwnFiles
  <1>9. SizesAgree'
    <2>1. \A g \in Files \ {f} :
               /\ psize'[g] = psize[g] /\ content'[g] = content[g]
               /\ g \in rows' => g \in rows
               /\ g \in torn => g \in torn'
               /\ g \in blobs => g \in blobs' /\ (g \in shared => g \in shared')
               /\ \A x \in entries' : file'[x] = g =>
                      x \in entries /\ file[x] = g /\ size'[x] = size[x]
      BY <1>1, <1>2, <1>7
    <2>2. \A g \in Files \ {f}, q \in Reqs : req[q].f = g /\ req[q].pc \in {"cut", "wrote"} =>
               req'[q].f = g /\ req'[q].pc \in {"cut", "wrote"}
      BY <1>1
    <2>3. rows' \subseteq Files
      BY <1>1 DEF Base, TypeOK
    <2>4. ASSUME Untorn(f)' PROVE Agrees(f)'
      <3>1. Untorn(f) /\ f \in Files /\ f \notin gone /\ f \in rows
        BY <1>1, <2>4 DEF Untorn, Base, TypeOK
      <3>2. Agrees(f)
        BY <3>1, SizesAre
      <3> QED
        BY <1>1, <1>7, <3>1, <3>2 DEF Agrees
    <2>5. Untorn(f)' => Agrees(f)'
      BY <2>4
    <2> QED
      BY <2>1, <2>2, <2>3, <2>5, SizesStep
  <1> QED
    BY <1>6, <1>8, <1>9 DEF InOrder

\* What a request that had written leaves behind is torn.
LEMMA OrderFail ==
    ASSUME Base, apart, InOrder, SizesAgree, NEW r \in Reqs, Fail(r)
    PROVE  InOrder' /\ SizesAgree'
  <1>0. PICK e, f : e = req[r].e /\ f = req[r].f
    OBVIOUS
  <1>1. /\ req' = [req EXCEPT ![r] = Idle] /\ req[r].pc # "idle"
        /\ UNCHANGED <<entries, file, size, rows, ref, psize, blobs, content, shared>>
        /\ torn' = IF req[r].pc \in {"cut", "wrote"} THEN torn \union {f} ELSE torn
    BY <1>0 DEF Fail, Done, At, entryVars, fileVars, disk
  <1>2. Touches(e, f) /\ Avoid({r}, e, f)
    BY <1>0, <1>1, OwnAvoid DEF Touches
  <1>3. Distinct' /\ (\A q \in Reqs : Fitting(req[q]))'
    BY <1>1, <1>2, OrderDone
  <1>4. OwnFiles'
    BY <1>1, OwnFilesQuiet DEF InOrder
  <1>5. SizesAgree'
    <2>1. \A g \in Files \ {f} :
               /\ psize'[g] = psize[g] /\ content'[g] = content[g]
               /\ g \in rows' => g \in rows
               /\ g \in torn => g \in torn'
               /\ g \in blobs => g \in blobs' /\ (g \in shared => g \in shared')
               /\ \A x \in entries' : file'[x] = g =>
                      x \in entries /\ file[x] = g /\ size'[x] = size[x]
      BY <1>1
    <2>2. \A g \in Files \ {f}, q \in Reqs : req[q].f = g /\ req[q].pc \in {"cut", "wrote"} =>
               req'[q].f = g /\ req'[q].pc \in {"cut", "wrote"}
      BY <1>0, <1>1, OthersKeep
    <2>3. rows' \subseteq Files
      BY <1>1 DEF Base, TypeOK
    <2>4. ASSUME Untorn(f)' PROVE Agrees(f)'
      <3>1. req[r].pc \notin {"cut", "wrote"} /\ torn' = torn /\ f \in rows
        BY <1>1, <2>4 DEF Untorn
      <3>2. \A q \in Reqs \ {r} : req'[q] = req[q]
        BY <1>1, Written DEF Base
      <3>3. Untorn(f)
        BY <1>1, <2>4, <3>1, <3>2 DEF Untorn
      <3>4. Agrees(f)
        BY <3>1, <3>3, SizesAre
      <3> QED
        BY <1>1, <3>4 DEF Agrees
    <2>5. Untorn(f)' => Agrees(f)'
      BY <2>4
    <2> QED
      BY <2>1, <2>2, <2>3, <2>5, SizesStep
  <1> QED
    BY <1>3, <1>4, <1>5 DEF InOrder

Ordered == apart => InOrder /\ SizesAgree

\* Every step keeps the order.
LEMMA OrderNext ==
    ASSUME Base, Ordered, [Next]_vars
    PROVE  Ordered'
  <1>1. apart' = apart
    BY DEF Next, vars, Patch, PutFile, Open, PatchRead, Truncate, Write, Save, CreateFile, Put,
       PutRow, PutPoint, PutCharge, Copy, Purge, Fail
  <1> SUFFICES ASSUME apart PROVE InOrder' /\ SizesAgree'
    BY <1>1 DEF Ordered
  <1>2. InOrder /\ SizesAgree
    BY DEF Ordered
  <1>3. CASE UNCHANGED vars
    BY <1>2, <1>3 DEF InOrder, Distinct, Fitting, OwnFiles, SizesAgree, vars, entryVars, fileVars,
       disk, history
  <1>4. ASSUME NEW r \in Reqs, NEW e \in Entries, NEW b \in 0..MaxText, NEW t \in 0..MaxText,
               Patch(r, e, b, t)
        PROVE  InOrder' /\ SizesAgree'
    <2>1. b \in 0..AnyBase
      BY EditConstants DEF AnyBase
    <2>2. Content(t, FALSE) \in Contents
      BY ContentIs
    <2> QED
      BY <1>2, <1>4, <2>1, <2>2, OrderOpen DEF Patch
  <1>5. ASSUME NEW r \in Reqs, NEW e \in Entries, NEW c \in Sendable, PutFile(r, e, c)
        PROVE  InOrder' /\ SizesAgree'
    <2>1. AnyBase \in 0..AnyBase /\ c \in Contents
      BY EditConstants, ContentIs DEF AnyBase
    <2> QED
      BY <1>2, <1>5, <2>1, OrderOpen DEF PutFile
  <1>6. ASSUME NEW r \in Reqs, NEW e \in Entries, NEW f \in Files, NEW c \in Sendable,
               Put(r, e, f, c)
        PROVE  InOrder' /\ SizesAgree'
    BY <1>2, <1>6, ContentIs, OrderPut
  <1> QED
    BY <1>2, <1>3, <1>4, <1>5, <1>6, OrderPatchRead, OrderWrites, OrderSave, OrderCreateFile,
       OrderPutRow, OrderPutPoint, OrderPutCharge, OrderCopy, OrderPurge, OrderFail DEF Next

-----------------------------------------------------------------------------
(* The charge *)

Pointed == {r \in Reqs : At(r, "pointed")}

\* The sums of the properties, as Sums has them.
LEMMA SumsAre == Coming = SumOf(NewLen, Pointed) /\ Total(entries) = SumOf(size, entries)
  <1>1. Coming = SumOf(NewLen, Pointed)
    BY DEF Coming, SumOf, Pointed
  <1>2. Total(entries) = SumOf(size, entries)
    BY DEF Total, SumOf
  <1> QED
    BY <1>1, <1>2

\* The same in the next state.
LEMMA SumsNext ==
    Coming' = SumOf(NewLen', Pointed') /\ Total(entries)' = SumOf(size', entries')
  <1>1. (Coming = SumOf(NewLen, Pointed) /\ Total(entries) = SumOf(size, entries))'
    BY SumsAre, PTL
  <1> QED
    BY <1>1

\* Both sums are numbers.
LEMMA SumsNat == Base => Coming \in Nat /\ Total(entries) \in Nat
  <1> SUFFICES ASSUME Base PROVE Coming \in Nat /\ Total(entries) \in Nat
    OBVIOUS
  <1>1. IsFiniteSet(Pointed) /\ IsFiniteSet(entries)
    BY EditConstants, FS_Subset DEF Base, TypeOK, Pointed
  <1>2. \A r \in Pointed : NewLen[r] \in Nat
    BY Fields DEF NewLen, Pointed, Base, TypeOK
  <1>3. \A e \in entries : size[e] \in Nat
    BY DEF Base, TypeOK
  <1> QED
    BY <1>1, <1>2, <1>3, SumsAre, SumType

\* What the PUTs are going to charge is in their entries.
LEMMA ComingCovered == Base /\ InOrder => Coming <= Total(entries)
  <1> SUFFICES ASSUME Base, InOrder PROVE Coming <= Total(entries)
    OBVIOUS
  <1> DEFINE m == [r \in Reqs |-> req[r].e]
  <1>1. IsFiniteSet(Pointed) /\ IsFiniteSet(entries)
    BY EditConstants, FS_Subset DEF Base, TypeOK, Pointed
  <1>2. \A r \in Pointed : NewLen[r] \in Nat
    BY Fields DEF NewLen, Pointed, Base, TypeOK
  <1>3. \A e \in entries : size[e] \in Nat
    BY DEF Base, TypeOK
  <1>4. ASSUME NEW r \in Pointed PROVE m[r] \in entries /\ NewLen[r] <= size[m[r]]
    <2>1. r \in Reqs /\ req[r].pc = "pointed" /\ Fitting(req[r])
      BY DEF Pointed, At, InOrder
    <2>2. req[r].e \in entries /\ size[req[r].e] = req[r].new.len /\ req[r].new.len \in Nat
      BY <2>1, Fields DEF Fitting, Base, TypeOK
    <2> QED
      BY <2>1, <2>2 DEF NewLen
  <1>5. \A r, q \in Pointed : m[r] = m[q] => r = q
    BY DEF Pointed, At, InOrder, Distinct
  <1> HIDE DEF m
  <1>6. SumOf(NewLen, Pointed) <= SumOf(size, entries)
    BY <1>1, <1>2, <1>3, <1>4, <1>5, SumInto
  <1> QED
    BY <1>6, SumsAre

\* What a request is going to charge by its last commit.
Charges(x) == IF x.pc = "pointed" THEN x.new.len ELSE 0

\* One request changes what it is going to charge.
LEMMA ComingStep ==
    ASSUME Base, NEW r \in Reqs, NEW new \in Request, req' = [req EXCEPT ![r] = new]
    PROVE  Coming' + Charges(req[r]) = Coming + Charges(new)
  <1>0. PICK l, k, p, s : l = NewLen /\ k = NewLen' /\ p = Pointed /\ s = Pointed'
    OBVIOUS
  <1>1. req'[r] = new /\ \A q \in Reqs \ {r} : req'[q] = req[q]
    BY Written DEF Base
  <1>2. /\ \A q \in Reqs : l[q] = req[q].new.len /\ k[q] = req'[q].new.len
        /\ \A q \in Reqs : l[q] \in Nat /\ k[q] \in Nat
    <2>1. \A q \in Reqs : l[q] = req[q].new.len /\ k[q] = req'[q].new.len
      BY <1>0 DEF NewLen
    <2>2. \A q \in Reqs : req[q] \in Request /\ req'[q] \in Request
      BY <1>1 DEF Base, TypeOK
    <2> QED
      BY <2>1, <2>2, Fields
  <1>3. /\ p \subseteq Reqs /\ s \subseteq Reqs /\ p \ {r} = s \ {r}
        /\ (r \in p <=> req[r].pc = "pointed") /\ (r \in s <=> new.pc = "pointed")
    BY <1>0, <1>1 DEF Pointed, At
  <1>4. IsFiniteSet(p) /\ IsFiniteSet(s) /\ IsFiniteSet(p \ {r})
    BY <1>3, EditConstants, FS_Subset
  <1>5. SumOf(k, p \ {r}) = SumOf(l, p \ {r})
    BY <1>1, <1>2, <1>3, <1>4, SumAgree
  <1>6. SumOf(l, p \ {r}) \in Nat
    BY <1>2, <1>3, <1>4, SumType
  <1>7. SumOf(l, p) = Charges(req[r]) + SumOf(l, p \ {r})
    <2>1. CASE r \in p
      BY <1>2, <1>3, <1>4, <2>1, SumWithout DEF Charges
    <2>2. CASE r \notin p
      <3>1. p \ {r} = p /\ Charges(req[r]) = 0
        BY <1>3, <2>2 DEF Charges
      <3>2. SumOf(l, p \ {r}) = SumOf(l, p)
        BY <3>1
      <3> QED
        BY <1>6, <3>1, <3>2
    <2> QED
      BY <2>1, <2>2
  <1>8. SumOf(k, s) = Charges(new) + SumOf(k, s \ {r})
    <2>1. CASE r \in s
      BY <1>1, <1>2, <1>3, <1>4, <2>1, SumWithout DEF Charges
    <2>2. CASE r \notin s
      <3>1. s \ {r} = s /\ Charges(new) = 0
        BY <1>3, <2>2 DEF Charges
      <3>2. SumOf(k, s) \in Nat
        BY <1>2, <1>3, <1>4, SumType
      <3>3. SumOf(k, s \ {r}) = SumOf(k, s)
        BY <3>1
      <3> QED
        BY <3>1, <3>2, <3>3
    <2> QED
      BY <2>1, <2>2
  <1>9. Coming = SumOf(l, p) /\ Coming' = SumOf(k, s)
    BY <1>0, SumsAre, SumsNext
  <1>10. Charges(req[r]) \in Nat /\ Charges(new) \in Nat
    BY Fields DEF Charges, Base, TypeOK
  <1> QED
    BY <1>3, <1>5, <1>6, <1>7, <1>8, <1>9, <1>10

\* The size of one entry changes.
LEMMA TotalStep ==
    ASSUME Base, NEW e \in entries, entries' = entries, size' \in [Entries -> Nat],
           \A x \in Entries \ {e} : size'[x] = size[x]
    PROVE  Total(entries)' + size[e] = Total(entries) + size'[e]
  <1>0. PICK s, t : s = size /\ t = size'
    OBVIOUS
  <1>1. IsFiniteSet(entries)
    BY EditConstants, FS_Subset DEF Base, TypeOK
  <1>2. /\ \A x \in entries : s[x] \in Nat /\ t[x] \in Nat
        /\ \A x \in entries \ {e} : s[x] = t[x]
    BY <1>0 DEF Base, TypeOK
  <1>3. SumOf(s, entries) + t[e] = SumOf(t, entries) + s[e]
    BY <1>1, <1>2, SumChange
  <1> QED
    BY <1>0, <1>3, SumsAre, SumsNext

\* An entry more.
LEMMA TotalMore ==
    ASSUME Base, NEW e \in Entries \ entries, entries' = entries \union {e},
           size' \in [Entries -> Nat], \A x \in Entries \ {e} : size'[x] = size[x]
    PROVE  Total(entries)' = Total(entries) + size'[e]
  <1>0. PICK s, t : s = size /\ t = size'
    OBVIOUS
  <1>1. IsFiniteSet(entries) /\ entries \subseteq Entries
    BY EditConstants, FS_Subset DEF Base, TypeOK
  <1>2. /\ \A x \in entries : s[x] = t[x]
        /\ \A x \in entries \union {e} : t[x] \in Nat
    BY <1>0, <1>1
  <1>3. SumOf(t, entries \union {e}) = SumOf(t, entries) + t[e]
    BY <1>1, <1>2, SumWith
  <1>4. SumOf(s, entries) = SumOf(t, entries)
    BY <1>1, <1>2, SumAgree
  <1> QED
    BY <1>0, <1>3, <1>4, SumsAre, SumsNext

\* An entry less.
LEMMA TotalLess ==
    ASSUME Base, NEW e \in entries, entries' = entries \ {e},
           size' \in [Entries -> Nat], \A x \in Entries \ {e} : size'[x] = size[x]
    PROVE  Total(entries) = Total(entries)' + size[e]
  <1>0. PICK s, t : s = size /\ t = size'
    OBVIOUS
  <1>1. IsFiniteSet(entries) /\ entries \subseteq Entries /\ IsFiniteSet(entries \ {e})
    BY EditConstants, FS_Subset DEF Base, TypeOK
  <1>2. /\ \A x \in entries \ {e} : s[x] = t[x]
        /\ \A x \in entries : s[x] \in Nat
    BY <1>0, <1>1 DEF Base, TypeOK
  <1>3. SumOf(s, entries) = s[e] + SumOf(s, entries \ {e})
    BY <1>1, <1>2, SumWithout
  <1>4. SumOf(s, entries \ {e}) = SumOf(t, entries \ {e})
    BY <1>1, <1>2, SumAgree
  <1>5. SumOf(s, entries \ {e}) \in Nat /\ s[e] \in Nat
    BY <1>1, <1>2, SumType
  <1> QED
    BY <1>0, <1>3, <1>4, <1>5, SumsAre, SumsNext

\* A change of the charge by d, which stops at zero.
LEMMA Balance ==
    ASSUME NEW d \in Int,
           NEW T \in Nat, NEW C \in Nat, NEW M \in Nat, NEW O \in Nat, NEW U \in Nat,
           NEW T1 \in Nat, NEW C1 \in Nat, NEW M1 \in Nat, NEW O1 \in Nat, NEW U1 \in Nat,
           T <= U + C + M, U + C <= T + O, C1 <= T1,
           U + d >= 0 => U1 = U + d, U + d < 0 => U1 = 0,
           T1 - C1 - M1 <= T - C - M + d,
           d + C1 - T1 - O1 <= C - T - O
    PROVE  T1 <= U1 + C1 + M1 /\ U1 + C1 <= T1 + O1
  <1>1. CASE U + d >= 0
    BY <1>1
  <1>2. CASE U + d < 0
    BY <1>2
  <1> QED
    BY <1>1, <1>2

\* A step that changes the charge by d and the two sides by as much.
LEMMA ChargedBy ==
    ASSUME Base, Base', InOrder', apart, apart', Charged,
           NEW d \in Int, Adjust(d) \/ (d = 0 /\ used' = used),
           Total(entries)' - Coming' - missed' <= Total(entries) - Coming - missed + d,
           d + Coming' - Total(entries)' - over' <= Coming - Total(entries) - over
    PROVE  Charged'
  <1>1. (Coming <= Total(entries))'
    BY ComingCovered, PTL
  <1>2. Coming \in Nat /\ Total(entries) \in Nat /\ (Coming \in Nat /\ Total(entries) \in Nat)'
    BY SumsNat, PTL
  <1>3. /\ used \in Nat /\ missed \in Nat /\ over \in Nat
        /\ used' \in Nat /\ missed' \in Nat /\ over' \in Nat
    BY DEF Base, TypeOK
  <1>4. (used + d >= 0 => used' = used + d) /\ (used + d < 0 => used' = 0)
    BY <1>3, AdjustNat
  <1>5. Total(entries) <= used + Coming + missed /\ used + Coming <= Total(entries) + over
    BY DEF Charged
  <1>6. /\ Total(entries)' <= used' + Coming' + missed'
        /\ used' + Coming' <= Total(entries)' + over'
    BY <1>1, <1>2, <1>3, <1>4, <1>5, Balance
  <1> QED
    BY <1>6 DEF Charged

\* Nothing that the charge is about.
LEMMA ChargedQuiet ==
    ASSUME Base, Base', InOrder', apart, apart', Charged,
           used' = used, missed' = missed, over' = over,
           Total(entries)' = Total(entries), Coming' = Coming
    PROVE  Charged'
  <1>1. /\ Coming \in Nat /\ Total(entries) \in Nat /\ missed \in Nat /\ over \in Nat
    BY SumsNat DEF Base, TypeOK
  <1> QED
    BY DEF Charged

\* The state before a step and the one after, whose charge is in question.
Balanced == Base /\ apart /\ InOrder /\ Charged
Kept == Base /\ apart /\ InOrder

\* Both sums are numbers in the next state.
LEMMA SumsNatNext ==
    ASSUME Base'
    PROVE  Coming' \in Nat /\ Total(entries)' \in Nat
  <1>1. (Coming \in Nat /\ Total(entries) \in Nat)'
    BY SumsNat, PTL
  <1> QED
    BY <1>1

\* No size changes.
LEMMA TotalQuiet ==
    ASSUME UNCHANGED <<entries, size>>
    PROVE  Total(entries)' = Total(entries)
  <1>0. PICK s : s = size /\ s = size'
    OBVIOUS
  <1> QED
    BY <1>0, SumsAre, SumsNext

\* The same change, for a request whose charge is known.
LEMMA ComingChange ==
    ASSUME Balanced, Kept', NEW r \in Reqs, NEW new \in Request, req' = [req EXCEPT ![r] = new],
           NEW n \in Nat
    PROVE  /\ Charges(req[r]) = 0 /\ Charges(new) = n => Coming' = Coming + n
           /\ Charges(req[r]) = n /\ Charges(new) = 0 => Coming = Coming' + n
  <1>1. PICK c, d, a, b : c = Coming /\ d = Coming' /\ a = Charges(req[r]) /\ b = Charges(new)
    OBVIOUS
  <1>2. c \in Nat /\ d \in Nat
    BY <1>1, SumsNat, SumsNatNext DEF Balanced, Kept
  <1>3. d + a = c + b
    BY <1>1, ComingStep DEF Balanced
  <1>4. (a = 0 /\ b = n => d = c + n) /\ (a = n /\ b = 0 => c = d + n)
    BY <1>2, <1>3
  <1> QED
    BY <1>1, <1>4

\* A request goes on without a word about sizes.
LEMMA ChargedRequest ==
    ASSUME Balanced, Kept', NEW r \in Reqs, NEW new \in Request, req' = [req EXCEPT ![r] = new],
           Charges(req[r]) = 0, Charges(new) = 0, UNCHANGED <<entries, size, used, over, missed>>
    PROVE  Charged'
  <1>1. Coming \in Nat /\ Coming' \in Nat
    BY SumsNat, SumsNatNext DEF Balanced, Kept
  <1>2. Coming' = Coming + 0
    BY ComingChange
  <1>3. Coming' = Coming
    BY <1>1, <1>2
  <1> QED
    BY <1>3, TotalQuiet, ChargedQuiet DEF Balanced, Kept

\* Loading the rows.
LEMMA ChargedOpen ==
    ASSUME Balanced, Kept', NEW r \in Reqs, NEW e \in Entries, NEW step \in {"opened", "ready"},
           NEW base \in 0..AnyBase, NEW new \in Contents, Open(r, e, step, base, new)
    PROVE  Charged'
  <1>0. PICK x : x = [pc |-> step, e |-> e, f |-> file[e], base |-> base, new |-> new,
                      size |-> size[e], psize |-> psize[file[e]]]
    OBVIOUS
  <1>1. /\ req' = [req EXCEPT ![r] = x] /\ req[r].pc = "idle" /\ file[e] \in Files
        /\ UNCHANGED <<entries, size, used, over, missed>>
    BY <1>0 DEF Open, At, Balanced, Base, TypeOK, entryVars, history
  <1>2. x \in Request /\ x.pc = step
    BY <1>0, <1>1 DEF Request, Editing, Balanced, Base, TypeOK
  <1>3. Charges(req[r]) = 0 /\ Charges(x) = 0
    BY <1>1, <1>2 DEF Charges
  <1> QED
    BY <1>1, <1>2, <1>3, ChargedRequest

\* The steps before the last commit.
LEMMA ChargedGoes ==
    ASSUME Balanced, Kept', NEW r \in Reqs, PatchRead(r) \/ Truncate(r) \/ Write(r) \/ PutRow(r)
    PROVE  Charged'
  <1>1. PICK step \in Editing \union {"row"} : Step(r, step)
    BY DEF PatchRead, Truncate, Write, PutRow, Editing
  <1>2. PICK new \in Request : req' = [req EXCEPT ![r] = new] /\ new.pc = step
    <2>1. step \in Editing \union Putting
      BY <1>1 DEF Putting
    <2> QED
      BY <1>1, <2>1, Goes DEF Balanced, Base
  <1>3. req[r].pc # "pointed" /\ UNCHANGED <<entries, size, used, over, missed>>
    BY DEF PatchRead, Truncate, Write, PutRow, At, entryVars, history
  <1>4. Charges(req[r]) = 0 /\ Charges(new) = 0
    BY <1>1, <1>2, <1>3 DEF Charges, Editing
  <1> QED
    BY <1>2, <1>3, <1>4, ChargedRequest

\* The body of a PUT.
LEMMA ChargedPut ==
    ASSUME Balanced, Kept', NEW r \in Reqs, NEW e \in Entries, NEW f \in Files,
           NEW c \in Contents, Put(r, e, f, c)
    PROVE  Charged'
  <1>0. PICK new : new = [Idle EXCEPT !.pc = "stored", !.e = e, !.f = f, !.new = c]
    OBVIOUS
  <1>1. /\ req' = [req EXCEPT ![r] = new] /\ req[r].pc = "idle"
        /\ UNCHANGED <<entries, size, used, over, missed>>
    BY <1>0 DEF Put, At, entryVars, history
  <1>2. new \in Request /\ new.pc = "stored"
    BY <1>0, IdleIs DEF Request, Putting
  <1>3. Charges(req[r]) = 0 /\ Charges(new) = 0
    BY <1>1, <1>2 DEF Charges
  <1> QED
    BY <1>1, <1>2, <1>3, ChargedRequest

\* A save charges the difference to the size it loaded, which is the size that is there.
LEMMA ChargedSave ==
    ASSUME Balanced, Kept', NEW r \in Reqs, Save(r)
    PROVE  Charged'
  <1>0. PICK e, n, s : e = req[r].e /\ n = req[r].new.len /\ s = size[e]
    OBVIOUS
  <1>1. /\ req' = [req EXCEPT ![r] = Idle] /\ req[r].pc = "wrote" /\ e \in entries
        /\ UNCHANGED <<entries, over, missed>>
        /\ size' = Column(size, e, req[r].size, n) /\ Adjust(n - req[r].size)
    BY <1>0 DEF Save, Done, At
  <1>2. /\ n \in Nat /\ s \in Nat /\ e \in Entries /\ Fitting(req[r])
        /\ size \in [Entries -> Nat]
    BY <1>0, <1>1, Fields DEF Balanced, Base, TypeOK, InOrder
  <1>3. req[r].size = s
    BY <1>0, <1>1, <1>2 DEF Fitting, Editing
  <1>4. /\ size' \in [Entries -> Nat] /\ size'[e] = n
        /\ \A x \in Entries \ {e} : size'[x] = size[x]
    BY <1>0, <1>1, <1>2, <1>3, ColumnIs
  <1>5. Total(entries)' + s = Total(entries) + n
    BY <1>0, <1>1, <1>4, TotalStep DEF Balanced
  <1>6. Charges(req[r]) = 0 /\ Charges(Idle) = 0
    BY <1>1, IdleIs DEF Charges
  <1>7. Coming' = Coming + 0
    BY <1>1, <1>6, IdleIs, ComingChange
  <1>8. /\ Coming \in Nat /\ Total(entries) \in Nat
        /\ Coming' \in Nat /\ Total(entries)' \in Nat
    BY SumsNat, SumsNatNext DEF Balanced, Kept
  <1>9. missed \in Nat /\ over \in Nat
    BY DEF Balanced, Base, TypeOK
  <1>10. PICK d \in Int : d = n - s
    BY <1>2
  <1>11. /\ Total(entries)' - Coming' - missed' <= Total(entries) - Coming - missed + d
         /\ d + Coming' - Total(entries)' - over' <= Coming - Total(entries) - over
    BY <1>1, <1>2, <1>5, <1>7, <1>8, <1>9, <1>10
  <1>12. Adjust(d)
    BY <1>1, <1>3, <1>10
  <1> QED
    BY <1>11, <1>12, ChargedBy DEF Balanced, Kept

\* The size of the entry is replaced, and what it had is not given back.
LEMMA ChargedPutPoint ==
    ASSUME Balanced, Kept', NEW r \in Reqs, PutPoint(r)
    PROVE  Charged'
  <1>0. PICK e, f, n, s, new : /\ e = req[r].e /\ f = req[r].f /\ n = req[r].new.len
                               /\ s = size[e]
                               /\ new = [req[r] EXCEPT !.pc = "pointed", !.f = NoFile]
    OBVIOUS
  <1>1. /\ new \in Request /\ new.pc = "pointed" /\ new.new = req[r].new
        /\ req' = [req EXCEPT ![r] = new]
    BY <1>0 DEF PutPoint, Balanced, Base, TypeOK, Request, Putting
  <1>2. /\ req[r].pc = "row" /\ UNCHANGED <<entries, used, missed>>
    BY DEF PutPoint, At
  <1>3. /\ Fitting(req[r]) /\ n \in Nat /\ e \in entries
        /\ e \in Entries /\ s \in Nat
    BY <1>0, <1>2, Fields DEF Balanced, Base, TypeOK, InOrder, Fitting
  <1>4. size' = [size EXCEPT ![e] = n] /\ over' = over + s
    BY <1>0, <1>3 DEF PutPoint
  <1>5. /\ size' \in [Entries -> Nat] /\ size'[e] = n
        /\ \A x \in Entries \ {e} : size'[x] = size[x]
    BY <1>3, <1>4 DEF Balanced, Base, TypeOK
  <1>6. Total(entries)' + s = Total(entries) + n
    BY <1>0, <1>2, <1>3, <1>5, TotalStep DEF Balanced
  <1>7. Charges(req[r]) = 0 /\ Charges(new) = n
    BY <1>0, <1>1, <1>2 DEF Charges
  <1>8. Coming' = Coming + n
    BY <1>1, <1>3, <1>7, ComingChange
  <1>9. /\ Coming \in Nat /\ Total(entries) \in Nat
        /\ Coming' \in Nat /\ Total(entries)' \in Nat
    BY SumsNat, SumsNatNext DEF Balanced, Kept
  <1>10. missed \in Nat /\ over \in Nat
    BY DEF Balanced, Base, TypeOK
  <1>11. /\ Total(entries)' - Coming' - missed' <= Total(entries) - Coming - missed + 0
         /\ 0 + Coming' - Total(entries)' - over' <= Coming - Total(entries) - over
    BY <1>2, <1>3, <1>4, <1>6, <1>8, <1>9, <1>10
  <1> QED
    BY <1>2, <1>11, ChargedBy DEF Balanced, Kept

\* What was coming is charged.
LEMMA ChargedPutCharge ==
    ASSUME Balanced, Kept', NEW r \in Reqs, PutCharge(r)
    PROVE  Charged'
  <1>0. PICK n : n = req[r].new.len
    OBVIOUS
  <1>1. /\ req' = [req EXCEPT ![r] = Idle] /\ req[r].pc = "pointed"
        /\ UNCHANGED <<entries, size, over, missed>> /\ Adjust(n)
    BY <1>0 DEF PutCharge, Done, At, entryVars, history
  <1>2. n \in Nat
    BY <1>0, Fields DEF Balanced, Base, TypeOK
  <1>3. Charges(req[r]) = n /\ Charges(Idle) = 0
    BY <1>0, <1>1, IdleIs DEF Charges
  <1>4. Coming = Coming' + n
    BY <1>1, <1>2, <1>3, IdleIs, ComingChange
  <1>5. Total(entries)' = Total(entries)
    BY <1>1, TotalQuiet
  <1>6. /\ Coming \in Nat /\ Total(entries) \in Nat
        /\ Coming' \in Nat /\ Total(entries)' \in Nat
    BY SumsNat, SumsNatNext DEF Balanced, Kept
  <1>7. missed \in Nat /\ over \in Nat
    BY DEF Balanced, Base, TypeOK
  <1>8. /\ Total(entries)' - Coming' - missed' <= Total(entries) - Coming - missed + n
        /\ n + Coming' - Total(entries)' - over' <= Coming - Total(entries) - over
    BY <1>1, <1>2, <1>4, <1>5, <1>6, <1>7
  <1>9. n \in Int
    BY <1>2
  <1> QED
    BY <1>1, <1>8, <1>9, ChargedBy DEF Balanced, Kept

\* What was coming is never charged.
LEMMA ChargedFail ==
    ASSUME Balanced, Kept', NEW r \in Reqs, Fail(r)
    PROVE  Charged'
  <1>0. PICK n : n = Charges(req[r])
    OBVIOUS
  <1>1. /\ req' = [req EXCEPT ![r] = Idle]
        /\ UNCHANGED <<entries, size, used, over>>
        /\ missed' = IF req[r].pc = "pointed" THEN missed + req[r].new.len ELSE missed
    BY DEF Fail, Done, At, entryVars
  <1>2. n \in Nat /\ missed \in Nat /\ over \in Nat
    BY <1>0, Fields DEF Balanced, Base, TypeOK, Charges
  <1>3. Charges(Idle) = 0 /\ missed' = missed + n
    BY <1>0, <1>1, <1>2, IdleIs DEF Charges
  <1>4. Coming = Coming' + n
    BY <1>0, <1>1, <1>2, <1>3, IdleIs, ComingChange
  <1>5. Total(entries)' = Total(entries)
    BY <1>1, TotalQuiet
  <1>6. /\ Coming \in Nat /\ Total(entries) \in Nat
        /\ Coming' \in Nat /\ Total(entries)' \in Nat
    BY SumsNat, SumsNatNext DEF Balanced, Kept
  <1>7. /\ Total(entries)' - Coming' - missed' <= Total(entries) - Coming - missed + 0
        /\ 0 + Coming' - Total(entries)' - over' <= Coming - Total(entries) - over
    BY <1>1, <1>2, <1>3, <1>4, <1>5, <1>6
  <1> QED
    BY <1>1, <1>7, ChargedBy DEF Balanced, Kept

\* What the requests are going to charge when none of them takes a step.
LEMMA ComingQuiet ==
    ASSUME req' = req
    PROVE  Coming' = Coming
  <1>0. PICK l, p : l = NewLen /\ p = Pointed
    OBVIOUS
  <1>1. l = NewLen' /\ p = Pointed'
    BY <1>0 DEF NewLen, Pointed, At
  <1> QED
    BY <1>0, <1>1, SumsAre, SumsNext

\* An entry without content takes up nothing.
LEMMA ChargedCreateFile ==
    ASSUME Balanced, Kept', NEW e \in Entries, CreateFile(e)
    PROVE  Charged'
  <1>1. /\ e \in Entries \ entries /\ entries' = entries \union {e} /\ size[e] = 0
        /\ size \in [Entries -> Nat]
        /\ UNCHANGED <<size, used, req, over, missed>>
    BY DEF CreateFile, Balanced, Base, TypeOK, history
  <1>2. Total(entries)' = Total(entries) + size'[e]
    BY <1>1, TotalMore DEF Balanced
  <1>3. Total(entries) \in Nat
    BY SumsNat DEF Balanced
  <1>4. Total(entries)' = Total(entries)
    BY <1>1, <1>2, <1>3
  <1> QED
    BY <1>1, <1>4, ComingQuiet, ChargedQuiet DEF Balanced, Kept

\* A copy is charged by the router and missed by WebDAV.
LEMMA ChargedCopy ==
    ASSUME Balanced, Kept', NEW e \in Entries, NEW d \in Entries, NEW dav \in BOOLEAN,
           Copy(e, d, dav)
    PROVE  Charged'
  <1>0. PICK s : s = size[e]
    OBVIOUS
  <1>1. /\ d \in Entries \ entries /\ entries' = entries \union {d}
        /\ size' = [size EXCEPT ![d] = s] /\ req' = req /\ over' = over
        /\ IF dav THEN missed' = missed + s /\ used' = used ELSE Adjust(s) /\ missed' = missed
    BY <1>0 DEF Copy
  <1>2. s \in Nat /\ missed \in Nat /\ over \in Nat
    BY <1>0 DEF Balanced, Base, TypeOK
  <1>3. /\ size' \in [Entries -> Nat] /\ size'[d] = s
        /\ \A x \in Entries \ {d} : size'[x] = size[x]
    BY <1>1, <1>2 DEF Balanced, Base, TypeOK
  <1>4. Total(entries)' = Total(entries) + s
    BY <1>1, <1>3, TotalMore DEF Balanced
  <1>5. Coming' = Coming
    BY <1>1, ComingQuiet
  <1>6. /\ Coming \in Nat /\ Total(entries) \in Nat
    BY SumsNat DEF Balanced
  <1>7. CASE dav
    <2>1. /\ Total(entries)' - Coming' - missed' <= Total(entries) - Coming - missed + 0
          /\ 0 + Coming' - Total(entries)' - over' <= Coming - Total(entries) - over
      BY <1>1, <1>2, <1>4, <1>5, <1>6, <1>7
    <2> QED
      BY <1>1, <1>7, <2>1, ChargedBy DEF Balanced, Kept
  <1>8. CASE ~dav
    <2>1. /\ Total(entries)' - Coming' - missed' <= Total(entries) - Coming - missed + s
          /\ s + Coming' - Total(entries)' - over' <= Coming - Total(entries) - over
      BY <1>1, <1>2, <1>4, <1>5, <1>6, <1>8
    <2>2. s \in Int /\ Adjust(s)
      BY <1>1, <1>2, <1>8
    <2> QED
      BY <2>1, <2>2, ChargedBy DEF Balanced, Kept
  <1> QED
    BY <1>7, <1>8

\* What is deleted is given back.
LEMMA ChargedPurge ==
    ASSUME Balanced, Kept', NEW e \in Entries, Purge(e)
    PROVE  Charged'
  <1>0. PICK s : s = size[e]
    OBVIOUS
  <1>1. /\ e \in entries /\ entries' = entries \ {e}
        /\ size' = [size EXCEPT ![e] = 0] /\ req' = req /\ over' = over /\ missed' = missed
        /\ Adjust(-s)
    BY <1>0 DEF Purge
  <1>2. s \in Nat /\ missed \in Nat /\ over \in Nat
    BY <1>0 DEF Balanced, Base, TypeOK
  <1>3. /\ size' \in [Entries -> Nat]
        /\ \A x \in Entries \ {e} : size'[x] = size[x]
    BY <1>1 DEF Balanced, Base, TypeOK
  <1>4. Total(entries) = Total(entries)' + s
    BY <1>0, <1>1, <1>3, TotalLess DEF Balanced
  <1>5. Coming' = Coming
    BY <1>1, ComingQuiet
  <1>6. /\ Coming \in Nat /\ Total(entries) \in Nat
        /\ Coming' \in Nat /\ Total(entries)' \in Nat
    BY SumsNat, SumsNatNext DEF Balanced, Kept
  <1>7. PICK d \in Int : d = -s
    BY <1>2
  <1>8. /\ Total(entries)' - Coming' - missed' <= Total(entries) - Coming - missed + d
        /\ d + Coming' - Total(entries)' - over' <= Coming - Total(entries) - over
    BY <1>1, <1>2, <1>4, <1>5, <1>6, <1>7
  <1>9. Adjust(d)
    BY <1>1, <1>7
  <1> QED
    BY <1>8, <1>9, ChargedBy DEF Balanced, Kept

-----------------------------------------------------------------------------
(* The theorems *)

\* What holds in every state: the records are in order and what is charged is
\* what there is, as long as the requests that overlap work apart.
Edited == Base /\ Ordered /\ (apart => Charged)

\* The invariant holds in the beginning...
LEMMA EditedInit == Init => Edited
  <1> SUFFICES ASSUME Init PROVE Edited
    OBVIOUS
  <1>1. Base
    BY BaseInit
  <1>2. \A r \in Reqs : req[r] = Idle
    BY DEF Init
  <1>3. Distinct /\ OwnFiles /\ SizesAgree
    BY <1>2, IdleIs, EditConstants DEF Distinct, OwnFiles, SizesAgree, Init
  <1>4. \A r \in Reqs : Fitting(req[r])
    BY <1>2, IdleIs DEF Fitting, Editing
  <1>5. Charged
    <2>1. Pointed = {}
      BY <1>2, IdleIs DEF Pointed, At
    <2>2. Coming = 0 /\ Total(entries) = 0
      BY <2>1, SumsAre, SumEmpty DEF Init
    <2> QED
      BY <2>2 DEF Charged, Init
  <1> QED
    BY <1>1, <1>3, <1>4, <1>5 DEF Edited, Ordered, InOrder

\* ...and every step keeps it.
LEMMA EditedStep == Edited /\ [Next]_vars => Edited'
  <1> SUFFICES ASSUME Edited, [Next]_vars PROVE Edited'
    OBVIOUS
  <1>1. Base' /\ Ordered'
    BY BaseStep, OrderNext DEF Edited
  <1>2. apart' = apart
    BY DEF Next, vars, Patch, PutFile, Open, PatchRead, Truncate, Write, Save, CreateFile, Put,
       PutRow, PutPoint, PutCharge, Copy, Purge, Fail
  <1> SUFFICES ASSUME apart PROVE Charged'
    BY <1>1, <1>2 DEF Edited
  <1>3. Balanced /\ Kept'
    BY <1>1, <1>2 DEF Edited, Ordered, Balanced, Kept
  <1>4. CASE UNCHANGED vars
    <2>1. Coming' = Coming /\ Total(entries)' = Total(entries)
      BY <1>4, ComingQuiet, TotalQuiet DEF vars, entryVars
    <2>2. UNCHANGED <<used, over, missed>>
      BY <1>4 DEF vars, history
    <2> QED
      BY <1>3, <2>1, <2>2, ChargedQuiet DEF Balanced, Kept
  <1>5. ASSUME NEW r \in Reqs, NEW e \in Entries, NEW b \in 0..MaxText, NEW t \in 0..MaxText,
               Patch(r, e, b, t)
        PROVE  Charged'
    <2>1. b \in 0..AnyBase
      BY EditConstants DEF AnyBase
    <2>2. Content(t, FALSE) \in Contents
      BY ContentIs
    <2> QED
      BY <1>3, <1>5, <2>1, <2>2, ChargedOpen DEF Patch
  <1>6. ASSUME NEW r \in Reqs, NEW e \in Entries, NEW c \in Sendable, PutFile(r, e, c)
        PROVE  Charged'
    <2>1. AnyBase \in 0..AnyBase
      BY EditConstants DEF AnyBase
    <2>2. c \in Contents
      BY ContentIs
    <2> QED
      BY <1>3, <1>6, <2>1, <2>2, ChargedOpen DEF PutFile
  <1>7. ASSUME NEW r \in Reqs, NEW e \in Entries, NEW f \in Files, NEW c \in Sendable,
               Put(r, e, f, c)
        PROVE  Charged'
    BY <1>3, <1>7, ContentIs, ChargedPut
  <1> QED
    BY <1>3, <1>4, <1>5, <1>6, <1>7, ChargedGoes, ChargedSave, ChargedPutPoint, ChargedPutCharge,
       ChargedFail, ChargedCreateFile, ChargedCopy, ChargedPurge DEF Next

\* Invariance.
THEOREM EditsInvariant == Spec => []Edited
  BY EditedInit, EditedStep, PTL DEF Spec

\* The sizes tell the truth: a physical file is as long as its row says unless a
\* save is under way or has torn it, and an entry of a file that was never shared
\* has its size.
THEOREM EditsSizesAgree == Spec => []SizesAgree
  <1>1. Edited => SizesAgree
    BY DEF Edited, Ordered, SizesAgree
  <1> QED
    BY <1>1, EditsInvariant, PTL

\* The user is charged what the entries take up, up to the two sums that the
\* history counts: what was never charged, and what PUTs replaced.
THEOREM EditsCharged == Spec => []Charged
  <1>1. Edited => Charged
    BY DEF Edited, Charged
  <1> QED
    BY <1>1, EditsInvariant, PTL

\* A patch that has compared its hash still finds the text that it compared when it
\* truncates the file.
THEOREM EditsPatchesBased == Spec => PatchesBased
  <1> DEFINE Based == apart => \A r \in Reqs :
                 req[r].pc = "ready" /\ req'[r].pc = "cut" /\ req[r].base # AnyBase =>
                     content[req[r].f].text = req[r].base
  <1>1. Edited => Based
    BY DEF Edited, Ordered, InOrder, Fitting
  <1>2. Edited /\ [Next]_vars => [Based]_vars
    BY <1>1
  <1> QED
    BY <1>2, EditsInvariant, PTL DEF Spec, PatchesBased
=============================================================================
