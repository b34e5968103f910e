--------------------------- MODULE BlobRefsProofs ---------------------------
(***************************************************************************)
(* Why serialising the requests on one physical file is enough: what every *)
(* request carries in memory stays true of the database while it holds the *)
(* file, and every commit keeps the count above the references.            *)
(***************************************************************************)
EXTENDS BlobRefs, FiniteSetTheorems, TLAPS

\* What pc says of the other local variables.
LocalOK(r) ==
    /\ pc[r] = "idle" => holds[r] = {} /\ work[r] = {} /\ fresh[r] = NoFile
    /\ pc[r] = "bump" => holds[r] = {fresh[r]} /\ work[r] = {}
    /\ pc[r] \in {"written", "counted"} =>
          /\ fresh[r] \in holds[r]
          /\ work[r] = {} => holds[r] = {fresh[r]}
    /\ pc[r] \in {"moved", "read", "dropping"} => fresh[r] = NoFile

\* What a request that holds its files alone may rely on.
Reliable(r) ==
    /\ pc[r] = "written" => fresh[r] \notin rows
    /\ pc[r] # "idle" => holds[r] \ {fresh[r]} \subseteq rows
    /\ pc[r] \in {"bump", "counted"} => fresh[r] \in rows
    /\ pc[r] = "bump" => keep[r][fresh[r]] = ref[fresh[r]] + 1
    /\ pc[r] \in {"written", "counted", "moved"} =>
          \A f \in holds[r] \ {fresh[r]} : Cardinality(Others(work[r], f)) + 1 <= ref[f]
    /\ pc[r] \in {"read", "dropping"} =>
          \A f \in holds[r] : Cardinality(Others(work[r], f)) <= keep[r][f]

Apart == \A q, r \in Reqs : q # r => holds[q] \intersect holds[r] = {}

IInv ==
    /\ TypeOK
    /\ \A r \in Reqs : LocalOK(r)
    /\ exclusive => /\ Apart
                    /\ \A r \in Reqs : Reliable(r)
                    /\ CountCovers
-----------------------------------------------------------------------------
(* Types and the local variables of the requests, in every interleaving *)

Shapes == TypeOK /\ \A r \in Reqs : LocalOK(r)

\* A count that is taken down stays a natural number.
LEMMA MinusNat ==
    ASSUME NEW m \in Nat, NEW n \in Nat
    PROVE  Minus(m, n) \in Nat
    BY DEF Minus

\* The references a request gives up can be counted.
LEMMA PartSize ==
    ASSUME TypeOK, NEW S \in SUBSET Entries, NEW f
    PROVE  /\ IsFiniteSet({e \in S : file[e] = f})
           /\ Cardinality({e \in S : file[e] = f}) \in Nat
<1>1. {e \in S : file[e] = f} \in SUBSET Entries
  OBVIOUS
<1> QED BY <1>1, BlobConstants, FS_Subset, FS_CardinalityType

\* The references of the entries outside S can be counted.
LEMMA OthersSize ==
    ASSUME TypeOK, NEW S, NEW f
    PROVE  /\ IsFiniteSet(Others(S, f))
           /\ Cardinality(Others(S, f)) \in Nat
<1>1. Others(S, f) \in SUBSET Entries
  BY DEF Others, TypeOK
<1> QED BY <1>1, BlobConstants, FS_Subset, FS_CardinalityType

\* A request that ends leaves no local value of a wrong type behind.
LEMMA DoneShapes ==
    ASSUME Shapes, NEW r \in Reqs, Done(r)
    PROVE  /\ pc' \in [Reqs -> Steps]
           /\ work' \in [Reqs -> SUBSET Entries]
           /\ fresh' \in [Reqs -> Files \union {NoFile}]
           /\ holds' \in [Reqs -> SUBSET Files]
           /\ keep' \in [Reqs -> [Files -> Nat]]
           /\ \A q \in Reqs : LocalOK(q)'
    BY Zenon DEF Shapes, TypeOK, LocalOK, Done, Steps

\* Storing new content gives the local variables their types.
LEMMA WriteBlobShapes ==
    ASSUME Shapes, NEW r \in Reqs, NEW f \in Files, NEW S \in SUBSET Entries,
           NEW F \in SUBSET Files, WriteBlob(r, f, S, F), S = {} => F = {}
    PROVE  Shapes'
    BY DEF Shapes, TypeOK, LocalOK, WriteBlob, Begin, db, fixed, Steps

\* Types and local variables are right at the start,
LEMMA ShapesInit ==
    ASSUME Init
    PROVE  Shapes
    BY DEF Init, Shapes, TypeOK, LocalOK, Steps

\* and after every step, exclusive or not.
LEMMA ShapesStep ==
    ASSUME Shapes, [Next]_vars
    PROVE  Shapes'
<1> USE DEF db, local, fixed
<1>1. CASE \E r \in Reqs, f \in Files : Upload(r, f)
  BY <1>1, WriteBlobShapes DEF Upload
<1>2. CASE \E r \in Reqs, f \in Files, e \in Entries : Put(r, f, e)
  BY <1>2, WriteBlobShapes DEF Put
<1>3. CASE \E r \in Reqs, f \in Files, e \in Entries : Migrate(r, f, e)
  <2> PICK r \in Reqs, f \in Files, e \in Entries : Migrate(r, f, e)
    BY <1>3
  <2>1. file[e] \in Files /\ {e} # {}
    BY DEF Migrate, Shapes, TypeOK
  <2> QED BY <2>1, WriteBlobShapes DEF Migrate
<1>4. CASE \E r \in Reqs : AddRow(r)
  <2> PICK r \in Reqs : AddRow(r)
    BY <1>4
  <2>1. fresh[r] \in Files
    BY DEF AddRow, Shapes, LocalOK, TypeOK
  <2> QED BY <2>1 DEF AddRow, Shapes, TypeOK, LocalOK, Steps
<1>5. CASE \E r \in Reqs, e \in Entries : FinishUpload(r, e)
  <2> PICK r \in Reqs, e \in Entries : FinishUpload(r, e)
    BY <1>5
  <2>1. fresh[r] \in Files
    BY DEF FinishUpload, Shapes, LocalOK, TypeOK
  <2> QED BY <2>1, DoneShapes DEF FinishUpload, NewEntry, Shapes, TypeOK
<1>6. CASE \E r \in Reqs, e \in Entries : AddEntry(r, e)
  <2> PICK r \in Reqs, e \in Entries : AddEntry(r, e)
    BY <1>6
  <2> QED BY DoneShapes DEF AddEntry, NewEntry, Shapes, TypeOK
<1>7. CASE \E r \in Reqs, e \in Entries : Repoint(r, e)
  <2> PICK r \in Reqs, e \in Entries : Repoint(r, e)
    BY <1>7
  <2>1. /\ file' \in [Entries -> Files \union {NoFile}]
        /\ \A x \in entries' : file'[x] \in rows' \union {NoFile}
    BY DEF Repoint, Shapes, TypeOK
  <2>2. CASE holds[r] = {fresh[r]}
    BY <2>1, <2>2, DoneShapes DEF Repoint, Shapes, TypeOK
  <2>3. CASE holds[r] # {fresh[r]}
    <3>1. /\ pc' = [pc EXCEPT ![r] = "moved"]
          /\ work' = [work EXCEPT ![r] = {}]
          /\ fresh' = [fresh EXCEPT ![r] = NoFile]
          /\ holds' = [holds EXCEPT ![r] = holds[r] \ {fresh[r]}]
          /\ UNCHANGED <<entries, rows, ref, blobs, keep, fixed>>
      BY <2>3 DEF Repoint
    <3>2. TypeOK'
      BY <2>1, <3>1 DEF Shapes, TypeOK, Steps
    <3>3. \A q \in Reqs : LocalOK(q)'
      BY <3>1 DEF Shapes, TypeOK, LocalOK, Steps
    <3> QED BY <3>2, <3>3 DEF Shapes
  <2> QED BY <2>2, <2>3
<1>8. CASE \E r \in Reqs, e \in Entries : Copy(r, e)
  <2> PICK r \in Reqs, e \in Entries : Copy(r, e)
    BY <1>8
  <2>1. file[e] \in Files
    BY DEF Copy, Shapes, TypeOK
  <2>2. [f \in Files |-> IF f = file[e] THEN ref[f] + 1 ELSE 0] \in [Files -> Nat]
    BY DEF Shapes, TypeOK
  <2> QED BY <2>1, <2>2 DEF Copy, Begin, Shapes, TypeOK, LocalOK, Steps
<1>9. CASE \E r \in Reqs : CountCopy(r)
  <2> PICK r \in Reqs : CountCopy(r)
    BY <1>9
  <2>1. fresh[r] \in Files /\ keep[r][fresh[r]] \in Nat
    BY DEF CountCopy, Shapes, TypeOK
  <2>2. TypeOK'
    BY <2>1 DEF CountCopy, Shapes, TypeOK, Steps
  <2>3. \A q \in Reqs : LocalOK(q)'
    BY DEF CountCopy, Shapes, TypeOK, LocalOK, Steps
  <2> QED BY <2>2, <2>3 DEF Shapes
<1>10. CASE \E r \in Reqs, S \in SUBSET Entries : Purge(r, S)
  <2> PICK r \in Reqs, S \in SUBSET Entries : Purge(r, S)
    BY <1>10
  <2> DEFINE F == {file[e] : e \in S} \ {NoFile}
             K == [f \in Files |->
                     IF f \in F THEN Minus(ref[f], Cardinality({e \in S : file[e] = f})) ELSE 0]
  <2>1. F \subseteq Files
    BY DEF Shapes, TypeOK
  <2>2. K \in [Files -> Nat]
    <3> SUFFICES ASSUME NEW f \in Files
                 PROVE  Minus(ref[f], Cardinality({e \in S : file[e] = f})) \in Nat
      OBVIOUS
    <3> QED BY PartSize, MinusNat DEF Shapes, TypeOK
  <2>3. Begin(r, "read", S, F) /\ keep' = [keep EXCEPT ![r] = K] /\ UNCHANGED <<db, blobs, fresh, fixed>>
    BY DEF Purge
  <2> HIDE DEF F, K
  <2> QED BY <2>1, <2>2, <2>3 DEF Begin, Shapes, TypeOK, LocalOK, Steps
<1>11. CASE \E r \in Reqs : Release(r)
  <2> PICK r \in Reqs : Release(r)
    BY <1>11
  <2>1. [f \in Files |-> IF f \in holds[r] THEN Minus(ref[f], 1) ELSE 0] \in [Files -> Nat]
    BY MinusNat DEF Shapes, TypeOK
  <2> QED BY <2>1 DEF Release, Shapes, TypeOK, LocalOK, Steps
<1>12. CASE \E r \in Reqs, D \in SUBSET Files : DropBlobs(r, D)
  BY <1>12 DEF DropBlobs, Shapes, TypeOK, LocalOK, Steps
<1>13. CASE \E r \in Reqs : Commit(r)
  <2> PICK r \in Reqs : Commit(r)
    BY <1>13
  <2>1. ref' \in [Files -> Nat] /\ file' \in [Entries -> Files \union {NoFile}]
    BY DEF Commit, Shapes, TypeOK
  <2>2. \A x \in entries' : file'[x] \in rows' \union {NoFile}
    BY DEF Commit, Shapes, TypeOK
  <2> QED BY <2>1, <2>2, DoneShapes DEF Commit, Shapes, TypeOK
<1>14. CASE \E e \in Entries : AdminDelete(e)
  BY <1>14 DEF AdminDelete, Shapes, TypeOK, LocalOK
<1>15. CASE \E r \in Reqs : Fail(r)
  BY <1>15, DoneShapes DEF Fail, Shapes, TypeOK
<1>16. CASE UNCHANGED vars
  BY <1>16 DEF vars, Shapes, TypeOK, LocalOK
<1> QED BY <1>1, <1>2, <1>3, <1>4, <1>5, <1>6, <1>7, <1>8, <1>9, <1>10, <1>11, <1>12,
           <1>13, <1>14, <1>15, <1>16 DEF Next
-----------------------------------------------------------------------------
(* Requests that overlap work on different files *)

Bound(f) == Cardinality(Others({}, f)) + Cardinality(Claims(f)) <= ref[f]

Safe ==
    /\ Apart
    /\ \A r \in Reqs : Reliable(r)
    /\ \A f \in rows : Bound(f)

\* A step of r adds no reference to a file r does not hold, and leaves the row
\* of that file and the other requests alone.
Confined(r) ==
    /\ \A f \in Files \ holds[r] :
          /\ \A e \in entries' : file'[e] = f => e \in entries /\ file[e] = f
          /\ ref'[f] = ref[f]
          /\ f \in rows' <=> f \in rows
          /\ Claims(f)' \subseteq Claims(f)
    /\ \A q \in Reqs \ {r} :
          /\ pc'[q] = pc[q] /\ work'[q] = work[q] /\ fresh'[q] = fresh[q]
          /\ holds'[q] = holds[q] /\ keep'[q] = keep[q]

\* What each action has to show.
StepOK(r) ==
    /\ Confined(r)
    /\ Reliable(r)'
    /\ \A f \in rows' \intersect holds[r] : Bound(f)'

\* A part of a finite set has at most as many elements.
LEMMA Smaller ==
    ASSUME NEW A, IsFiniteSet(A), NEW B, B \subseteq A
    PROVE  /\ Cardinality(A) \in Nat /\ Cardinality(B) \in Nat
           /\ Cardinality(B) <= Cardinality(A)
    BY FS_Subset, FS_CardinalityType

\* A set inside a singleton has one element or none.
LEMMA AtMostOne ==
    ASSUME NEW C, NEW r, C \subseteq {r}
    PROVE  /\ IsFiniteSet(C)
           /\ Cardinality(C) = IF r \in C THEN 1 ELSE 0
<1>1. CASE C = {}
  BY <1>1, FS_EmptySet
<1>2. CASE C = {r}
  BY <1>2, FS_Singleton
<1> QED BY <1>1, <1>2

\* Whoever has a claim on a file holds it, so there is one claim at most.
LEMMA ClaimsFinite ==
    ASSUME Shapes, Apart, NEW f
    PROVE  IsFiniteSet(Claims(f))
<1>1. CASE Claims(f) = {}
  BY <1>1, FS_EmptySet
<1>2. CASE Claims(f) # {}
  <2> PICK r \in Claims(f) : TRUE
    BY <1>2
  <2>1. Claims(f) \subseteq {r}
    BY DEF Claims, Shapes, LocalOK, Apart
  <2> QED BY <2>1, AtMostOne
<1> QED BY <1>1, <1>2

\* While a request holds a file nobody else has a claim on it.
LEMMA HolderClaims ==
    ASSUME Shapes, Apart, NEW r \in Reqs, NEW f \in holds[r]
    PROVE  Claims(f) = IF pc[r] = "counted" /\ fresh[r] = f THEN {r} ELSE {}
    BY DEF Claims, Shapes, LocalOK, Apart

\* Nothing a request relies on changes under it.
LEMMA Frame ==
    ASSUME Shapes, Apart, NEW r \in Reqs, Confined(r), NEW q \in Reqs \ {r}, Reliable(q)
    PROVE  Reliable(q)'
<1>1. /\ pc'[q] = pc[q] /\ work'[q] = work[q] /\ fresh'[q] = fresh[q]
      /\ holds'[q] = holds[q] /\ keep'[q] = keep[q]
  BY DEF Confined
<1>2. holds[q] \subseteq Files \ holds[r]
  BY DEF Apart, Shapes, TypeOK
<1>3. ASSUME NEW f \in holds[q]
      PROVE  /\ ref'[f] = ref[f]
             /\ f \in rows' <=> f \in rows
             /\ Cardinality(Others(work[q], f)') <= Cardinality(Others(work[q], f))
             /\ Cardinality(Others(work[q], f)') \in Nat
             /\ Cardinality(Others(work[q], f)) \in Nat
             /\ ref[f] \in Nat /\ keep[q][f] \in Nat
  <2>1. Others(work[q], f)' \subseteq Others(work[q], f)
    BY <1>1, <1>2 DEF Confined, Others
  <2>2. IsFiniteSet(Others(work[q], f))
    BY OthersSize DEF Shapes
  <2> QED BY <1>2, <2>1, <2>2, Smaller DEF Confined, Shapes, TypeOK
<1>4. pc[q] \in {"bump", "written", "counted"} => fresh[q] \in holds[q]
  BY DEF Shapes, LocalOK
<1> HIDE DEF Confined
<1>5. /\ pc[q] = "written" => fresh[q] \notin rows'
      /\ pc[q] # "idle" => holds[q] \ {fresh[q]} \subseteq rows'
      /\ pc[q] \in {"bump", "counted"} => fresh[q] \in rows'
      /\ pc[q] = "bump" => keep[q][fresh[q]] = ref'[fresh[q]] + 1
  BY <1>3, <1>4 DEF Reliable
<1>6. ASSUME pc[q] \in {"written", "counted", "moved"}, NEW f \in holds[q] \ {fresh[q]}
      PROVE  Cardinality(Others(work[q], f)') + 1 <= ref'[f]
  <2>1. Cardinality(Others(work[q], f)) + 1 <= ref[f]
    BY <1>6 DEF Reliable
  <2> QED BY <2>1, <1>3
<1>7. ASSUME pc[q] \in {"read", "dropping"}, NEW f \in holds[q]
      PROVE  Cardinality(Others(work[q], f)') <= keep[q][f]
  <2>1. Cardinality(Others(work[q], f)) <= keep[q][f]
    BY <1>7 DEF Reliable
  <2> QED BY <2>1, <1>3
<1> QED BY <1>1, <1>5, <1>6, <1>7 DEF Reliable, Others

\* A step confined to the files of one request that leaves its own promises and
\* bounds in order leaves everybody's in order.
LEMMA SafeStep ==
    ASSUME Shapes, Safe, Apart', TypeOK', NEW r \in Reqs, StepOK(r)
    PROVE  Safe'
<1>1. \A q \in Reqs : Reliable(q)'
  BY Frame DEF Safe, StepOK
<1>2. ASSUME NEW f \in rows' PROVE Bound(f)'
  <2>1. CASE f \in holds[r]
    BY <2>1 DEF StepOK
  <2>2. CASE f \notin holds[r]
    <3>1. f \in Files
      BY DEF TypeOK
    <3>2. f \in rows /\ ref'[f] = ref[f] /\ Claims(f)' \subseteq Claims(f)
      BY <2>2, <3>1 DEF StepOK, Confined
    <3>3. Others({}, f)' \subseteq Others({}, f)
      BY <2>2, <3>1 DEF StepOK, Confined, Others
    <3>4. IsFiniteSet(Others({}, f)) /\ IsFiniteSet(Claims(f))
      BY OthersSize, ClaimsFinite DEF Safe, Shapes
    <3>5. /\ Cardinality(Others({}, f)') \in Nat /\ Cardinality(Others({}, f)) \in Nat
          /\ Cardinality(Others({}, f)') <= Cardinality(Others({}, f))
          /\ Cardinality(Claims(f)') \in Nat /\ Cardinality(Claims(f)) \in Nat
          /\ Cardinality(Claims(f)') <= Cardinality(Claims(f))
      BY <3>2, <3>3, <3>4, Smaller
    <3>6. Bound(f) /\ ref[f] \in Nat
      BY <3>2 DEF Safe, Shapes, TypeOK
    <3> QED BY <3>2, <3>5, <3>6 DEF Bound
  <2> QED BY <2>1, <2>2
<1> QED BY <1>1, <1>2 DEF Safe

\* After a step of r, r is still the only one with a claim on its files.
LEMMA HolderClaimsNext ==
    ASSUME Shapes, Apart, NEW r \in Reqs, Confined(r), NEW f \in holds[r]
    PROVE  /\ IsFiniteSet(Claims(f)')
           /\ Cardinality(Claims(f)') = IF pc'[r] = "counted" /\ fresh'[r] = f THEN 1 ELSE 0
<1>1. Claims(f)' \subseteq {r}
  <2> SUFFICES ASSUME NEW q \in Reqs, pc'[q] = "counted", fresh'[q] = f, q # r PROVE FALSE
    BY DEF Claims
  <2>1. pc[q] = "counted" /\ fresh[q] = f
    BY DEF Confined
  <2> QED BY <2>1 DEF Shapes, LocalOK, Apart
<1>2. r \in Claims(f)' <=> pc'[r] = "counted" /\ fresh'[r] = f
  BY DEF Claims
<1> QED BY <1>1, <1>2, AtMostOne

\* The bound on the references of a held file, the claim spelled out.
LEMMA HolderBound ==
    ASSUME Shapes, Safe, NEW r \in Reqs, NEW f \in holds[r], f \in rows
    PROVE  Cardinality(Others({}, f)) +
              (IF pc[r] = "counted" /\ fresh[r] = f THEN 1 ELSE 0) <= ref[f]
<1>1. Claims(f) = IF pc[r] = "counted" /\ fresh[r] = f THEN {r} ELSE {}
  BY HolderClaims DEF Safe
<1>2. Cardinality(Claims(f)) = IF pc[r] = "counted" /\ fresh[r] = f THEN 1 ELSE 0
  BY <1>1, FS_EmptySet, FS_Singleton
<1> QED BY <1>2 DEF Safe, Bound

\* The bound without the claims.
LEMMA BoundAny ==
    ASSUME Shapes, Safe, NEW f \in rows
    PROVE  Cardinality(Others({}, f)) <= ref[f]
<1>1. Cardinality(Claims(f)) \in Nat
  BY ClaimsFinite, FS_CardinalityType DEF Safe
<1> QED BY <1>1, OthersSize DEF Safe, Bound, Shapes, TypeOK

\* An entry that references f counts for one.
LEMMA WithoutOne ==
    ASSUME TypeOK, NEW f, NEW e \in entries, file[e] = f
    PROVE  Cardinality(Others({e}, f)) + 1 = Cardinality(Others({}, f))
<1>1. Others({e}, f) = Others({}, f) \ {e}
  BY DEF Others
<1>2. e \in Others({}, f)
  BY DEF Others
<1>3. IsFiniteSet(Others({}, f)) /\ Cardinality(Others({}, f)) \in Nat
  BY OthersSize
<1>4. Cardinality(Others({}, f) \ {e}) = Cardinality(Others({}, f)) - 1
  BY <1>2, <1>3, FS_RemoveElement
<1>5. Cardinality(Others({e}, f)) = Cardinality(Others({}, f)) - 1
  BY <1>1, <1>4, Zenon
<1> QED BY <1>3, <1>5

\* A file without a row has no references.
LEMMA NoOthers ==
    ASSUME TypeOK, NEW f \in Files \ rows
    PROVE  Cardinality(Others({}, f)) = 0 /\ Others({}, f) = {}
<1>1. \A e : e \notin Others({}, f)
  BY BlobConstants DEF Others, TypeOK
<1>2. Others({}, f) = {}
  BY <1>1
<1> QED BY <1>2, FS_EmptySet

\* Storing new content, for an upload, a PUT or a migration, is such a step,
LEMMA WriteBlobStep ==
    ASSUME Shapes, Safe, NEW r \in Reqs, NEW f \in Files, NEW S, NEW F,
           WriteBlob(r, f, S, F), F \subseteq rows,
           \A g \in F : Cardinality(Others(S, g)) + 1 <= ref[g]
    PROVE  StepOK(r)
<1> USE DEF WriteBlob, Begin, db, fixed
<1>1. Confined(r)
  BY DEF Confined, Claims, Shapes, TypeOK
<1>2. /\ pc'[r] = "written" /\ fresh'[r] = f /\ holds'[r] = F \union {f} /\ work'[r] = S
      /\ f \notin rows /\ holds'[r] \ {fresh'[r]} = F
  BY DEF Shapes, TypeOK
<1>3. \A g : Others(S, g)' = Others(S, g)
  BY DEF Others
<1>4. \A g : Others(work[r], g)' = Others(S, g)
  BY <1>2, <1>3 DEF Others
<1>5. Reliable(r)'
  BY <1>2, <1>4 DEF Reliable
<1>6. holds[r] = {}
  BY DEF Shapes, LocalOK
<1> QED BY <1>1, <1>5, <1>6 DEF StepOK

\* the one of a migration in particular: the entry it moves is one reference.
LEMMA MigrateStep ==
    ASSUME Shapes, Safe, NEW r \in Reqs, NEW f \in Files, NEW e \in Entries, Migrate(r, f, e)
    PROVE  StepOK(r)
<1>1. file[e] \in rows /\ e \in entries
  BY DEF Migrate
<1>2. Cardinality(Others({e}, file[e])) + 1 <= ref[file[e]]
  BY <1>1, WithoutOne, BoundAny DEF Shapes
<1> QED BY <1>1, <1>2, WriteBlobStep DEF Migrate

\* Committing the row with count 1 is such a step.
LEMMA AddRowStep ==
    ASSUME Shapes, Safe, NEW r \in Reqs, AddRow(r)
    PROVE  StepOK(r)
<1> USE DEF AddRow, fixed
<1>1. fresh[r] \in holds[r] /\ fresh[r] \in Files /\ fresh[r] \notin rows
  BY DEF Shapes, TypeOK, LocalOK, Safe, Reliable
<1>2. Confined(r)
  BY <1>1 DEF Confined, Claims, Shapes, TypeOK
<1>3. /\ pc'[r] = "counted" /\ fresh'[r] = fresh[r] /\ holds'[r] = holds[r]
      /\ work'[r] = work[r] /\ ref'[fresh[r]] = 1
      /\ \A g \in Files \ {fresh[r]} : ref'[g] = ref[g]
  BY <1>1 DEF Shapes, TypeOK
<1>4. \A g : Others(work[r], g)' = Others(work[r], g) /\ Others({}, g)' = Others({}, g)
  BY <1>3 DEF Others
<1>5. Reliable(r)
  BY DEF Safe
<1>6. Reliable(r)'
  <2>1. \A g \in holds[r] \ {fresh[r]} : Cardinality(Others(work[r], g)') + 1 <= ref'[g]
    BY <1>3, <1>4, <1>5 DEF Reliable, Shapes, TypeOK
  <2> QED BY <1>1, <1>3, <1>5, <2>1 DEF Reliable
<1>7. ASSUME NEW g \in rows' \intersect holds[r] PROVE Bound(g)'
  <2>1. CASE g = fresh[r]
    <3>1. Cardinality(Others({}, g)) = 0
      BY <1>1, <2>1, NoOthers DEF Shapes
    <3>2. Cardinality(Claims(g)') = 1
      BY <1>1, <1>2, <1>3, <2>1, HolderClaimsNext DEF Safe
    <3> QED BY <1>3, <1>4, <2>1, <3>1, <3>2 DEF Bound
  <2>2. CASE g # fresh[r]
    <3>1. g \in rows /\ ref'[g] = ref[g]
      BY <1>3, <2>2 DEF Shapes, TypeOK
    <3>2. Cardinality(Claims(g)') = 0
      BY <1>2, <1>3, <2>2, HolderClaimsNext DEF Safe
    <3> QED BY <1>4, <3>1, <3>2, BoundAny, OthersSize DEF Bound, Shapes
  <2> QED BY <2>1, <2>2
<1> QED BY <1>2, <1>6, <1>7 DEF StepOK

\* What inserting an entry does to the references.
LEMMA NewEntryRefs ==
    ASSUME Shapes, NEW r \in Reqs, NEW e \in Entries, NewEntry(r, e), NEW f, f = fresh[r]
    PROVE  Cardinality(Others({}, f)') = Cardinality(Others({}, f)) + 1
<1>1. /\ \A x \in Entries : x # e => file'[x] = file[x]
      /\ file'[e] = f /\ e \notin entries /\ entries' = entries \union {e}
      /\ entries \subseteq Entries
  BY DEF NewEntry, Shapes, TypeOK
<1>2. Others({}, f)' = Others({}, f) \union {e}
  BY <1>1 DEF Others
<1>3. e \notin Others({}, f)
  BY <1>1 DEF Others
<1> QED BY <1>2, <1>3, OthersSize, FS_AddElement DEF Shapes

\* A request that ends promises nothing any more and takes no claim of others.
LEMMA DoneLocal ==
    ASSUME Shapes, NEW r \in Reqs, Done(r)
    PROVE  /\ pc'[r] = "idle" /\ work'[r] = {} /\ fresh'[r] = NoFile /\ holds'[r] = {}
           /\ \A q \in Reqs \ {r} :
                 /\ pc'[q] = pc[q] /\ work'[q] = work[q] /\ fresh'[q] = fresh[q]
                 /\ holds'[q] = holds[q] /\ keep'[q] = keep[q]
           /\ \A f : Claims(f)' \subseteq Claims(f)
           /\ Reliable(r)'
<1>1. /\ pc'[r] = "idle" /\ work'[r] = {} /\ fresh'[r] = NoFile /\ holds'[r] = {}
      /\ \A q \in Reqs \ {r} :
            /\ pc'[q] = pc[q] /\ work'[q] = work[q] /\ fresh'[q] = fresh[q]
            /\ holds'[q] = holds[q] /\ keep'[q] = keep[q]
  BY DEF Done, Shapes, TypeOK
<1>2. \A f : Claims(f)' \subseteq Claims(f)
  BY <1>1 DEF Claims
<1> QED BY <1>1, <1>2 DEF Reliable

\* So is committing row and entry together,
LEMMA FinishUploadStep ==
    ASSUME Shapes, Safe, NEW r \in Reqs, NEW e \in Entries, FinishUpload(r, e)
    PROVE  StepOK(r)
<1>1. /\ pc[r] = "written" /\ NewEntry(r, e) /\ Done(r) /\ rows' = rows \union {fresh[r]}
      /\ ref' = [ref EXCEPT ![fresh[r]] = 1]
  BY DEF FinishUpload
<1>2. fresh[r] \in Files /\ fresh[r] \notin rows /\ holds[r] = {fresh[r]}
  BY <1>1 DEF NewEntry, Shapes, TypeOK, LocalOK, Safe, Reliable
<1>3. Confined(r)
  BY <1>1, <1>2, DoneLocal DEF Confined, NewEntry, Shapes, TypeOK
<1>4. ASSUME NEW g \in rows' \intersect holds[r] PROVE Bound(g)'
  <2>1. g = fresh[r] /\ ref'[g] = 1
    BY <1>1, <1>2 DEF Shapes, TypeOK
  <2>2. Cardinality(Others({}, g)) = 0
    BY <1>2, <2>1, NoOthers DEF Shapes
  <2>3. Cardinality(Claims(g)') = 0
    BY <1>1, <1>3, <2>1, DoneLocal, HolderClaimsNext DEF Safe
  <2>4. Cardinality(Others({}, g)') = Cardinality(Others({}, g)) + 1
    BY <1>1, <2>1, NewEntryRefs
  <2> QED BY <2>1, <2>2, <2>3, <2>4 DEF Bound
<1> QED BY <1>1, <1>3, <1>4, DoneLocal DEF StepOK

\* and inserting the entry that uses up a claim.
LEMMA AddEntryStep ==
    ASSUME Shapes, Safe, NEW r \in Reqs, NEW e \in Entries, AddEntry(r, e)
    PROVE  StepOK(r)
<1>1. /\ pc[r] = "counted" /\ NewEntry(r, e) /\ Done(r) /\ rows' = rows /\ ref' = ref
      /\ fresh[r] \in rows
  BY DEF AddEntry
<1>2. fresh[r] \in Files /\ holds[r] = {fresh[r]}
  BY <1>1 DEF NewEntry, Shapes, TypeOK, LocalOK
<1>3. Confined(r)
  BY <1>1, <1>2, DoneLocal DEF Confined, NewEntry, Shapes, TypeOK
<1>4. ASSUME NEW g \in rows' \intersect holds[r] PROVE Bound(g)'
  <2>1. g = fresh[r] /\ g \in rows
    BY <1>1, <1>2
  <2>2. Cardinality(Others({}, g)) + 1 <= ref[g]
    BY <1>1, <2>1, HolderBound
  <2>3. Cardinality(Claims(g)') = 0
    BY <1>1, <1>3, DoneLocal, HolderClaimsNext DEF Safe
  <2>4. Cardinality(Others({}, g)') = Cardinality(Others({}, g)) + 1
    BY <1>1, <2>1, NewEntryRefs
  <2> QED BY <1>1, <2>2, <2>3, <2>4, OthersSize DEF Bound, Shapes
<1> QED BY <1>1, <1>3, <1>4, DoneLocal DEF StepOK

\* One more element adds at most one.
LEMMA AddOne ==
    ASSUME NEW A, IsFiniteSet(A), NEW e
    PROVE  /\ IsFiniteSet(A \union {e})
           /\ Cardinality(A \union {e}) <= Cardinality(A) + 1
<1>1. /\ IsFiniteSet(A \union {e})
      /\ Cardinality(A \union {e}) = IF e \in A THEN Cardinality(A) ELSE Cardinality(A) + 1
  BY FS_AddElement
<1>2. Cardinality(A) \in Nat
  BY FS_CardinalityType
<1> QED BY <1>1, <1>2

\* Giving an entry its new file uses up the claim and frees an old reference.
LEMMA RepointStep ==
    ASSUME Shapes, Safe, NEW r \in Reqs, NEW e \in Entries, Repoint(r, e)
    PROVE  StepOK(r)
<1>1. /\ pc[r] = "counted" /\ work[r] = {e} /\ e \in entries /\ fresh[r] \in rows
      /\ entries' = entries /\ rows' = rows /\ ref' = ref
      /\ file' = [file EXCEPT ![e] = fresh[r]]
  BY DEF Repoint
<1>2. fresh[r] \in Files /\ fresh[r] \in holds[r]
  BY <1>1 DEF Shapes, TypeOK, LocalOK
<1>3. Reliable(r)
  BY DEF Safe
<1>4. /\ pc'[r] # "counted"
      /\ \A q \in Reqs \ {r} :
            /\ pc'[q] = pc[q] /\ work'[q] = work[q] /\ fresh'[q] = fresh[q]
            /\ holds'[q] = holds[q] /\ keep'[q] = keep[q]
  <2>1. CASE holds[r] = {fresh[r]}
    BY <2>1, DoneLocal DEF Repoint
  <2>2. CASE holds[r] # {fresh[r]}
    BY <2>2 DEF Repoint, Shapes, TypeOK
  <2> QED BY <2>1, <2>2
<1>5. \A f : Claims(f)' \subseteq Claims(f)
  BY <1>4 DEF Claims
<1>6. \A x \in Entries : x # e => file'[x] = file[x]
  BY <1>1 DEF Shapes, TypeOK
<1>7. file'[e] = fresh[r] /\ entries \subseteq Entries
  BY <1>1 DEF Shapes, TypeOK
<1>8. Confined(r)
  BY <1>1, <1>2, <1>4, <1>5, <1>6, <1>7 DEF Confined
<1>9. ASSUME NEW f \in holds[r] \ {fresh[r]}
      PROVE  /\ Cardinality(Others({}, f)') + 1 <= ref[f]
             /\ f \in rows
  <2>1. Others({}, f)' \subseteq Others({e}, f)
    BY <1>1, <1>6, <1>7 DEF Others
  <2>2. Cardinality(Others({e}, f)) + 1 <= ref[f] /\ f \in rows
    BY <1>1, <1>3 DEF Reliable
  <2>3. ref[f] \in Nat
    BY DEF Shapes, TypeOK
  <2> QED BY <2>1, <2>2, <2>3, OthersSize, Smaller DEF Shapes
<1>10. Reliable(r)'
  <2>1. CASE holds[r] = {fresh[r]}
    BY <2>1, DoneLocal DEF Repoint
  <2>2. CASE holds[r] # {fresh[r]}
    <3>1. /\ pc'[r] = "moved" /\ work'[r] = {} /\ fresh'[r] = NoFile
          /\ holds'[r] = holds[r] \ {fresh[r]}
      BY <2>2 DEF Repoint, Shapes, TypeOK
    <3>2. \A f : Others(work[r], f)' = Others({}, f)'
      BY <3>1 DEF Others
    <3> QED BY <1>1, <1>9, <3>1, <3>2 DEF Reliable
  <2> QED BY <2>1, <2>2
<1>11. ASSUME NEW f \in rows' \intersect holds[r] PROVE Bound(f)'
  <2>1. Cardinality(Claims(f)') = 0
    BY <1>4, <1>8, HolderClaimsNext DEF Safe
  <2>2. CASE f = fresh[r]
    <3>1. Others({}, f)' \subseteq Others({}, f) \union {e}
      BY <1>1, <1>6, <1>7 DEF Others
    <3>2. /\ IsFiniteSet(Others({}, f) \union {e})
          /\ Cardinality(Others({}, f) \union {e}) <= Cardinality(Others({}, f)) + 1
          /\ Cardinality(Others({}, f)) \in Nat
      BY OthersSize, AddOne DEF Shapes
    <3>3. Cardinality(Others({}, f)) + 1 <= ref[f]
      BY <1>1, <2>2, HolderBound
    <3>4. ref[f] \in Nat
      BY <1>1 DEF Shapes, TypeOK
    <3> QED BY <1>1, <2>1, <3>1, <3>2, <3>3, <3>4, Smaller DEF Bound
  <2>3. CASE f # fresh[r]
    <3>1. Cardinality(Others({}, f)') \in Nat
      <4>1. Others({}, f)' \subseteq Entries
        BY <1>1, <1>7 DEF Others
      <4> QED BY <4>1, BlobConstants, Smaller
    <3>2. ref[f] \in Nat
      BY <1>1 DEF Shapes, TypeOK
    <3> QED BY <1>1, <1>9, <2>1, <2>3, <3>1, <3>2 DEF Bound
  <2> QED BY <2>2, <2>3
<1> QED BY <1>8, <1>10, <1>11 DEF StepOK

\* A step that only reads leaves references, counts and rows alone.
LEMMA ReadOnly ==
    ASSUME Shapes, Safe, NEW r \in Reqs, UNCHANGED db,
           \A q \in Reqs \ {r} :
              /\ pc'[q] = pc[q] /\ work'[q] = work[q] /\ fresh'[q] = fresh[q]
              /\ holds'[q] = holds[q] /\ keep'[q] = keep[q],
           pc'[r] # "counted"
    PROVE  /\ Confined(r)
           /\ \A f \in rows' \intersect holds[r] : Bound(f)'
<1> USE DEF db
<1>1. \A f : Claims(f)' \subseteq Claims(f)
  BY DEF Claims
<1>2. Confined(r)
  BY <1>1 DEF Confined
<1>3. ASSUME NEW f \in rows' \intersect holds[r] PROVE Bound(f)'
  <2>1. Cardinality(Claims(f)') = 0
    BY <1>2, HolderClaimsNext DEF Safe
  <2>2. Others({}, f)' = Others({}, f)
    BY DEF Others
  <2>3. Cardinality(Others({}, f)) <= ref[f] /\ Cardinality(Others({}, f)) \in Nat
    BY BoundAny, OthersSize DEF Shapes
  <2> QED BY <2>1, <2>2, <2>3 DEF Bound
<1> QED BY <1>2, <1>3

\* The read of a copy: the new count is one above what is stored.
LEMMA CopyStep ==
    ASSUME Shapes, Safe, NEW r \in Reqs, NEW e \in Entries, Copy(r, e)
    PROVE  StepOK(r)
<1> USE DEF Copy, Begin
<1>1. /\ pc'[r] = "bump" /\ fresh'[r] = file[e] /\ holds'[r] = {file[e]} /\ work'[r] = {}
      /\ keep'[r] = [f \in Files |-> IF f = file[e] THEN ref[f] + 1 ELSE 0]
      /\ \A q \in Reqs \ {r} :
            /\ pc'[q] = pc[q] /\ work'[q] = work[q] /\ fresh'[q] = fresh[q]
            /\ holds'[q] = holds[q] /\ keep'[q] = keep[q]
  BY DEF Shapes, TypeOK
<1>2. file[e] \in rows /\ file[e] \in Files /\ UNCHANGED db
  BY DEF Shapes, TypeOK
<1>3. keep'[r][file[e]] = ref[file[e]] + 1
  BY <1>1, <1>2
<1>4. Reliable(r)'
  BY <1>1, <1>2, <1>3 DEF Reliable, db
<1> QED BY <1>1, <1>2, <1>4, ReadOnly DEF StepOK

\* The write of a copy raises the count and takes the claim in one step.
LEMMA CountCopyStep ==
    ASSUME Shapes, Safe, NEW r \in Reqs, CountCopy(r)
    PROVE  StepOK(r)
<1> USE DEF CountCopy, fixed
<1>1. fresh[r] \in Files /\ holds[r] = {fresh[r]} /\ work[r] = {} /\ fresh[r] \in rows
  BY DEF Shapes, TypeOK, LocalOK
<1>2. Confined(r)
  BY <1>1 DEF Confined, Claims, Shapes, TypeOK
<1>3. /\ pc'[r] = "counted" /\ fresh'[r] = fresh[r] /\ holds'[r] = holds[r]
      /\ ref'[fresh[r]] = ref[fresh[r]] + 1
  BY <1>1 DEF Shapes, TypeOK, Safe, Reliable
<1>4. Reliable(r)'
  BY <1>1, <1>3 DEF Reliable
<1>5. ASSUME NEW f \in rows' \intersect holds[r] PROVE Bound(f)'
  <2>1. f = fresh[r] /\ f \in rows /\ ref[f] \in Nat
    BY <1>1 DEF Shapes, TypeOK
  <2>2. Cardinality(Claims(f)') = 1
    BY <1>2, <1>3, <2>1, HolderClaimsNext DEF Safe
  <2>3. Others({}, f)' = Others({}, f)
    BY DEF Others
  <2>4. Cardinality(Others({}, f)) <= ref[f] /\ Cardinality(Others({}, f)) \in Nat
    BY <2>1, BoundAny, OthersSize DEF Shapes
  <2> QED BY <1>3, <2>1, <2>2, <2>3, <2>4 DEF Bound
<1> QED BY <1>2, <1>4, <1>5 DEF StepOK

\* A count less the references given up still covers the others.
LEMMA MinusCovers ==
    ASSUME Shapes, Safe, NEW f \in rows, NEW S \in SUBSET entries
    PROVE  Cardinality(Others(S, f)) <= Minus(ref[f], Cardinality({e \in S : file[e] = f}))
<1> DEFINE P == {e \in S : file[e] = f}
<1>1. S \in SUBSET Entries /\ ref[f] \in Nat
  BY DEF Shapes, TypeOK
<1>2. IsFiniteSet(P) /\ Cardinality(P) \in Nat
  BY <1>1, PartSize DEF Shapes
<1>3. /\ IsFiniteSet(Others(S, f)) /\ Cardinality(Others(S, f)) \in Nat
      /\ Cardinality(Others({}, f)) \in Nat
  BY OthersSize DEF Shapes
<1>4. Others({}, f) = Others(S, f) \union P
  BY DEF Others
<1>5. Others(S, f) \intersect P = {}
  BY DEF Others
<1>6. Cardinality(Others(S, f) \union P) = Cardinality(Others(S, f)) + Cardinality(P)
  <2>1. Cardinality(Others(S, f) \union P)
           = Cardinality(Others(S, f)) + Cardinality(P) - Cardinality(Others(S, f) \intersect P)
    BY <1>2, <1>3, FS_Union
  <2>2. Cardinality(Others(S, f) \intersect P) = 0
    BY <1>5, FS_EmptySet
  <2> HIDE DEF P
  <2> QED BY <1>2, <1>3, <2>1, <2>2
<1>7. Cardinality(Others({}, f)) = Cardinality(Others(S, f)) + Cardinality(P)
  BY <1>4, <1>6, Zenon
<1>8. Cardinality(Others({}, f)) <= ref[f]
  BY BoundAny
<1> HIDE DEF P
<1>9. Cardinality(Others(S, f)) <= Minus(ref[f], Cardinality(P))
  BY <1>1, <1>2, <1>3, <1>7, <1>8 DEF Minus
<1> QED BY <1>9 DEF P

\* The read of a deletion: the new counts cover the entries that stay.
LEMMA PurgeStep ==
    ASSUME Shapes, Safe, NEW r \in Reqs, NEW S \in SUBSET Entries, Purge(r, S)
    PROVE  StepOK(r)
<1> DEFINE F == {file[e] : e \in S} \ {NoFile}
           K == [f \in Files |->
                   IF f \in F THEN Minus(ref[f], Cardinality({e \in S : file[e] = f})) ELSE 0]
<1>1. /\ S \subseteq entries /\ Begin(r, "read", S, F) /\ keep' = [keep EXCEPT ![r] = K]
      /\ UNCHANGED <<db, fresh>>
  BY DEF Purge
<1>2. F \subseteq rows /\ rows \subseteq Files
  BY <1>1 DEF Shapes, TypeOK
<1>3. \A f \in F : K[f] = Minus(ref[f], Cardinality({e \in S : file[e] = f}))
  BY <1>2
<1> HIDE DEF F, K
<1>4. /\ pc'[r] = "read" /\ fresh'[r] = NoFile /\ holds'[r] = F /\ work'[r] = S
      /\ keep'[r] = K
      /\ \A q \in Reqs \ {r} :
            /\ pc'[q] = pc[q] /\ work'[q] = work[q] /\ fresh'[q] = fresh[q]
            /\ holds'[q] = holds[q] /\ keep'[q] = keep[q]
  BY <1>1 DEF Begin, Shapes, TypeOK, LocalOK
<1>5. ASSUME NEW f \in F PROVE Cardinality(Others(work[r], f)') <= keep'[r][f]
  <2>1. Others(work[r], f)' = Others(S, f)
    BY <1>1, <1>4 DEF Others, db
  <2>2. Cardinality(Others(S, f)) <= K[f]
    BY <1>1, <1>2, <1>3, MinusCovers
  <2> QED BY <1>4, <2>1, <2>2
<1>6. Reliable(r)'
  BY <1>1, <1>2, <1>4, <1>5 DEF Reliable, db
<1> QED BY <1>1, <1>4, <1>6, ReadOnly DEF StepOK

\* The read of a migration: the entry has moved, one reference is free.
LEMMA ReleaseStep ==
    ASSUME Shapes, Safe, NEW r \in Reqs, Release(r)
    PROVE  StepOK(r)
<1> USE DEF Release
<1>1. /\ pc[r] = "moved" /\ fresh[r] = NoFile /\ holds[r] \subseteq rows /\ rows \subseteq Files
  BY DEF Shapes, TypeOK, LocalOK
<1>2. /\ pc'[r] = "read" /\ fresh'[r] = fresh[r] /\ holds'[r] = holds[r] /\ work'[r] = work[r]
      /\ keep'[r] = [f \in Files |-> IF f \in holds[r] THEN Minus(ref[f], 1) ELSE 0]
      /\ UNCHANGED db
      /\ \A q \in Reqs \ {r} :
            /\ pc'[q] = pc[q] /\ work'[q] = work[q] /\ fresh'[q] = fresh[q]
            /\ holds'[q] = holds[q] /\ keep'[q] = keep[q]
  BY DEF Shapes, TypeOK
<1>3. ASSUME NEW f \in holds[r] PROVE Cardinality(Others(work[r], f)') <= keep'[r][f]
  <2>1. Others(work[r], f)' = Others(work[r], f)
    BY <1>2 DEF Others, db
  <2>2. Cardinality(Others(work[r], f)) + 1 <= ref[f]
    BY <1>1, BlobConstants DEF Safe, Reliable
  <2>3. ref[f] \in Nat /\ Cardinality(Others(work[r], f)) \in Nat
    BY <1>1, OthersSize DEF Shapes, TypeOK
  <2>4. keep'[r][f] = Minus(ref[f], 1)
    BY <1>1, <1>2
  <2> QED BY <2>1, <2>2, <2>3, <2>4 DEF Minus
<1>4. Reliable(r)'
  BY <1>1, <1>2, <1>3 DEF Reliable, db
<1> QED BY <1>2, <1>4, ReadOnly DEF StepOK

\* Deleting contents touches no count.
LEMMA DropBlobsStep ==
    ASSUME Shapes, Safe, NEW r \in Reqs, NEW D \in SUBSET Files, DropBlobs(r, D)
    PROVE  StepOK(r)
<1> USE DEF DropBlobs
<1>1. /\ pc'[r] = "dropping" /\ fresh'[r] = fresh[r] /\ holds'[r] = holds[r]
      /\ work'[r] = work[r] /\ keep'[r] = keep[r] /\ UNCHANGED db
      /\ \A q \in Reqs \ {r} :
            /\ pc'[q] = pc[q] /\ work'[q] = work[q] /\ fresh'[q] = fresh[q]
            /\ holds'[q] = holds[q] /\ keep'[q] = keep[q]
  BY DEF Shapes, TypeOK
<1>2. \A f : Others(work[r], f)' = Others(work[r], f)
  BY <1>1 DEF Others, db
<1>3. Reliable(r)'
  BY <1>1, <1>2 DEF Safe, Reliable, db
<1> QED BY <1>1, <1>3, ReadOnly DEF StepOK

\* The commit of a deletion: counts come down with the entries that go.
LEMMA CommitStep ==
    ASSUME Shapes, Safe, NEW r \in Reqs, Commit(r)
    PROVE  StepOK(r)
<1>1. /\ pc[r] = "dropping" /\ Done(r)
      /\ entries' = entries \ work[r]
      /\ rows' = rows \ Zero(r)
      /\ ref' = [f \in Files |-> IF f \in holds[r] THEN keep[r][f] ELSE ref[f]]
      /\ \A e \in Entries : file'[e] \in {NoFile, file[e]}
  BY DEF Commit
<1>2. /\ entries \subseteq Entries /\ rows \subseteq Files /\ holds[r] \subseteq Files
      /\ \A f \in Files : ref[f] \in Nat /\ keep[r][f] \in Nat
  BY DEF Shapes, TypeOK
<1>3. Confined(r)
  BY <1>1, <1>2, DoneLocal, BlobConstants DEF Confined, Zero
<1>4. ASSUME NEW f \in rows' \intersect holds[r] PROVE Bound(f)'
  <2>1. Others({}, f)' \subseteq Others(work[r], f)
    BY <1>1, <1>2, BlobConstants DEF Others
  <2>2. Cardinality(Others(work[r], f)) <= keep[r][f]
    BY <1>1 DEF Safe, Reliable
  <2>3. /\ Cardinality(Others({}, f)') <= Cardinality(Others(work[r], f))
        /\ Cardinality(Others({}, f)') \in Nat /\ Cardinality(Others(work[r], f)) \in Nat
    BY <2>1, OthersSize, Smaller DEF Shapes
  <2>4. Cardinality(Claims(f)') = 0
    BY <1>1, <1>3, DoneLocal, HolderClaimsNext DEF Safe
  <2>5. ref'[f] = keep[r][f] /\ keep[r][f] \in Nat
    BY <1>1, <1>2
  <2> QED BY <2>2, <2>3, <2>4, <2>5 DEF Bound
<1> QED BY <1>1, <1>3, <1>4, DoneLocal DEF StepOK

\* Stopping anywhere gives up a claim and nothing else.
LEMMA FailStep ==
    ASSUME Shapes, Safe, NEW r \in Reqs, Fail(r)
    PROVE  StepOK(r)
<1>1. Done(r) /\ UNCHANGED db
  BY DEF Fail
<1> QED BY <1>1, DoneLocal, ReadOnly DEF StepOK

\* A request that begins takes files nobody holds,
LEMMA ApartBegin ==
    ASSUME Shapes, exclusive, Apart, NEW r \in Reqs, NEW step, NEW S, NEW F, Begin(r, step, S, F)
    PROVE  Apart'
<1>1. /\ holds'[r] = F /\ \A q \in Reqs \ {r} : holds'[q] = holds[q]
      /\ \A q \in Reqs \ {r} : holds[q] \intersect F = {}
  BY DEF Begin, Quiet, Shapes, TypeOK
<1> QED BY <1>1 DEF Apart

\* a request under way takes no more,
LEMMA ApartShrinks ==
    ASSUME Apart, \A q \in Reqs : holds'[q] \subseteq holds[q]
    PROVE  Apart'
    BY DEF Apart

\* so no two requests ever hold the same file.
LEMMA ApartStep ==
    ASSUME Shapes, exclusive, Apart, [Next]_vars
    PROVE  Apart'
<1>1. CASE \E r \in Reqs : \E step, S, F : Begin(r, step, S, F)
  BY <1>1, ApartBegin
<1>2. CASE \A q \in Reqs : holds'[q] \subseteq holds[q]
  BY <1>2, ApartShrinks
<1>3. ASSUME NEW r \in Reqs, Done(r) PROVE \A q \in Reqs : holds'[q] \subseteq holds[q]
  BY <1>3 DEF Done, Shapes, TypeOK
<1>4. ASSUME NEW r \in Reqs, NEW e, Repoint(r, e) PROVE \A q \in Reqs : holds'[q] \subseteq holds[q]
  <2>1. CASE holds[r] = {fresh[r]}
    BY <1>3, <1>4, <2>1 DEF Repoint
  <2>2. CASE holds[r] # {fresh[r]}
    BY <1>4, <2>2 DEF Repoint, Shapes, TypeOK
  <2> QED BY <2>1, <2>2
<1>5. \/ \E r \in Reqs : \E step, S, F : Begin(r, step, S, F)
      \/ \E r \in Reqs : Done(r)
      \/ \E r \in Reqs, e \in Entries : Repoint(r, e)
      \/ UNCHANGED holds
  BY Zenon DEF Next, Upload, Put, Migrate, WriteBlob, AddRow, FinishUpload, AddEntry, Copy,
       CountCopy, Purge, Release, DropBlobs, Commit, AdminDelete, Fail, vars, local
<1> QED BY <1>1, <1>2, <1>3, <1>4, <1>5

\* Every step keeps what requests rely on and the bounds on the counts.
LEMMA SafeNext ==
    ASSUME Shapes, exclusive, Safe, [Next]_vars
    PROVE  Safe'
<1>1. Apart' /\ TypeOK'
  BY ApartStep, ShapesStep DEF Safe, Shapes
<1>2. CASE UNCHANGED <<db, local>>
  BY <1>2 DEF Safe, Apart, Reliable, Bound, Others, Claims, db, local
<1>3. ASSUME NEW r \in Reqs, StepOK(r) PROVE Safe'
  BY <1>1, <1>3, SafeStep
<1>4. ASSUME NEW r \in Reqs, NEW f \in Files, Upload(r, f) PROVE StepOK(r)
  BY <1>4, WriteBlobStep DEF Upload
<1>5. ASSUME NEW r \in Reqs, NEW f \in Files, NEW e \in Entries, Put(r, f, e) PROVE StepOK(r)
  BY <1>5, WriteBlobStep DEF Put
<1>6. \/ \E r \in Reqs : StepOK(r)
      \/ UNCHANGED <<db, local>>
  <2>1. Next \/ UNCHANGED vars
    OBVIOUS
  <2>2. CASE UNCHANGED vars
    BY <2>2 DEF vars
  <2>3. CASE \E e \in Entries : AdminDelete(e)
    BY <2>3 DEF AdminDelete
  <2> QED BY <2>1, <2>2, <2>3, <1>4, <1>5, MigrateStep, AddRowStep, FinishUploadStep,
             AddEntryStep, RepointStep, CopyStep, CountCopyStep, PurgeStep, ReleaseStep,
             DropBlobsStep, CommitStep, FailStep, Zenon DEF Next
<1> QED BY <1>2, <1>3, <1>6

-----------------------------------------------------------------------------
(* The theorems *)

\* The inductive invariant holds at the start
LEMMA IInvInit ==
    ASSUME Init
    PROVE  IInv
<1>1. Shapes
  BY ShapesInit
<1>2. Apart /\ \A r \in Reqs : Reliable(r)
  BY DEF Init, Apart, Reliable
<1>3. CountCovers
  BY DEF Init, CountCovers
<1> QED BY <1>1, <1>2, <1>3 DEF IInv, Shapes

\* and is kept by every step.
LEMMA IInvStep ==
    ASSUME IInv, [Next]_vars
    PROVE  IInv'
<1>1. Shapes
  BY DEF IInv, Shapes
<1>2. Shapes'
  BY <1>1, ShapesStep
<1>3. exclusive' = exclusive
  BY Zenon DEF Next, Upload, Put, Migrate, WriteBlob, AddRow, FinishUpload, AddEntry, Repoint, Copy,
       CountCopy, Purge, Release, DropBlobs, Commit, AdminDelete, Fail, vars, fixed
<1>4. exclusive => Safe
  BY DEF IInv, Safe, CountCovers, Bound
<1>5. exclusive => Safe'
  BY <1>1, <1>4, SafeNext
<1> QED BY <1>2, <1>3, <1>5 DEF IInv, Safe, Shapes, CountCovers, Bound

\* The columns and the memory of the requests keep their types, and no entry
\* names a row that is gone, in every interleaving.
THEOREM TypeCorrect == Spec => []TypeOK
<1>1. Init => IInv
  BY IInvInit
<1>2. IInv /\ [Next]_vars => IInv'
  BY IInvStep
<1>3. IInv => TypeOK
  BY DEF IInv
<1> QED BY <1>1, <1>2, <1>3, PTL DEF Spec

\* Counts cover references for any number of entries, files and requests.
THEOREM CountsAreSafe == Spec => []CountCovers
<1>1. Init => IInv
  BY IInvInit
<1>2. IInv /\ [Next]_vars => IInv'
  BY IInvStep
<1>3. IInv => CountCovers
  BY DEF IInv, CountCovers
<1> QED BY <1>1, <1>2, <1>3, PTL DEF Spec

\* The only step that deletes a content is taken at a count of zero, which the
\* references other than the request's own cannot exceed.
LEMMA BlobsKeptStep ==
    ASSUME IInv, exclusive, ~admin, [Next]_vars, NEW f \in blobs \ blobs'
    PROVE  \E r \in Reqs : pc'[r] = "dropping" /\ Others(work[r], f) = {}
<1>1. PICK r \in Reqs, D \in SUBSET Files : DropBlobs(r, D)
  BY Zenon DEF Next, Upload, Put, Migrate, WriteBlob, AddRow, FinishUpload, AddEntry, Repoint,
       Copy, CountCopy, Purge, Release, Commit, AdminDelete, Fail, vars
<1>2. f \in holds[r] /\ keep[r][f] = 0 /\ pc[r] = "read"
  BY <1>1 DEF DropBlobs, Zero
<1>3. Cardinality(Others(work[r], f)) <= 0
  BY <1>2 DEF IInv, Reliable
<1>4. Others(work[r], f) = {}
  BY <1>3, OthersSize, FS_EmptySet DEF IInv
<1>5. pc'[r] = "dropping"
  BY <1>1 DEF DropBlobs, IInv, TypeOK
<1> QED BY <1>4, <1>5

\* Requests that never overlap on a physical file lose no content that an
\* entry outside the deletion still references, wherever they fail.
THEOREM ContentIsKept == Spec => BlobsKept
<1>1. Init => IInv
  BY IInvInit
<1>2. IInv /\ [Next]_vars => IInv'
  BY IInvStep
<1>3. IInv /\ [Next]_vars =>
        [exclusive /\ ~admin => \A f \in blobs \ blobs' :
            \E r \in Reqs : pc'[r] = "dropping" /\ Others(work[r], f) = {}]_vars
  BY BlobsKeptStep
<1> QED BY <1>1, <1>2, <1>3, PTL DEF Spec, BlobsKept

-----------------------------------------------------------------------------
(* The counts implement the promise of ContentStore *)

\* The entries a request's deletion covers.
Covers(r) == IF pc[r] \in {"read", "dropping"} THEN work[r] ELSE {}

\* A step that changes no entry and what can be read only begins or ends
\* deletions.
LEMMA DoomOrSpare ==
    ASSUME TypeOK, UNCHANGED <<entries, fixed>>, Readable' = Readable, NEW r \in Reqs,
           \A q \in Reqs \ {r} : Covers(q)' = Covers(q),
           Covers(r) = {} \/ Covers(r)' \subseteq Covers(r)
    PROVE  Contents!Next \/ UNCHANGED Contents!vars
<1>1. Readable' = Readable /\ UNCHANGED <<entries, exclusive, admin>>
  BY DEF fixed
<1>2. Doomed = {e \in entries : \E q \in Reqs : e \in Covers(q)}
  BY DEF Doomed, Covers
<1>3. Doomed' = {e \in entries : \E q \in Reqs : e \in Covers(q)'}
  BY <1>1 DEF Doomed, Covers
<1>4. Doomed \subseteq Entries /\ Doomed' \subseteq Entries /\ Doomed' \subseteq entries
  BY <1>2, <1>3 DEF TypeOK
<1>5. CASE Covers(r) = {}
  <2>1. Doomed' = Doomed \union Doomed'
    BY <1>2, <1>3, <1>5
  <2> QED BY <1>1, <1>4, <2>1 DEF Contents!Next, Contents!Doom
<1>6. CASE Covers(r)' \subseteq Covers(r)
  <2>1. Doomed' = Doomed \ (Doomed \ Doomed')
    BY <1>2, <1>3, <1>6
  <2> QED BY <1>1, <1>4, <2>1 DEF Contents!Next, Contents!Spare
<1> QED BY <1>5, <1>6

\* The step of one request that leaves the others where they are.
LEMMA OthersCovers ==
    ASSUME TypeOK, NEW r \in Reqs, NEW step,
           pc' = [pc EXCEPT ![r] = step],
           \A q \in Reqs \ {r} : work'[q] = work[q]
    PROVE  \A q \in Reqs \ {r} : Covers(q)' = Covers(q)
    BY DEF TypeOK, Covers

\* An entry is only added by a request that deletes nothing, and no deletion
\* under way names it.
LEMMA NewEntryPromise ==
    ASSUME IInv, NEW r \in Reqs, NEW e \in Entries, NewEntry(r, e), Done(r),
           pc[r] \in {"written", "counted"}, UNCHANGED <<blobs, fixed>>
    PROVE  Contents!Add(e)
<1>1. \A q \in Reqs \ {r} : Covers(q)' = Covers(q)
  BY OthersCovers DEF Done, IInv, TypeOK
<1>2. Covers(r) = {} /\ Covers(r)' = {}
  BY DEF Covers, Done, IInv, TypeOK
<1>3. \A q \in Reqs : e \notin Covers(q)
  BY DEF NewEntry, Covers
<1>4. e \notin entries /\ entries' = entries \union {e}
  BY DEF NewEntry
<1>5. Doomed' = Doomed
  <2>1. Doomed = {x \in entries : \E q \in Reqs : x \in Covers(q)}
    BY DEF Doomed, Covers
  <2>2. Doomed' = {x \in entries' : \E q \in Reqs : x \in Covers(q)'}
    BY DEF Doomed, Covers
  <2> QED BY <1>1, <1>2, <1>3, <1>4, <2>1, <2>2
<1>6. \A x \in entries : file'[x] = file[x]
  BY DEF NewEntry, IInv, TypeOK
<1>7. Readable' \in {Readable, Readable \union {e}}
  BY <1>4, <1>6 DEF Readable
<1> QED BY <1>4, <1>5, <1>7 DEF Contents!Add, fixed

\* The content a PUT or a migration is about to point an entry to is there.
NewStored ==
    exclusive /\ ~admin => \A r \in Reqs :
        pc[r] \in {"written", "counted"} /\ work[r] # {} => fresh[r] \in blobs

LEMMA NewStoredStep ==
    ASSUME IInv, NewStored, [Next]_vars
    PROVE  NewStored'
<1> SUFFICES ASSUME exclusive', ~admin', NEW q \in Reqs,
                    pc'[q] \in {"written", "counted"}, work'[q] # {}
             PROVE  fresh'[q] \in blobs'
  BY DEF NewStored
<1> USE DEF IInv, TypeOK, fixed, db
<1>0. ASSUME NEW r \in Reqs, Done(r), UNCHANGED <<blobs, fixed>>
      PROVE  fresh'[q] \in blobs'
  <2>1. q # r
    BY <1>0 DEF Done
  <2>2. pc'[q] = pc[q] /\ work'[q] = work[q] /\ fresh'[q] = fresh[q]
    BY <1>0, <2>1 DEF Done
  <2> QED BY <1>0, <2>2 DEF NewStored
<1>1. CASE \E r \in Reqs, f \in Files, S \in SUBSET Entries, F \in SUBSET Files :
                WriteBlob(r, f, S, F)
  BY <1>1 DEF WriteBlob, Begin, NewStored
<1>2. CASE \E r \in Reqs : AddRow(r)
  BY <1>2 DEF AddRow, NewStored
<1>3. CASE \E r \in Reqs, e \in Entries : FinishUpload(r, e) \/ AddEntry(r, e)
  BY <1>0, <1>3 DEF FinishUpload, AddEntry
<1>4. CASE \E r \in Reqs, e \in Entries : Repoint(r, e)
  <2> PICK r \in Reqs, e \in Entries : Repoint(r, e)
    BY <1>4
  <2>1. CASE Done(r)
    BY <1>0, <2>1 DEF Repoint
  <2>2. CASE ~Done(r)
    <3>1. q # r /\ pc'[q] = pc[q] /\ work'[q] = work[q] /\ fresh'[q] = fresh[q]
      BY <2>2 DEF Repoint
    <3>2. UNCHANGED <<blobs, fixed>>
      BY DEF Repoint
    <3> QED BY <3>1, <3>2 DEF NewStored
  <2> QED BY <2>1, <2>2
<1>5. CASE \E r \in Reqs, e \in Entries : Copy(r, e)
  BY <1>5 DEF Copy, Begin, NewStored
<1>6. CASE \E r \in Reqs : CountCopy(r)
  <2> PICK r \in Reqs : CountCopy(r)
    BY <1>6
  <2>1. work[r] = {} /\ UNCHANGED <<work, fresh, blobs>>
    BY DEF CountCopy, LocalOK
  <2> QED BY <2>1 DEF CountCopy, NewStored
<1>7. CASE \E r \in Reqs, S \in SUBSET Entries : Purge(r, S)
  BY <1>7 DEF Purge, Begin, NewStored
<1>8. CASE \E r \in Reqs : Release(r)
  BY <1>8 DEF Release, NewStored
<1>9. CASE \E r \in Reqs, D \in SUBSET Files : DropBlobs(r, D)
  <2> PICK r \in Reqs, D \in SUBSET Files : DropBlobs(r, D)
    BY <1>9
  <2>1. q # r /\ pc[q] \in {"written", "counted"} /\ work[q] # {}
    BY DEF DropBlobs
  <2>2. fresh[q] \in blobs /\ fresh[q] \in holds[q]
    BY <2>1 DEF NewStored, LocalOK, DropBlobs
  <2>3. fresh[q] \notin holds[r]
    BY <2>1, <2>2 DEF Apart, DropBlobs
  <2> QED BY <2>2, <2>3 DEF DropBlobs, Zero
<1>10. CASE \E r \in Reqs : Commit(r) \/ Fail(r)
  BY <1>0, <1>10 DEF Commit, Fail
<1>11. CASE \E e \in Entries : AdminDelete(e)
  BY <1>11 DEF AdminDelete
<1>12. CASE UNCHANGED vars
  BY <1>12 DEF vars, local, NewStored
<1> QED
  BY Zenon, <1>1, <1>2, <1>3, <1>4, <1>5, <1>6, <1>7, <1>8, <1>9, <1>10, <1>11, <1>12
  DEF Next, Upload, Put, Migrate

\* A count of zero leaves no reference outside the deletion.
LEMMA ZeroUnreferenced ==
    ASSUME IInv, exclusive, NEW r \in Reqs, pc[r] \in {"read", "dropping"},
           NEW f \in Zero(r)
    PROVE  Others(work[r], f) = {}
<1>1. f \in holds[r] /\ keep[r][f] = 0
  BY DEF Zero
<1>2. Cardinality(Others(work[r], f)) <= 0
  BY <1>1 DEF IInv, Reliable
<1> QED BY <1>2, OthersSize, FS_EmptySet DEF IInv

LEMMA RepointPromise ==
    ASSUME IInv, NewStored, NEW r \in Reqs, NEW e \in Entries, Repoint(r, e)
    PROVE  Contents!Next
<1>1. /\ e \in entries /\ UNCHANGED <<entries, blobs, exclusive, admin>>
      /\ file' = [file EXCEPT ![e] = fresh[r]]
      /\ entries \subseteq Entries /\ file \in [Entries -> Files \union {NoFile}]
      /\ pc \in [Reqs -> Steps] /\ work \in [Reqs -> SUBSET Entries]
  BY DEF Repoint, fixed, IInv, TypeOK
<1>2. Doomed' = Doomed
  <2>1. \A q \in Reqs \ {r} : Covers(q)' = Covers(q)
    BY OthersCovers, <1>1 DEF Repoint, Done, IInv
  <2>2. Covers(r) = {} /\ Covers(r)' = {}
    BY <1>1 DEF Covers, Repoint, Done
  <2>3. Doomed = {x \in entries : \E q \in Reqs : x \in Covers(q)}
    BY DEF Doomed, Covers
  <2>4. Doomed' = {x \in entries' : \E q \in Reqs : x \in Covers(q)'}
    BY DEF Doomed, Covers
  <2> QED BY <1>1, <2>1, <2>2, <2>3, <2>4
<1>3. CASE fresh[r] \in blobs
  <2>1. Readable' = Readable \union {e}
    BY <1>1, <1>3 DEF Readable
  <2> QED BY <1>1, <1>2, <2>1 DEF Contents!Next, Contents!Replace
<1>4. CASE fresh[r] \notin blobs
  <2>1. ~(exclusive /\ ~admin)
    BY <1>4 DEF Repoint, NewStored
  <2>2. Readable' = Readable \ {e} /\ {e} \in SUBSET Entries /\ {e} \subseteq entries
    BY <1>1, <1>4 DEF Readable
  <2>3. Contents!Lose({e})
    BY <1>1, <1>2, <2>1, <2>2 DEF Contents!Lose, Contents!Losable
  <2> QED BY <2>2, <2>3 DEF Contents!Next
<1> QED BY <1>3, <1>4

LEMMA DropPromise ==
    ASSUME IInv, NEW r \in Reqs, NEW D \in SUBSET Files, DropBlobs(r, D)
    PROVE  Contents!Next
<1> DEFINE L == {e \in entries : file[e] \in D}
<1>1. /\ UNCHANGED <<entries, file, work, exclusive, admin>>
      /\ blobs' = blobs \ D /\ D \subseteq Zero(r)
      /\ pc[r] = "read" /\ pc' = [pc EXCEPT ![r] = "dropping"]
      /\ pc \in [Reqs -> Steps] /\ entries \subseteq Entries
  BY DEF DropBlobs, db, fixed, IInv, TypeOK
<1>2. Doomed' = Doomed
  BY <1>1 DEF Doomed
<1>3. Readable' = Readable \ L
  BY <1>1 DEF Readable
<1>4. ASSUME exclusive, NEW e \in L
      PROVE  e \in Doomed
  <2>1. Others(work[r], file[e]) = {}
    BY <1>1, <1>4, ZeroUnreferenced
  <2>2. e \in work[r]
    BY <1>4, <2>1 DEF Others
  <2> QED BY <1>1, <1>4, <2>2 DEF Doomed
<1>5. L \in SUBSET Entries
  BY <1>1
<1> QED BY <1>1, <1>2, <1>3, <1>4, <1>5 DEF Contents!Next, Contents!Lose, Contents!Losable

LEMMA CommitPromise ==
    ASSUME IInv, NEW r \in Reqs, Commit(r)
    PROVE  Contents!Next
<1> DEFINE S == work[r] \intersect entries
           T == {e \in entries \ work[r] : file[e] \in Zero(r)}
<1>1. /\ UNCHANGED <<blobs, exclusive, admin>>
      /\ entries' = entries \ S
      /\ pc[r] = "dropping"
      /\ file' = [e \in Entries |->
            IF e \in work[r] \/ file[e] \in Zero(r) THEN NoFile ELSE file[e]]
      /\ entries \subseteq Entries
      /\ pc \in [Reqs -> Steps] /\ work \in [Reqs -> SUBSET Entries]
  BY DEF Commit, fixed, IInv, TypeOK
<1>2. NoFile \notin blobs
  BY BlobConstants DEF IInv, TypeOK
<1>3. Readable' = Readable \ (S \union T)
  BY <1>1, <1>2 DEF Readable
<1>4. Doomed' = Doomed \ S
  <2>1. \A q \in Reqs \ {r} : Covers(q)' = Covers(q)
    BY OthersCovers, <1>1 DEF Commit, Done, IInv
  <2>2. Covers(r) = work[r] /\ Covers(r)' = {}
    BY <1>1 DEF Covers, Commit, Done
  <2>3. Doomed = {x \in entries : \E q \in Reqs : x \in Covers(q)}
    BY DEF Doomed, Covers
  <2>4. Doomed' = {x \in entries' : \E q \in Reqs : x \in Covers(q)'}
    BY DEF Doomed, Covers
  <2>5. \A x \in entries' : x \notin Covers(r)
    BY <1>1, <2>2
  <2>6. ASSUME NEW x PROVE x \in Doomed' <=> x \in Doomed \ S
    BY <1>1, <2>1, <2>2, <2>3, <2>4, <2>5
  <2> QED BY <2>6
<1>5. S \subseteq Doomed
  BY <1>1 DEF Doomed
<1>6. exclusive => T = {}
  BY <1>1, ZeroUnreferenced DEF Others
<1>7. S \in SUBSET Entries /\ T \in SUBSET Entries /\ T \subseteq entries
  BY <1>1
<1>8. Contents!Remove(S, T)
  BY <1>1, <1>3, <1>4, <1>5, <1>6, <1>7 DEF Contents!Remove, Contents!Losable
<1> QED BY <1>7, <1>8 DEF Contents!Next

LEMMA WriteBlobPromise ==
    ASSUME IInv, NEW r \in Reqs, NEW f \in Files, NEW S, NEW F, WriteBlob(r, f, S, F)
    PROVE  Contents!Next \/ UNCHANGED Contents!vars
<1>1. f \notin rows /\ blobs' = blobs \union {f} /\ UNCHANGED <<entries, file, fixed>>
  BY DEF WriteBlob, db
<1>2. \A e \in entries : file[e] # f
  BY <1>1, BlobConstants DEF IInv, TypeOK
<1>3. Readable' = Readable
  BY <1>1, <1>2 DEF Readable
<1>4. /\ pc[r] = "idle" /\ pc' = [pc EXCEPT ![r] = "written"]
      /\ work' = [work EXCEPT ![r] = S]
  BY DEF WriteBlob, Begin
<1>5. \A q \in Reqs \ {r} : Covers(q)' = Covers(q)
  BY <1>4, OthersCovers DEF IInv, TypeOK
<1>6. Covers(r) = {}
  BY <1>4 DEF Covers
<1> QED BY <1>1, <1>3, <1>5, <1>6, DoomOrSpare DEF IInv

\* Every step is one of ContentStore's, or changes nothing it talks about.
LEMMA PromiseStep ==
    ASSUME IInv, NewStored, [Next]_vars
    PROVE  Contents!Next \/ UNCHANGED Contents!vars
<1>1. CASE \E r \in Reqs, f \in Files, S \in SUBSET Entries, F \in SUBSET (Files \union {NoFile}) :
               WriteBlob(r, f, S, F)
  BY <1>1, WriteBlobPromise
<1>2. ASSUME NEW r \in Reqs, NEW step, pc' = [pc EXCEPT ![r] = step],
             \A q \in Reqs \ {r} : work'[q] = work[q],
             UNCHANGED <<entries, file, blobs, fixed>>,
             pc[r] \notin {"read", "dropping"} \/ step \notin {"read", "dropping"}
      PROVE  Contents!Next \/ UNCHANGED Contents!vars
  <2>1. \A q \in Reqs \ {r} : Covers(q)' = Covers(q)
    BY <1>2, OthersCovers DEF IInv
  <2>2. Covers(r) = {} \/ Covers(r)' = {}
    BY <1>2 DEF Covers, IInv, TypeOK
  <2>3. Readable' = Readable
    BY <1>2 DEF Readable
  <2> QED BY <1>2, <2>1, <2>2, <2>3, DoomOrSpare DEF IInv
<1>3. CASE \E r \in Reqs : AddRow(r)
  BY <1>2, <1>3 DEF AddRow
<1>4. CASE \E r \in Reqs, e \in Entries : FinishUpload(r, e) \/ AddEntry(r, e)
  BY <1>4, NewEntryPromise DEF FinishUpload, AddEntry, Contents!Next
<1>5. CASE \E r \in Reqs, e \in Entries : Repoint(r, e)
  BY <1>5, RepointPromise
<1>6. CASE \E r \in Reqs, e \in Entries : Copy(r, e)
  BY <1>2, <1>6 DEF Copy, Begin, db, IInv, TypeOK
<1>7. CASE \E r \in Reqs : CountCopy(r)
  BY <1>2, <1>7 DEF CountCopy
<1>8. CASE \E r \in Reqs, S \in SUBSET Entries : Purge(r, S)
  BY <1>2, <1>8 DEF Purge, Begin, db, IInv, TypeOK
<1>9. CASE \E r \in Reqs : Release(r)
  BY <1>2, <1>9 DEF Release, db
<1>10. CASE \E r \in Reqs, D \in SUBSET Files : DropBlobs(r, D)
  BY <1>10, DropPromise
<1>11. CASE \E r \in Reqs : Commit(r)
  BY <1>11, CommitPromise
<1>12. CASE \E e \in Entries : AdminDelete(e)
  <2> PICK e \in Entries : AdminDelete(e)
    BY <1>12
  <2> DEFINE L == Readable \ Readable'
  <2>1. /\ admin /\ UNCHANGED <<entries, file, pc, work, exclusive, admin>>
        /\ blobs' \subseteq blobs
    BY DEF AdminDelete, db, local, fixed
  <2>2. Readable' = Readable \ L /\ L \subseteq entries /\ L \in SUBSET Entries
    BY <2>1 DEF Readable, IInv, TypeOK
  <2>3. Doomed' = Doomed
    BY <2>1 DEF Doomed
  <2>4. Contents!Lose(L)
    BY <2>1, <2>2, <2>3 DEF Contents!Lose, Contents!Losable
  <2> QED BY <2>2, <2>4 DEF Contents!Next
<1>13. CASE \E r \in Reqs : Fail(r)
  <2> PICK r \in Reqs : Fail(r)
    BY <1>13
  <2>1. /\ pc' = [pc EXCEPT ![r] = "idle"]
        /\ \A q \in Reqs \ {r} : work'[q] = work[q]
        /\ UNCHANGED <<entries, file, blobs, fixed>>
    BY DEF Fail, Done, db, IInv, TypeOK
  <2> QED BY <1>2, <2>1
<1>14. CASE UNCHANGED vars
  <2>1. UNCHANGED <<entries, file, blobs, pc, work, exclusive, admin>>
    BY <1>14 DEF vars, db, local, fixed
  <2>2. Readable' = Readable /\ Doomed' = Doomed
    BY <2>1 DEF Readable, Doomed
  <2> QED BY <2>1, <2>2 DEF Contents!vars
<1> QED
  <2>1. ASSUME NEW r \in Reqs, NEW f \in Files, NEW e \in Entries,
               Upload(r, f) \/ Put(r, f, e) \/ Migrate(r, f, e)
        PROVE  \E S \in SUBSET Entries, F \in SUBSET (Files \union {NoFile}) : WriteBlob(r, f, S, F)
    BY <2>1 DEF Upload, Put, Migrate, IInv, TypeOK
  <2>2. ASSUME NEW r \in Reqs, NEW f \in Files, Upload(r, f)
        PROVE  \E S \in SUBSET Entries, F \in SUBSET (Files \union {NoFile}) : WriteBlob(r, f, S, F)
    BY <2>2 DEF Upload
  <2> QED
    BY Zenon, <1>1, <1>3, <1>4, <1>5, <1>6, <1>7, <1>8, <1>9, <1>10, <1>11, <1>12, <1>13, <1>14,
       <2>1, <2>2 DEF Next

\* Reference counting implements the promise that every entry has a content of
\* its own, for requests that never overlap on one physical file, wherever they
\* fail.
THEOREM OwnContentsKept == Spec => OwnContents
<1>1. Init => IInv /\ NewStored
  BY IInvInit DEF Init, NewStored
<1>2. Init => Contents!Init
  BY DEF Init, Contents!Init, Readable, Doomed
<1>3. IInv /\ NewStored /\ [Next]_vars => IInv' /\ NewStored'
  BY IInvStep, NewStoredStep
<1>4. IInv /\ NewStored /\ [Next]_vars => [Contents!Next]_Contents!vars
  BY PromiseStep
<1> QED BY <1>1, <1>2, <1>3, <1>4, PTL DEF Spec, OwnContents, Contents!Spec
=============================================================================
