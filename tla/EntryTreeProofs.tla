--------------------------- MODULE EntryTreeProofs ---------------------------
(***************************************************************************)
(* The invariants of EntryTree, for every set of ids and names.            *)
(***************************************************************************)
EXTENDS EntryTree, FiniteSetTheorems, TLAPS

\* A restored entry lands in a folder: the root is one, what the trash
\* remembers as the original parent is one, and rows never change their kind.
OriginsAreFolders ==
    /\ kind[Root] = "folder"
    /\ \A o \in rows : origin[o] # NoId => kind[origin[o]] = "folder"

\* The inductive invariant of all requests.
Inv ==
    /\ TypeOK
    /\ DetachedExactly
    /\ ParentsAreFolders
    /\ OriginsAreFolders
    /\ SiblingNamesUnique

-----------------------------------------------------------------------------
(* The two walks *)

\* The walk down from o finds o, is closed under children, and stays inside
\* every other set that is.
LEMMA SubtreeClosed ==
    ASSUME NEW o \in rows
    PROVE  /\ Subtree(o) \subseteq rows
           /\ o \in Subtree(o)
           /\ \A x \in rows : parent[x] \in Subtree(o) => x \in Subtree(o)
           /\ \A S \in SUBSET rows : o \in S /\ ChildClosed(S) => Subtree(o) \subseteq S
    BY DEF Subtree, ChildClosed

\* The walk up from o likewise, for parents.
LEMMA AncestryClosed ==
    ASSUME NEW o \in rows
    PROVE  /\ Ancestry(o) \subseteq rows
           /\ o \in Ancestry(o)
           /\ \A x \in Ancestry(o) : parent[x] \in rows => parent[x] \in Ancestry(o)
           /\ \A S \in SUBSET rows : o \in S /\ ParentClosed(S) => Ancestry(o) \subseteq S
    BY DEF Ancestry, ParentClosed

\* Every row the walk down finds below o has its parent in the walk.
LEMMA SubtreeParents ==
    ASSUME NEW o \in rows, NEW x \in Subtree(o), x # o
    PROVE  parent[x] \in Subtree(o)
<1>1. SUFFICES ASSUME parent[x] \notin Subtree(o) PROVE FALSE
  OBVIOUS
<1> DEFINE S == Subtree(o) \ {x}
<1>2. S \in SUBSET rows /\ o \in S
  BY SubtreeClosed
<1>3. ChildClosed(S)
  <2> SUFFICES ASSUME NEW y \in rows, parent[y] \in S PROVE y \in S
    BY DEF ChildClosed
  <2>1. y \in Subtree(o)
    BY SubtreeClosed
  <2>2. y # x
    BY <1>1
  <2> QED BY <2>1, <2>2
<1> QED BY <1>2, <1>3, SubtreeClosed

\* A subtree whose top has no parent is closed upwards, too.
LEMMA DetachedSubtree ==
    ASSUME NEW o \in rows, parent[o] \notin rows
    PROVE  ParentClosed(Subtree(o))
    BY SubtreeParents DEF ParentClosed

\* What the user sees holds nothing that is marked as deleted, and neither do
\* the ancestors of anything the user sees.
LEMMA ShownIsLive ==
    ASSUME EntryConstants, TypeOK, DetachedExactly
    PROVE  /\ Shown \subseteq Live
           /\ \A d \in Shown : Ancestry(d) \subseteq Shown
<1>s. SUFFICES ASSUME Root \in RootRows, Shown = Subtree(Root) PROVE /\ Shown \subseteq Live
           /\ \A d \in Shown : Ancestry(d) \subseteq Shown
  BY DEF Shown
<1>0. Root \in rows /\ Root \in Live /\ parent[Root] = NoId /\ NoId \notin rows
  BY <1>s DEF EntryConstants, TypeOK, RootRows, Live
<1>1. ASSUME NEW x \in Shown PROVE x \in Live
  <2>1. x \in rows
    BY <1>0, <1>s, SubtreeClosed
  <2>2. CASE x = Root
    BY <2>2, <1>0
  <2>3. CASE x # Root
    <3>1. parent[x] \in rows
      BY <2>3, <1>0, <1>s, SubtreeParents, SubtreeClosed
    <3> QED BY <3>1, <2>1, <1>0 DEF DetachedExactly, Live
  <2> QED BY <2>2, <2>3
<1>2. ASSUME NEW d \in Shown PROVE Ancestry(d) \subseteq Shown
  <2>1. ParentClosed(Shown) /\ Shown \in SUBSET rows
    BY <1>0, <1>s, DetachedSubtree, SubtreeClosed
  <2> QED BY <2>1, AncestryClosed
<1> QED BY <1>1, <1>2

\* Nothing the user sees lies below a trashed top.
LEMMA TrashIsHidden ==
    ASSUME EntryConstants, TypeOK, DetachedExactly, NEW o \in trash
    PROVE  Subtree(o) \intersect Shown = {}
<1>s. SUFFICES ASSUME Root \in RootRows, Shown = Subtree(Root)
      PROVE  Subtree(o) \intersect Shown = {}
  BY DEF Shown
<1>0. /\ o \in rows /\ parent[o] = NoId /\ NoId \notin rows
      /\ Root \in rows /\ Root # o /\ parent[Root] = NoId
  BY <1>s DEF EntryConstants, TypeOK, DetachedExactly, RootRows, Live
<1> DEFINE S == rows \ Subtree(o)
<1>1. Root \in S
  BY <1>0, SubtreeParents, SubtreeClosed
<1>2. ChildClosed(S)
  <2> SUFFICES ASSUME NEW y \in rows, parent[y] \in S, y \in Subtree(o) PROVE FALSE
    BY DEF ChildClosed
  <2>1. CASE y = o
    BY <2>1, <1>0
  <2>2. CASE y # o
    BY <2>2, <1>0, SubtreeParents
  <2> QED BY <2>1, <2>2
<1>3. Shown \subseteq S
  BY <1>0, <1>1, <1>2, <1>s, SubtreeClosed
<1> QED BY <1>3
-----------------------------------------------------------------------------
(* The requests keep the invariant *)

\* Folders reachable as targets are rows.
LEMMA TargetsAreFolders == \A p \in Targets : p \in Live /\ p \in rows /\ kind[p] = "folder"
    BY DEF Targets, Live

\* The first root directory satisfies the invariant.
LEMMA InitInv == ASSUME EntryConstants, Init PROVE Inv
<1> USE DEF EntryConstants, Init
<1>1. RootName \in Name
  BY DEF RootName, Name
<1>2. TypeOK
  BY <1>1 DEF TypeOK, Kinds
<1>3. DetachedExactly /\ ParentsAreFolders /\ OriginsAreFolders /\ SiblingNamesUnique
  BY DEF DetachedExactly, ParentsAreFolders, OriginsAreFolders, SiblingNamesUnique, Live
<1> QED BY <1>2, <1>3 DEF Inv

\* A new row below a folder, under a free name, keeps it.
LEMMA InsertInv ==
    ASSUME EntryConstants, Inv, NEW o \in Ids, NEW k \in Kinds, NEW p \in rows,
           NEW n \in RequestNames, kind[p] = "folder", Insert(o, k, p, n)
    PROVE  Inv'
<1> USE DEF Inv, EntryConstants, Insert, FreshIds
<1>0. p # o /\ o # Root /\ o \notin rows
  OBVIOUS
<1>1. TypeOK'
  BY DEF TypeOK
<1>2. DetachedExactly'
  BY <1>0 DEF DetachedExactly, TypeOK
<1>3. ParentsAreFolders'
  BY <1>0 DEF ParentsAreFolders, TypeOK
<1>4. OriginsAreFolders'
  BY <1>0 DEF OriginsAreFolders, TypeOK
<1>5. SiblingNamesUnique'
  BY <1>0 DEF SiblingNamesUnique, TypeOK, NamesIn, Children, Live
<1> QED BY <1>1, <1>2, <1>3, <1>4, <1>5

\* Creating is such a step,
LEMMA CreateInv ==
    ASSUME EntryConstants, Inv, NEW o \in Ids, NEW k \in Kinds, NEW p \in rows,
           NEW n \in RequestNames, Create(o, k, p, n)
    PROVE  Inv'
    BY InsertInv, TargetsAreFolders DEF Create

\* and finishing an upload is, wherever its directory is by then.
LEMMA FinishUploadInv ==
    ASSUME EntryConstants, Inv, NEW o \in Ids, NEW p \in rows, NEW n \in RequestNames,
           FinishUpload(o, p, n)
    PROVE  Inv'
    BY InsertInv DEF FinishUpload, Kinds

\* Renaming keeps it: the new name is free in the directory.
LEMMA RenameInv ==
    ASSUME EntryConstants, Inv, NEW o \in rows, NEW n \in RequestNames, Rename(o, n)
    PROVE  Inv'
<1> USE DEF Inv, EntryConstants, Rename
<1>1. TypeOK'
  BY DEF TypeOK
<1>2. (DetachedExactly /\ ParentsAreFolders /\ OriginsAreFolders)'
  BY DEF DetachedExactly, ParentsAreFolders, OriginsAreFolders, Live
<1>3. SiblingNamesUnique'
  BY DEF SiblingNamesUnique, TypeOK, NamesIn, Children, Live
<1> QED BY <1>1, <1>2, <1>3

\* Moving keeps it: what moves has a name free in the target, and the names of
\* what moves differ.
LEMMA MoveInv ==
    ASSUME EntryConstants, Inv, NEW dst \in rows, Move(dst)
    PROVE  Inv'
<1> USE DEF Inv, EntryConstants
<1>0. PICK M \in SUBSET Accepted(dst) :
          /\ \A s, t \in M : name[s] = name[t] => s = t
          /\ parent' = [o \in Ids |-> IF o \in M THEN dst ELSE parent[o]]
          /\ UNCHANGED <<rows, kind, name, trash, origin, byPath>>
  BY DEF Move
<1>a. /\ dst \in Live /\ kind[dst] = "folder" /\ dst \in Ids /\ dst # NoId
      /\ \A s \in M : s \in Live /\ s \in Ids /\ parent[s] # NoId /\ name[s] \notin NamesIn(dst)
  BY TargetsAreFolders DEF Move, Accepted, Live, TypeOK
<1>1. TypeOK'
  BY <1>0, <1>a DEF TypeOK
<1>2. DetachedExactly'
  BY <1>0, <1>a DEF DetachedExactly, TypeOK, Live
<1>3. ParentsAreFolders'
  BY <1>0, <1>a DEF ParentsAreFolders, TypeOK
<1>4. OriginsAreFolders'
  BY <1>0 DEF OriginsAreFolders
<1>5. SiblingNamesUnique'
  BY <1>0, <1>a DEF SiblingNamesUnique, TypeOK, NamesIn, Children, Live
<1> QED BY <1>1, <1>2, <1>3, <1>4, <1>5

\* A WebDAV MOVE keeps it.
LEMMA RelocateInv ==
    ASSUME EntryConstants, Inv, NEW o \in rows, NEW dst \in rows, NEW n \in RequestNames,
           Relocate(o, dst, n)
    PROVE  Inv'
<1> USE DEF Inv, EntryConstants
<1>0. /\ dst \in Live /\ kind[dst] = "folder" /\ dst \in Ids /\ dst # NoId
      /\ o \in Live /\ o \in Ids /\ o # Root /\ n \in Name
      /\ n \notin {name[c] : c \in Children(dst) \ {o}}
      /\ parent' = [parent EXCEPT ![o] = dst]
      /\ name' = [name EXCEPT ![o] = n]
      /\ UNCHANGED <<rows, kind, trash, origin, byPath>>
  BY ShownIsLive DEF Relocate, TypeOK
<1>1. TypeOK'
  BY <1>0 DEF TypeOK
<1>2. DetachedExactly'
  BY <1>0 DEF DetachedExactly, TypeOK, Live
<1>3. ParentsAreFolders'
  BY <1>0 DEF ParentsAreFolders, TypeOK
<1>4. OriginsAreFolders'
  BY <1>0 DEF OriginsAreFolders
<1>5. SiblingNamesUnique'
  BY <1>0 DEF SiblingNamesUnique, TypeOK, Children, Live
<1> QED BY <1>1, <1>2, <1>3, <1>4, <1>5

\* Deleting to the trash keeps it: what is detached is marked, and the parent it
\* remembers was a folder.
LEMMA SoftDeleteInv ==
    ASSUME EntryConstants, Inv, NEW S \in SUBSET rows, SoftDelete(S)
    PROVE  Inv'
<1> USE DEF Inv, EntryConstants, SoftDelete
<1>1. TypeOK'
  BY DEF TypeOK, Live
<1>2. DetachedExactly'
  BY DEF DetachedExactly, TypeOK, Live
<1>3. ParentsAreFolders'
  BY DEF ParentsAreFolders, TypeOK
<1>4. OriginsAreFolders'
  BY DEF OriginsAreFolders, ParentsAreFolders, TypeOK
<1>5. SiblingNamesUnique'
  BY DEF SiblingNamesUnique, TypeOK, Live
<1> QED BY <1>1, <1>2, <1>3, <1>4, <1>5

\* A WebDAV DELETE keeps it, of the root as well.
LEMMA DavDeleteInv ==
    ASSUME EntryConstants, Inv, NEW o \in rows, DavDelete(o)
    PROVE  Inv'
<1> USE DEF Inv, EntryConstants, DavDelete
<1>0. o \in Ids /\ o \in Live /\ parent[o] \in rows \union {NoId}
  BY ShownIsLive DEF TypeOK
<1>1. TypeOK'
  BY <1>0 DEF TypeOK
<1>2. DetachedExactly'
  BY <1>0 DEF DetachedExactly, TypeOK
<1>3. ParentsAreFolders'
  BY <1>0 DEF ParentsAreFolders, TypeOK
<1>4. OriginsAreFolders'
  BY <1>0 DEF OriginsAreFolders, ParentsAreFolders, TypeOK
<1>5. SiblingNamesUnique'
  BY <1>0 DEF SiblingNamesUnique, TypeOK, Live
<1> QED BY <1>1, <1>2, <1>3, <1>4, <1>5

\* Resolving a name conflict gives a name that is free, and a name.
LEMMA FreeNamesAreFree ==
    ASSUME NEW n \in Name, NEW taken, NEW m \in FreeNames(n, taken), MaxCopies \in Nat,
           IsFiniteSet(taken)
    PROVE  m \in Name /\ m \notin taken
<1>1. CASE n \notin taken
  BY <1>1 DEF FreeNames
<1>2. CASE n \in taken
  <2>1. PICK k \in 1..Cardinality(taken) : m = Numbered(n, k) /\ m \notin taken
    BY <1>2 DEF FreeNames
  <2>2. k \in Nat
    OBVIOUS
  <2>3. Append(n.copies, k) \in Seq(Nat)
    BY <2>2 DEF Name
  <2> QED BY <2>1, <2>3 DEF Numbered, Name
<1> QED BY <1>1, <1>2

\* Restoring keeps it: the target is a folder, the name is made free.
LEMMA RestoreInv ==
    ASSUME EntryConstants, Inv, NEW o \in rows, Restore(o)
    PROVE  Inv'
<1> USE DEF Inv, EntryConstants
<1> DEFINE p == RestoreTarget(o)
<1>f. IsFiniteSet(NamesIn(p))
  <2>1. IsFiniteSet(Children(p))
    BY FS_Subset DEF Children, Live, TypeOK
  <2>2. [c \in Children(p) |-> name[c]] \in Surjection(Children(p), NamesIn(p))
    BY DEF Surjection, NamesIn
  <2> QED BY <2>1, <2>2, FS_Surjection
<1>0. PICK m \in FreeNames(name[o], NamesIn(p)) : name' = [name EXCEPT ![o] = m]
  BY DEF Restore
<1>a. /\ o \in trash /\ o # Root
      /\ p \in Live /\ p \in rows /\ p \in Ids /\ p # NoId /\ kind[p] = "folder"
  BY DEF Restore, RestoreTarget, RootRows, OriginsAreFolders, TypeOK, Live
<1>b. m \in Name /\ m \notin NamesIn(p)
  BY <1>0, <1>a, <1>f, FreeNamesAreFree DEF TypeOK
<1> HIDE DEF p
<1>c. /\ parent' = [parent EXCEPT ![o] = p]
      /\ trash' = trash \ {o}
      /\ origin' = [origin EXCEPT ![o] = NoId]
      /\ UNCHANGED <<rows, kind, byPath>>
  BY DEF Restore, p
<1>1. TypeOK'
  BY <1>0, <1>a, <1>b, <1>c DEF TypeOK
<1>2. DetachedExactly'
  BY <1>a, <1>c DEF DetachedExactly, TypeOK, Live
<1>3. ParentsAreFolders'
  BY <1>a, <1>c DEF ParentsAreFolders, TypeOK
<1>4. OriginsAreFolders'
  BY <1>c DEF OriginsAreFolders, TypeOK
<1>5. SiblingNamesUnique'
  BY <1>0, <1>a, <1>b, <1>c DEF SiblingNamesUnique, TypeOK, NamesIn, Children, Live
<1> QED BY <1>1, <1>2, <1>3, <1>4, <1>5

\* The rows of a copied subtree, seen through the fresh ids: src hangs below
\* dst, every other row below the copy of its own parent.
LEMMA DuplicateInv ==
    ASSUME EntryConstants, Inv, NEW src \in Live, NEW dst \in Live, Duplicate(src, dst),
           kind[dst] = "folder", parent[src] # NoId, name[src] \notin NamesIn(dst)
    PROVE  Inv'
<1> USE DEF Inv, EntryConstants
<1> DEFINE T == Subtree(src)
<1>0. PICK new \in [T -> FreshIds] :
          LET copies == {new[x] : x \in T}
              source(o) == CHOOSE x \in T : new[x] = o
          IN  /\ \A x, y \in T : new[x] = new[y] => x = y
              /\ rows' = rows \union copies
              /\ kind' = [o \in Ids |-> IF o \in copies THEN kind[source(o)] ELSE kind[o]]
              /\ name' = [o \in Ids |-> IF o \in copies THEN name[source(o)] ELSE name[o]]
              /\ parent' = [o \in Ids |->
                     IF o \notin copies THEN parent[o]
                     ELSE IF source(o) = src THEN dst
                     ELSE new[parent[source(o)]]]
              /\ origin' = [o \in Ids |-> IF o \in copies THEN NoId ELSE origin[o]]
  BY DEF Duplicate
<1> DEFINE copies == {new[x] : x \in T}
<1>a. /\ dst \in Live /\ kind[dst] = "folder" /\ dst \in Ids /\ dst # NoId
      /\ src \in Live /\ src \in Ids /\ parent[src] # NoId /\ name[src] \notin NamesIn(dst)
      /\ src \in rows /\ dst \in rows /\ UNCHANGED trash
  BY DEF Duplicate, Live, TypeOK
<1>b. /\ T \subseteq rows /\ src \in T
      /\ \A x \in T : x # src => parent[x] \in T
  BY <1>a, SubtreeClosed, SubtreeParents
<1>c. \A x \in T : x \in Live /\ x # Root /\ parent[x] # NoId
  BY <1>a, <1>b DEF DetachedExactly, Live, TypeOK
<1> HIDE DEF T
<1>d. \A x \in T : (CHOOSE y \in T : new[y] = new[x]) = x
  BY <1>0
<1>e. /\ rows' = rows \union copies
      /\ copies \subseteq Ids \ rows /\ Root \notin copies
      /\ \A x, y \in T : new[x] = new[y] => x = y
      /\ \A o \in Ids \ copies : /\ kind'[o] = kind[o] /\ name'[o] = name[o]
                                /\ parent'[o] = parent[o] /\ origin'[o] = origin[o]
      /\ \A x \in T : /\ kind'[new[x]] = kind[x] /\ name'[new[x]] = name[x]
                      /\ origin'[new[x]] = NoId
                      /\ parent'[new[x]] = IF x = src THEN dst ELSE new[parent[x]]
  BY <1>0, <1>d DEF FreshIds
<1>g. /\ DOMAIN kind' = Ids /\ DOMAIN name' = Ids /\ DOMAIN parent' = Ids /\ DOMAIN origin' = Ids
      /\ kind' = [o \in Ids |-> kind'[o]] /\ name' = [o \in Ids |-> name'[o]]
      /\ parent' = [o \in Ids |-> parent'[o]] /\ origin' = [o \in Ids |-> origin'[o]]
  BY <1>0
<1>1. TypeOK'
  <2>1. \A o \in Ids : kind'[o] \in Kinds /\ name'[o] \in Name
    BY <1>b, <1>e DEF TypeOK
  <2>2. \A o \in Ids : parent'[o] \in Ids \union {NoId} /\ origin'[o] \in Ids \union {NoId}
    BY <1>a, <1>b, <1>e DEF TypeOK
  <2>3. \A o \in rows' : parent'[o] \in rows' \union {NoId} /\ origin'[o] \in rows' \union {NoId}
    BY <1>a, <1>b, <1>e DEF TypeOK
  <2> QED BY <2>1, <2>2, <2>3, <1>a, <1>e, <1>g DEF TypeOK
<1>2. DetachedExactly'
  BY <1>a, <1>b, <1>e DEF DetachedExactly, TypeOK, Live
<1>3. ParentsAreFolders'
  <2>1. ASSUME NEW o \in rows PROVE parent'[o] # NoId => kind'[parent'[o]] = "folder"
    BY <2>1, <1>e DEF ParentsAreFolders, TypeOK
  <2>2. ASSUME NEW x \in T PROVE kind'[parent'[new[x]]] = "folder"
    <3>1. CASE x = src
      BY <3>1, <1>a, <1>e DEF TypeOK
    <3>2. CASE x # src
      <4>1. kind[parent[x]] = "folder"
        BY <1>b, <1>c DEF ParentsAreFolders
      <4> QED BY <3>2, <4>1, <1>b, <1>e
    <3> QED BY <3>1, <3>2
  <2> QED BY <2>1, <2>2, <1>e DEF ParentsAreFolders
<1>4. OriginsAreFolders'
  BY <1>e DEF OriginsAreFolders, TypeOK, DetachedExactly, Live
<1>5. SiblingNamesUnique'
  <2> SUFFICES ASSUME NEW s \in Live', NEW t \in Live', parent'[s] # NoId,
                      parent'[s] = parent'[t], name'[s] = name'[t]
               PROVE  s = t
    BY DEF SiblingNamesUnique
  <2>0. Live' = Live \union copies
    BY <1>a, <1>e DEF Live, TypeOK
  <2>1. \A o \in Live : parent'[o] = parent[o] /\ name'[o] = name[o] /\ o \notin copies
                       /\ (parent[o] # NoId => parent[o] \in rows)
    BY <1>e DEF Live, TypeOK
  <2>2. CASE s \in Live /\ t \in Live
    BY <2>1, <2>2 DEF SiblingNamesUnique
  <2>3. ASSUME NEW o \in Live, NEW x \in T, parent'[o] = parent'[new[x]], name'[o] = name'[new[x]],
               parent'[o] # NoId
        PROVE  FALSE
    <3>1. x = src
      BY <2>1, <2>3, <1>b, <1>e
    <3>2. parent[o] = dst /\ name[o] = name[src]
      BY <2>1, <2>3, <3>1, <1>e
    <3> QED BY <3>2, <1>a DEF NamesIn, Children
  <2>4. ASSUME NEW x \in T, NEW y \in T, parent'[new[x]] = parent'[new[y]], name'[new[x]] = name'[new[y]]
        PROVE  x = y
    <3>1. name[x] = name[y]
      BY <2>4, <1>e
    <3>2. CASE x = src \/ y = src
      BY <2>4, <3>2, <1>a, <1>b, <1>e
    <3>3. CASE x # src /\ y # src
      <4>1. parent[x] = parent[y]
        BY <2>4, <3>3, <1>b, <1>e
      <4> QED BY <3>1, <4>1, <1>c DEF SiblingNamesUnique
    <3> QED BY <3>2, <3>3
  <2> QED BY <2>0, <2>2, <2>3, <2>4
<1> QED BY <1>1, <1>2, <1>3, <1>4, <1>5

\* Copying is such a step,
LEMMA CopyInv ==
    ASSUME EntryConstants, Inv, NEW src \in rows, NEW dst \in rows, Copy(src, dst)
    PROVE  Inv'
    BY DuplicateInv, TargetsAreFolders DEF Copy, Accepted

\* and a WebDAV COPY is, where the unique index lets it through.
LEMMA DavCopyInv ==
    ASSUME EntryConstants, Inv, NEW src \in rows, NEW dst \in rows, DavCopy(src, dst)
    PROVE  Inv'
<1>1. src \in Live /\ dst \in Live /\ parent[src] # NoId
  BY ShownIsLive DEF DavCopy, Inv, DetachedExactly, Live
<1> QED BY <1>1, DuplicateInv DEF DavCopy

\* Deleting for good keeps it: no row is left below, or remembering, one that goes.
LEMMA PurgeInv ==
    ASSUME EntryConstants, Inv, NEW S \in SUBSET rows, Purge(S)
    PROVE  Inv'
<1> USE DEF Inv, EntryConstants
<1> DEFINE gone == UNION {Subtree(o) : o \in S}
<1>a. /\ S \subseteq trash
      /\ rows' = rows \ gone
      /\ trash' = trash \ gone
      /\ kind' = [o \in Ids |-> IF o \in gone THEN "folder" ELSE kind[o]]
      /\ name' = [o \in Ids |-> IF o \in gone THEN RootName ELSE name[o]]
      /\ parent' = [o \in Ids |-> IF o \in gone THEN NoId ELSE parent[o]]
      /\ origin' = [o \in Ids |->
             IF o \in gone \/ origin[o] \in gone THEN NoId ELSE origin[o]]
  BY DEF Purge
<1>c. \A o \in rows : parent[o] \in gone => o \in gone
  BY SubtreeClosed
<1>d. RootName \in Name
  BY DEF RootName, Name
<1> HIDE DEF gone
<1>1. TypeOK'
  BY <1>a, <1>c, <1>d DEF TypeOK, Kinds
<1>2. DetachedExactly'
  BY <1>a DEF DetachedExactly, TypeOK
<1>3. ParentsAreFolders'
  BY <1>a, <1>c DEF ParentsAreFolders, TypeOK
<1>4. OriginsAreFolders'
  BY <1>a DEF OriginsAreFolders, TypeOK
<1>5. SiblingNamesUnique'
  BY <1>a DEF SiblingNamesUnique, TypeOK, Live
<1> QED BY <1>1, <1>2, <1>3, <1>4, <1>5

\* Every request keeps it.
LEMMA StepInv == ASSUME EntryConstants, Inv, [Next]_vars PROVE Inv'
<1>1. ASSUME NEW o \in Ids, NEW k \in Kinds, NEW p \in rows, NEW n \in RequestNames, Create(o, k, p, n)
      PROVE  Inv'
  BY <1>1, CreateInv
<1>2. ASSUME NEW o \in rows, NEW n \in RequestNames, Rename(o, n) PROVE Inv'
  BY <1>2, RenameInv
<1>3. ASSUME NEW dst \in rows, Move(dst) PROVE Inv'
  BY <1>3, MoveInv
<1>4. ASSUME NEW src \in rows, NEW dst \in rows, Copy(src, dst) PROVE Inv'
  BY <1>4, CopyInv
<1>5. ASSUME NEW S \in SUBSET rows, SoftDelete(S) PROVE Inv'
  BY <1>5, SoftDeleteInv
<1>6. ASSUME NEW o \in rows, Restore(o) PROVE Inv'
  BY <1>6, RestoreInv
<1>7. ASSUME NEW S \in SUBSET rows, Purge(S) PROVE Inv'
  BY <1>7, PurgeInv
<1>8. ASSUME NEW o \in rows, NEW dst \in rows, NEW n \in RequestNames, Relocate(o, dst, n)
      PROVE  Inv'
  BY <1>8, RelocateInv
<1>9. ASSUME NEW o \in Ids, NEW p \in rows, NEW n \in RequestNames, FinishUpload(o, p, n)
      PROVE  Inv'
  BY <1>9, FinishUploadInv
<1>10. ASSUME NEW src \in rows, NEW dst \in rows, DavCopy(src, dst) PROVE Inv'
  BY <1>10, DavCopyInv
<1>11. ASSUME NEW o \in rows, DavDelete(o) PROVE Inv'
  BY <1>11, DavDeleteInv
<1>12. CASE UNCHANGED vars
  BY <1>12 DEF vars, Inv, TypeOK, DetachedExactly, ParentsAreFolders, OriginsAreFolders,
               SiblingNamesUnique, Live
<1> QED BY <1>1, <1>2, <1>3, <1>4, <1>5, <1>6, <1>7, <1>8, <1>9, <1>10, <1>11, <1>12 DEF Next

\* The columns keep their types and foreign keys resolve, whatever is requested.
THEOREM TypeCorrect == Spec => []TypeOK
<1>1. Init => Inv
  BY EntryConstants, InitInv
<1>2. Inv /\ [Next]_vars => Inv'
  BY EntryConstants, StepInv
<1>3. Inv => TypeOK
  BY DEF Inv
<1> QED BY <1>1, <1>2, <1>3, PTL DEF Spec

\* The rows without a parent stay the root, trashed or not, and the trashed tops,
\* those below a parent stay below a folder, and no two live siblings come to share
\* a name: through REST by the handlers' own checks, through WebDAV and the late
\* insert of an upload by the unique index.
THEOREM TreeSafe == Spec => [](DetachedExactly /\ ParentsAreFolders /\ SiblingNamesUnique)
<1>1. Init => Inv
  BY EntryConstants, InitInv
<1>2. Inv /\ [Next]_vars => Inv'
  BY EntryConstants, StepInv
<1>3. Inv => DetachedExactly /\ ParentsAreFolders /\ SiblingNamesUnique
  BY DEF Inv
<1> QED BY <1>1, <1>2, <1>3, PTL DEF Spec

\* A row lies outside the tree exactly when it is the root or was trashed on its
\* own: no request loses a subtree, none leaves a trashed top in its folder, and
\* whatever becomes of the root no other row takes its place in get_root.
THEOREM DetachedRows == Spec => []DetachedExactly
  BY TreeSafe, PTL

\* Whatever is moved, copied, restored or created ends below a folder, never
\* below a file.
THEOREM FoldersOnly == Spec => []ParentsAreFolders
  BY TreeSafe, PTL

-----------------------------------------------------------------------------
(* Permanent deletion spares what is visible *)

\* No request removes a row the user sees.
LEMMA StepSparesShown == ASSUME EntryConstants, Inv, [Next]_vars PROVE Shown \subseteq rows'
<1>0. Shown \subseteq rows
  BY ShownIsLive DEF Inv, Live
<1>1. ASSUME NEW S \in SUBSET rows, Purge(S) PROVE Shown \subseteq rows'
  <2>1. \A o \in S : Subtree(o) \intersect Shown = {}
    BY <1>1, TrashIsHidden DEF Purge, Inv
  <2>2. rows' = rows \ UNION {Subtree(o) : o \in S}
    BY <1>1 DEF Purge
  <2> QED BY <1>0, <2>1, <2>2
<1>2. CASE ~(\E S \in SUBSET rows : Purge(S))
  <2>1. rows \subseteq rows'
    BY <1>2 DEF Next, vars, Create, FinishUpload, Insert, Rename, Move, Relocate, Copy,
                DavCopy, Duplicate, SoftDelete, DavDelete, Restore
  <2> QED BY <1>0, <2>1
<1> QED BY <1>1, <1>2

\* No step destroys an entry that is reachable from the root, the cascade below
\* a trashed folder included.
THEOREM PurgeIsConfined == Spec => VisibleSurvives
<1>1. Init => Inv
  BY EntryConstants, InitInv
<1>2. Inv /\ [Next]_vars => Inv'
  BY EntryConstants, StepInv
<1>3. Inv /\ [Next]_vars => [Shown \subseteq rows']_vars
  BY EntryConstants, StepSparesShown
<1> QED BY <1>1, <1>2, <1>3, PTL DEF Spec, VisibleSurvives

-----------------------------------------------------------------------------
(* No cycles for clients that work on what they see *)

\* The tree together with the trash's memory of it.
AcyclicInv == Inv /\ (byPath => UpAcyclic)

\* Hanging rows below a target that has none of them among its ancestors keeps
\* the graph acyclic.
LEMMA HangAcyclic ==
    ASSUME EntryConstants, Inv, UpAcyclic, NEW dst \in Shown,
           NEW M \in SUBSET (Live \ Ancestry(dst)),
           parent' = [o \in Ids |-> IF o \in M THEN dst ELSE parent[o]],
           UNCHANGED <<rows, trash, origin>>
    PROVE  UpAcyclic'
<1> USE DEF Inv, EntryConstants
<1> DEFINE T == Ancestry(dst)
<1>1. /\ dst \in T /\ T \subseteq Live /\ T \intersect M = {}
      /\ \A x \in T : parent[x] \in rows => parent[x] \in T
  BY ShownIsLive, AncestryClosed DEF Live
<1> HIDE DEF T
<1>3. \A o \in rows : Up(o)' = IF o \in M THEN dst ELSE Up(o)
  BY DEF Up, Live, TypeOK
<1> SUFFICES ASSUME NEW S \in SUBSET rows, S # {}, \A o \in S : Up(o)' \in S PROVE FALSE
  BY DEF UpAcyclic
<1>4. CASE S \intersect M = {}
  BY <1>3, <1>4 DEF UpAcyclic
<1>5. CASE S \intersect M # {}
  <2>1. dst \in S \intersect T
    BY <1>1, <1>3, <1>5
  <2>2. PICK o \in S \intersect T : Up(o) \notin S \intersect T
    BY <2>1 DEF UpAcyclic
  <2>3. Up(o) \in S /\ Up(o) = parent[o]
    BY <1>1, <1>3, <2>2 DEF Up, Live
  <2> QED BY <1>1, <2>2, <2>3
<1> QED BY <1>4, <1>5

\* Moving is such a step,
LEMMA MoveAcyclic ==
    ASSUME EntryConstants, Inv, byPath, UpAcyclic, NEW dst \in rows, Move(dst)
    PROVE  UpAcyclic'
<1>1. dst \in Shown
  BY DEF Move, Targets
<1>2. PICK M \in SUBSET Accepted(dst) :
          /\ parent' = [o \in Ids |-> IF o \in M THEN dst ELSE parent[o]]
          /\ UNCHANGED <<rows, trash, origin>>
  BY DEF Move
<1>3. M \in SUBSET (Live \ Ancestry(dst))
  BY DEF Accepted
<1> QED BY <1>1, <1>2, <1>3, HangAcyclic

\* and a WebDAV MOVE is.
LEMMA RelocateAcyclic ==
    ASSUME EntryConstants, Inv, UpAcyclic, NEW o \in rows, NEW dst \in rows,
           NEW n \in RequestNames, Relocate(o, dst, n)
    PROVE  UpAcyclic'
<1>1. dst \in Shown /\ {o} \in SUBSET (Live \ Ancestry(dst))
  BY ShownIsLive DEF Relocate, Inv
<1>2. parent' = [x \in Ids |-> IF x \in {o} THEN dst ELSE parent[x]]
  BY DEF Relocate, Inv, TypeOK
<1>3. UNCHANGED <<rows, trash, origin>>
  BY DEF Relocate
<1> QED BY <1>1, <1>2, <1>3, HangAcyclic

\* A cycle among the copies would be one among the originals.
LEMMA DuplicateAcyclic ==
    ASSUME EntryConstants, Inv, UpAcyclic, NEW src \in Live, NEW dst \in rows, Duplicate(src, dst),
           parent[src] # NoId
    PROVE  UpAcyclic'
<1> USE DEF Inv, EntryConstants
<1> DEFINE T == Subtree(src)
<1>0. PICK new \in [T -> FreshIds] :
          LET copies == {new[x] : x \in T}
              source(o) == CHOOSE x \in T : new[x] = o
          IN  /\ \A x, y \in T : new[x] = new[y] => x = y
              /\ rows' = rows \union copies
              /\ parent' = [o \in Ids |->
                     IF o \notin copies THEN parent[o]
                     ELSE IF source(o) = src THEN dst
                     ELSE new[parent[source(o)]]]
              /\ origin' = [o \in Ids |-> IF o \in copies THEN NoId ELSE origin[o]]
  BY DEF Duplicate
<1> DEFINE copies == {new[x] : x \in T}
<1>a. src \in rows /\ src \in Live /\ parent[src] # NoId /\ UNCHANGED trash
  BY DEF Duplicate, Live
<1>b. /\ T \subseteq rows /\ src \in T
      /\ \A x \in T : x # src => parent[x] \in T
  BY <1>a, SubtreeClosed, SubtreeParents
<1>c. \A x \in T : x \in Live
  BY <1>a, <1>b DEF DetachedExactly, Live, TypeOK
<1> HIDE DEF T
<1>d. \A x \in T : (CHOOSE y \in T : new[y] = new[x]) = x
  BY <1>0
<1>e. /\ \A o \in rows : Up(o)' = Up(o) /\ (Up(o) \in rows \/ Up(o) = NoId)
      /\ \A x \in T : Up(new[x])' = IF x = src THEN dst ELSE new[parent[x]]
      /\ copies \intersect rows = {}
  BY <1>0, <1>a, <1>d DEF Up, TypeOK, FreshIds
<1> SUFFICES ASSUME NEW S \in SUBSET rows', S # {}, \A o \in S : Up(o)' \in S PROVE FALSE
  BY DEF UpAcyclic
<1>1. CASE S \intersect rows # {}
  <2>1. PICK o \in S \intersect rows : Up(o) \notin S \intersect rows
    BY <1>1 DEF UpAcyclic
  <2>2. Up(o) = NoId /\ NoId \in S
    BY <1>e, <2>1
  <2> QED BY <2>2, <1>0, <1>e DEF TypeOK, FreshIds
<1>2. CASE S \intersect rows = {}
  <2> DEFINE W == {x \in T : new[x] \in S}
  <2>1. W # {} /\ W \in SUBSET rows
    BY <1>0, <1>2, <1>b
  <2>2. PICK x \in W : Up(x) \notin W
    BY <2>1 DEF UpAcyclic
  <2>3. CASE x = src
    BY <2>2, <2>3, <1>2, <1>e
  <2>4. CASE x # src
    <3>1. new[parent[x]] \in S /\ parent[x] \in T
      BY <2>2, <2>4, <1>b, <1>e
    <3> QED BY <3>1, <2>2, <1>c DEF Up, Live
  <2> QED BY <2>3, <2>4
<1> QED BY <1>1, <1>2

\* A new row closes no cycle: nothing hangs below it.
LEMMA InsertAcyclic ==
    ASSUME EntryConstants, Inv, UpAcyclic, NEW o \in Ids, NEW k \in Kinds, NEW p \in rows,
           NEW n \in RequestNames, Insert(o, k, p, n)
    PROVE  UpAcyclic'
<1> USE DEF Inv, EntryConstants
<1>1. /\ \A x \in rows : Up(x)' = Up(x) /\ (Up(x) \in rows \/ Up(x) = NoId)
      /\ Up(o)' = p /\ o # p /\ o \notin rows /\ NoId # o
      /\ rows' = rows \union {o}
  BY DEF Insert, FreshIds, Up, TypeOK
<1> SUFFICES ASSUME NEW S \in SUBSET rows', S # {}, \A x \in S : Up(x)' \in S PROVE FALSE
  BY DEF UpAcyclic
<1>2. S \ {o} # {} /\ S \ {o} \in SUBSET rows
  BY <1>1
<1>3. PICK x \in S \ {o} : Up(x) \notin S \ {o}
  BY <1>2 DEF UpAcyclic
<1> QED BY <1>1, <1>3

\* Deleting turns parent into original parent, restoring turns it back or
\* attaches to the root, and neither adds an edge of its own.
LEMMA RestoreAcyclic ==
    ASSUME EntryConstants, Inv, UpAcyclic, NEW o \in rows, Restore(o)
    PROVE  UpAcyclic'
<1> USE DEF Inv, EntryConstants
<1>1. /\ \A x \in rows : x # o => Up(x)' = Up(x)
      /\ Up(o)' = RestoreTarget(o)
      /\ UNCHANGED rows
      /\ o \in trash /\ o # Root /\ Root \in rows /\ Up(Root) = NoId /\ NoId \notin rows
  BY DEF Restore, Up, TypeOK, RootRows, Live
<1> SUFFICES ASSUME NEW S \in SUBSET rows, S # {}, \A x \in S : Up(x)' \in S PROVE FALSE
  BY <1>1 DEF UpAcyclic
<1>2. PICK x \in S : Up(x) \notin S
  BY DEF UpAcyclic
<1>3. x = o
  BY <1>1, <1>2
<1>4. CASE RestoreTarget(o) = Root
  BY <1>1, <1>3, <1>4
<1>5. CASE RestoreTarget(o) = origin[o]
  BY <1>1, <1>2, <1>3, <1>5 DEF Up
<1> QED BY <1>4, <1>5 DEF RestoreTarget

\* Every request keeps the tree and the trash's memory of it acyclic.
LEMMA StepAcyclic ==
    ASSUME EntryConstants, Inv, byPath => UpAcyclic, [Next]_vars
    PROVE  (byPath => UpAcyclic)'
<1> USE DEF Inv, EntryConstants
<1>0. byPath' = byPath
  BY DEF Next, vars, Create, FinishUpload, Insert, Rename, Move, Relocate, Copy, DavCopy,
         Duplicate, SoftDelete, DavDelete, Restore, Purge
<1> SUFFICES ASSUME byPath, UpAcyclic PROVE UpAcyclic'
  BY <1>0
<1>1. ASSUME NEW o \in Ids, NEW k \in Kinds, NEW p \in rows, NEW n \in RequestNames, Create(o, k, p, n)
      PROVE  UpAcyclic'
  BY <1>1, InsertAcyclic DEF Create
<1>2. ASSUME NEW o \in rows, NEW n \in RequestNames, Rename(o, n) PROVE UpAcyclic'
  BY <1>2 DEF Rename, UpAcyclic, Up
<1>3. ASSUME NEW dst \in rows, Move(dst) PROVE UpAcyclic'
  BY <1>3, MoveAcyclic
<1>4. ASSUME NEW src \in rows, NEW dst \in rows, Copy(src, dst) PROVE UpAcyclic'
  BY <1>4, DuplicateAcyclic DEF Copy, Accepted
<1>5. ASSUME NEW S \in SUBSET rows, SoftDelete(S) PROVE UpAcyclic'
  <2>1. (\A x \in rows : Up(x)' = Up(x)) /\ UNCHANGED rows
    BY <1>5 DEF SoftDelete, Up, TypeOK, Live
  <2> QED BY <2>1 DEF UpAcyclic
<1>6. ASSUME NEW o \in rows, Restore(o) PROVE UpAcyclic'
  BY <1>6, RestoreAcyclic
<1>7. ASSUME NEW S \in SUBSET rows, Purge(S) PROVE UpAcyclic'
  <2>1. /\ \A x \in rows' : Up(x)' = Up(x) \/ Up(x)' = NoId
        /\ rows' \subseteq rows /\ NoId \notin rows
    BY <1>7 DEF Purge, Up, TypeOK
  <2> QED BY <2>1 DEF UpAcyclic
<1>8. ASSUME NEW o \in rows, NEW dst \in rows, NEW n \in RequestNames, Relocate(o, dst, n)
      PROVE  UpAcyclic'
  BY <1>8, RelocateAcyclic
<1>9. ASSUME NEW o \in Ids, NEW p \in rows, NEW n \in RequestNames, FinishUpload(o, p, n)
      PROVE  UpAcyclic'
  BY <1>9, InsertAcyclic DEF FinishUpload, Kinds
<1>10. ASSUME NEW src \in rows, NEW dst \in rows, DavCopy(src, dst) PROVE UpAcyclic'
  <2>1. src \in Live /\ parent[src] # NoId
    BY <1>10, ShownIsLive DEF DavCopy, DetachedExactly, Live
  <2> QED BY <1>10, <2>1, DuplicateAcyclic DEF DavCopy
<1>11. ASSUME NEW o \in rows, DavDelete(o) PROVE UpAcyclic'
  <2>1. o \in Live /\ o \in Ids
    BY <1>11, ShownIsLive DEF DavDelete, TypeOK
  <2>2. (\A x \in rows : Up(x)' = Up(x)) /\ UNCHANGED rows
    BY <1>11, <2>1 DEF DavDelete, Up, TypeOK, Live
  <2> QED BY <2>2 DEF UpAcyclic
<1>12. CASE UNCHANGED vars
  BY <1>12 DEF vars, UpAcyclic, Up
<1> QED BY <1>1, <1>2, <1>3, <1>4, <1>5, <1>6, <1>7, <1>8, <1>9, <1>10, <1>11, <1>12 DEF Next

\* Whatever is deleted, restored, moved and copied, in any order: as long as
\* targets are directories reached from the root, parent_id stays acyclic.
THEOREM NoCyclesByPath == Spec => []AcyclicByPath
<1>1. Init => AcyclicInv
  <2>1. ASSUME Init PROVE UpAcyclic
    BY <2>1, EntryConstants DEF Init, UpAcyclic, Up, EntryConstants
  <2> QED BY <2>1, EntryConstants, InitInv DEF AcyclicInv
<1>2. AcyclicInv /\ [Next]_vars => AcyclicInv'
  BY EntryConstants, StepInv, StepAcyclic DEF AcyclicInv
<1>3. AcyclicInv => AcyclicByPath
  <2> SUFFICES ASSUME Inv, UpAcyclic, NEW S \in SUBSET rows, S # {}
               PROVE  \E o \in S : parent[o] \notin S
    BY DEF AcyclicInv, AcyclicByPath, Acyclic
  <2>1. CASE S \intersect trash = {}
    BY <2>1 DEF UpAcyclic, Up
  <2>2. CASE S \intersect trash # {}
    BY <2>2, EntryConstants DEF Inv, DetachedExactly, TypeOK, EntryConstants
  <2> QED BY <2>1, <2>2
<1> QED BY <1>1, <1>2, <1>3, PTL DEF Spec

-----------------------------------------------------------------------------
(* Paths *)

\* What makes f the paths of o and the rows above it.
PathsUpFrom(o, f) ==
    f = [x \in Ancestry(o) |-> IF parent[x] = NoId THEN <<>> ELSE Append(f[parent[x]], name[x])]

\* What makes f the rows that the first segments of a path reach.
ReachedBy(path, f) ==
    f = [i \in 0..Len(path) |->
            IF i = 0 THEN RootRows
            ELSE {c \in Live : parent[c] \in f[i - 1] /\ name[c] = path[i]}]

\* Once there are such paths, FullPath is of them.
LEMMA FullPathIs ==
    ASSUME NEW o, \E f : PathsUpFrom(o, f)
    PROVE  \E f : PathsUpFrom(o, f) /\ FullPath(o) = f[o]
  <1>1. PICK g : g = CHOOSE f : f = [x \in Ancestry(o) |-> IF parent[x] = NoId THEN <<>> ELSE Append(f[parent[x]], name[x])]
    OBVIOUS
  <1>2. PathsUpFrom(o, g)
    BY <1>1 DEF PathsUpFrom
  <1>3. FullPath(o) = g[o]
    BY <1>1 DEF FullPath
  <1> QED
    BY <1>2, <1>3

\* And once there are such rows, ByPath gives the last.
LEMMA ByPathIs ==
    ASSUME NEW path, \E f : ReachedBy(path, f)
    PROVE  \E f : ReachedBy(path, f) /\ ByPath(path) = f[Len(path)]
  <1>1. PICK g : g = CHOOSE f : f = [i \in 0..Len(path) |->
            IF i = 0 THEN RootRows
            ELSE {c \in Live : parent[c] \in f[i - 1] /\ name[c] = path[i]}]
    OBVIOUS
  <1>2. ReachedBy(path, g)
    BY <1>1 DEF ReachedBy
  <1>3. ByPath(path) = g[Len(path)]
    BY <1>1 DEF ByPath
  <1> QED
    BY <1>2, <1>3

\* What is shown as long as get_root finds the root: the root, and what hangs below
\* something shown.
LEMMA ShownShape ==
    ASSUME EntryConstants, Inv, Root \in RootRows
    PROVE  /\ Root \in Shown /\ Shown \subseteq Live /\ Shown \subseteq rows
           /\ parent[Root] = NoId /\ NoId \notin rows /\ RootRows = {Root}
           /\ \A c \in Shown \ {Root} : parent[c] \in Shown
           /\ \A c \in Shown : c # Root => parent[c] # NoId
           /\ \A d \in Shown : Ancestry(d) \subseteq Shown
  <1>0. /\ Root \in rows /\ Root \in Live /\ parent[Root] = NoId /\ NoId \notin rows
        /\ Shown = Subtree(Root)
    BY DEF EntryConstants, Inv, TypeOK, RootRows, Live, Shown
  <1>1. Shown \subseteq Live /\ \A d \in Shown : Ancestry(d) \subseteq Shown
    BY ShownIsLive DEF Inv
  <1>2. Root \in Shown /\ \A c \in Shown \ {Root} : parent[c] \in Shown
    BY <1>0, SubtreeClosed, SubtreeParents
  <1>3. RootRows = {Root}
    BY <1>0 DEF RootRows, Live, Inv, DetachedExactly
  <1>4. Shown \subseteq rows
    BY <1>1 DEF Live
  <1>5. \A c \in Shown : c # Root => parent[c] # NoId
    BY <1>0, <1>2, <1>4
  <1> QED
    BY <1>0, <1>1, <1>2, <1>3, <1>4, <1>5

\* What the root has, and a child has when its parent does, all that is shown has.
LEMMA ShownInduction ==
    ASSUME EntryConstants, Inv, Root \in RootRows, NEW S, Root \in S, \A c \in Shown \ {Root} : parent[c] \in S => c \in S
    PROVE  Shown \subseteq S
  <1> DEFINE T == Shown \intersect S
  <1>1. T \in SUBSET rows /\ Root \in T
    BY ShownShape
  <1>2. ChildClosed(T)
    <2> SUFFICES ASSUME NEW x \in rows, parent[x] \in T PROVE x \in T
      BY DEF ChildClosed
    <2>1. Root \in rows
      BY ShownShape
    <2>2. x \in Shown
      BY <2>1, SubtreeClosed DEF Shown
    <2>3. x # Root
      BY ShownShape
    <2> QED
      BY <2>2, <2>3
  <1>3. Root \in rows
    BY ShownShape
  <1>4. Subtree(Root) \subseteq T
    BY <1>1, <1>2, <1>3, SubtreeClosed
  <1> QED
    BY <1>4 DEF Shown

\* Above a row that is shown there is its parent and what is above that.
LEMMA AncestryOfChild ==
    ASSUME EntryConstants, Inv, Root \in RootRows
    PROVE  /\ Ancestry(Root) = {Root}
           /\ \A c \in Shown \ {Root} : Ancestry(c) = Ancestry(parent[c]) \union {c}
  <1>1. Ancestry(Root) = {Root}
    <2>1. Root \in rows /\ ParentClosed({Root})
      BY ShownShape DEF ParentClosed
    <2> QED
      BY <2>1, AncestryClosed
  <1>2. ASSUME NEW c \in Shown \ {Root} PROVE Ancestry(c) = Ancestry(parent[c]) \union {c}
    <2>1. PICK p \in rows : p = parent[c]
      BY ShownShape
    <2>2. c \in rows
      BY ShownShape
    <2>3. Ancestry(c) \subseteq Ancestry(p) \union {c}
      <3>1. ParentClosed(Ancestry(p) \union {c})
        BY <2>1, AncestryClosed DEF ParentClosed
      <3>2. Ancestry(p) \union {c} \in SUBSET rows
        BY <2>1, <2>2, AncestryClosed
      <3> QED
        BY <2>2, <3>1, <3>2, AncestryClosed
    <2>4. Ancestry(p) \subseteq Ancestry(c)
      <3>1. ParentClosed(Ancestry(c)) /\ Ancestry(c) \in SUBSET rows /\ c \in Ancestry(c)
        BY <2>2, AncestryClosed DEF ParentClosed
      <3>2. p \in Ancestry(c)
        BY <2>1, <3>1 DEF ParentClosed
      <3> QED
        BY <2>1, <3>1, <3>2, AncestryClosed
    <2> QED
      BY <2>1, <2>2, <2>3, <2>4, AncestryClosed
  <1> QED
    BY <1>1, <1>2

\* No row that is shown is above its own parent.
LEMMA ShownAcyclic ==
    ASSUME EntryConstants, Inv, Root \in RootRows, NEW c \in Shown \ {Root}
    PROVE  c \notin Ancestry(parent[c])
  <1> SUFFICES ASSUME c \in Ancestry(parent[c]) PROVE FALSE
    OBVIOUS
  <1> DEFINE S == {d \in Shown : c \notin Ancestry(d)}
  <1>1. Root \in S
    BY ShownShape, AncestryOfChild
  <1>2. ASSUME NEW d \in Shown \ {Root}, parent[d] \in S PROVE d \in S
    BY <1>2, AncestryOfChild
  <1>3. Shown \subseteq S
    BY <1>1, <1>2, ShownInduction
  <1>4. parent[c] \in Shown
    BY ShownShape
  <1> QED
    BY <1>3, <1>4

\* Every row that is shown has a path.
LEMMA PathsExist ==
    ASSUME EntryConstants, Inv, Root \in RootRows, NEW o \in Shown
    PROVE  \E f : PathsUpFrom(o, f)
  <1> DEFINE S == {d \in Shown : \E f : PathsUpFrom(d, f)}
  <1>1. Root \in S
    <2>1. PICK f : f = [x \in Ancestry(Root) |-> <<>>]
      OBVIOUS
    <2>2. PathsUpFrom(Root, f)
      BY <2>1, ShownShape, AncestryOfChild DEF PathsUpFrom
    <2> QED
      BY <2>2, ShownShape
  <1>2. ASSUME NEW c \in Shown \ {Root}, parent[c] \in S PROVE c \in S
    <2>1. PICK p, f : p = parent[c] /\ PathsUpFrom(p, f) /\ p \in Shown
      BY <1>2
    <2>2. PICK g : g = [x \in Ancestry(c) |-> IF x = c THEN Append(f[p], name[c]) ELSE f[x]]
      OBVIOUS
    <2>3. Ancestry(c) = Ancestry(p) \union {c} /\ c \notin Ancestry(p) /\ p \in Ancestry(p) /\ p \in rows
      BY <2>1, AncestryOfChild, ShownAcyclic, AncestryClosed, ShownShape
    <2>4. \A x \in Ancestry(p) : f[x] = IF parent[x] = NoId THEN <<>> ELSE Append(f[parent[x]], name[x])
      BY <2>1 DEF PathsUpFrom
    <2>5. \A x \in Ancestry(p) : parent[x] # NoId => parent[x] \in Ancestry(p)
      BY <2>1, <2>3, AncestryClosed DEF Inv, TypeOK
    <2>6. \A x \in Ancestry(c) : g[x] = IF parent[x] = NoId THEN <<>> ELSE Append(g[parent[x]], name[x])
      <3>1. parent[c] # NoId /\ g[c] = Append(f[p], name[c]) /\ g[p] = f[p]
        BY <2>1, <2>2, <2>3, ShownShape
      <3>2. \A x \in Ancestry(p) : g[x] = f[x]
        BY <2>2, <2>3
      <3> QED
        BY <2>1, <2>3, <2>4, <2>5, <3>1, <3>2
    <2>7. PathsUpFrom(c, g)
      BY <2>2, <2>6 DEF PathsUpFrom
    <2> QED
      BY <2>7
  <1>3. Shown \subseteq S
    BY <1>1, <1>2, ShownInduction
  <1> QED
    BY <1>3

\* The path of the root is empty, and that of a child is its parent's and its name.
LEMMA PathOfChild ==
    ASSUME EntryConstants, Inv, Root \in RootRows
    PROVE  /\ FullPath(Root) = <<>>
           /\ \A c \in Shown \ {Root} : FullPath(c) = Append(FullPath(parent[c]), name[c])
  <1>1. FullPath(Root) = <<>>
    <2>1. PICK f : PathsUpFrom(Root, f) /\ FullPath(Root) = f[Root]
      BY ShownShape, PathsExist, FullPathIs
    <2> QED
      BY <2>1, ShownShape, AncestryOfChild DEF PathsUpFrom
  <1>2. ASSUME NEW c \in Shown \ {Root} PROVE FullPath(c) = Append(FullPath(parent[c]), name[c])
    <2>1. PICK p \in Shown : p = parent[c]
      BY ShownShape
    <2>2. PICK f : PathsUpFrom(c, f) /\ FullPath(c) = f[c]
      BY PathsExist, FullPathIs
    <2>3. PICK g : PathsUpFrom(p, g) /\ FullPath(p) = g[p]
      BY PathsExist, FullPathIs
    <2>4. Ancestry(c) = Ancestry(p) \union {c} /\ p \in Ancestry(p) /\ p \in rows
      BY <2>1, AncestryOfChild, AncestryClosed, ShownShape
    <2> DEFINE S == {x \in Shown : x \in Ancestry(p) => f[x] = g[x]}
    <2>5. \A x \in Ancestry(p) :
             /\ f[x] = IF parent[x] = NoId THEN <<>> ELSE Append(f[parent[x]], name[x])
             /\ g[x] = IF parent[x] = NoId THEN <<>> ELSE Append(g[parent[x]], name[x])
      BY <2>2, <2>3, <2>4 DEF PathsUpFrom
    <2>6. Root \in S
      BY <2>5, ShownShape
    <2>7. ASSUME NEW d \in Shown \ {Root}, parent[d] \in S PROVE d \in S
      <3> SUFFICES ASSUME d \in Ancestry(p) PROVE f[d] = g[d]
        OBVIOUS
      <3>1. parent[d] \in Ancestry(p)
        BY <2>4, ShownShape, AncestryClosed
      <3> QED
        BY <2>5, <2>7, <3>1
    <2>8. Shown \subseteq S
      BY <2>6, <2>7, ShownInduction
    <2>9. f[p] = g[p]
      BY <2>4, <2>8
    <2>10. f[c] = Append(f[p], name[c])
      BY <2>1, <2>2, <2>4, ShownShape DEF PathsUpFrom
    <2> QED
      BY <2>1, <2>2, <2>3, <2>9, <2>10
  <1> QED
    BY <1>1, <1>2

\* Paths are sequences of names.
LEMMA PathsAreNames ==
    ASSUME EntryConstants, Inv, Root \in RootRows
    PROVE  \A o \in Shown : FullPath(o) \in Seq(Name)
  <1> DEFINE S == {d \in Shown : FullPath(d) \in Seq(Name)}
  <1>1. Root \in S
    <2>1. FullPath(Root) = <<>> /\ Root \in Shown
      BY PathOfChild, ShownShape
    <2>2. <<>> \in Seq(Name)
      OBVIOUS
    <2> QED
      BY <2>1, <2>2
  <1>2. ASSUME NEW c \in Shown \ {Root}, parent[c] \in S PROVE c \in S
    <2>1. name[c] \in Name
      BY ShownShape DEF Inv, TypeOK
    <2>2. FullPath(c) = Append(FullPath(parent[c]), name[c]) /\ FullPath(parent[c]) \in Seq(Name)
      BY <1>2, PathOfChild
    <2>3. FullPath(c) \in Seq(Name)
      BY <2>1, <2>2
    <2> QED
      BY <2>3
  <1> HIDE DEF S
  <1>3. Shown \subseteq S
    BY <1>1, <1>2, ShownInduction
  <1> QED
    BY <1>3 DEF S

\* A path goes through the names of all rows above, each where its own path ends.
LEMMA PathsPassThrough ==
    ASSUME EntryConstants, Inv, Root \in RootRows, NEW o \in Shown, NEW x \in Ancestry(o)
    PROVE  /\ x \in Shown /\ Len(FullPath(x)) \in 0..Len(FullPath(o))
           /\ x # Root => Len(FullPath(x)) \in 1..Len(FullPath(o)) /\ FullPath(o)[Len(FullPath(x))] = name[x]
  <1> DEFINE Thru(d) == \A y \in Ancestry(d) :
               /\ Len(FullPath(y)) \in 0..Len(FullPath(d))
               /\ y # Root => /\ Len(FullPath(y)) \in 1..Len(FullPath(d))
                              /\ FullPath(d)[Len(FullPath(y))] = name[y]
             S == {d \in Shown : Thru(d)}
  <1>1. Root \in S
    BY ShownShape, PathOfChild, AncestryOfChild
  <1>2. ASSUME NEW c \in Shown \ {Root}, parent[c] \in S PROVE c \in S
    <2>1. PICK s, n : s = FullPath(parent[c]) /\ n = Len(s)
      OBVIOUS
    <2>2. s \in Seq(Name) /\ n \in Nat /\ name[c] \in Name
      BY <1>2, <2>1, PathsAreNames, ShownShape DEF Inv, TypeOK
    <2>3. FullPath(c) = Append(s, name[c])
      BY <2>1, PathOfChild
    <2>4. PICK t : t = FullPath(c)
      OBVIOUS
    <2>5. Len(t) = n + 1 /\ t[n + 1] = name[c] /\ \A i \in 1..n : t[i] = s[i]
      BY <2>1, <2>2, <2>3, <2>4
    <2>6. Ancestry(c) = Ancestry(parent[c]) \union {c}
      BY AncestryOfChild
    <2>7. ASSUME NEW y \in Ancestry(c)
          PROVE  /\ Len(FullPath(y)) \in 0..Len(t)
                 /\ y # Root => Len(FullPath(y)) \in 1..Len(t) /\ t[Len(FullPath(y))] = name[y]
      <3>1. CASE y = c
        BY <2>2, <2>4, <2>5, <3>1
      <3>2. CASE y \in Ancestry(parent[c])
        <4>1. PICK m : m = Len(FullPath(y))
          OBVIOUS
        <4>2. m \in 0..n /\ (y # Root => m \in 1..n /\ s[m] = name[y])
          BY <1>2, <2>1, <3>2, <4>1
        <4>3. m \in 0..(n + 1) /\ (y # Root => m \in 1..(n + 1) /\ t[m] = name[y])
          BY <2>2, <2>5, <4>2
        <4> QED
          BY <2>5, <4>1, <4>3
      <3> QED
        BY <2>6, <3>1, <3>2
    <2> QED
      BY <2>4, <2>7
  <1> HIDE DEF S
  <1>3. Shown \subseteq S
    BY <1>1, <1>2, ShownInduction
  <1>4. Thru(o)
    BY <1>3 DEF S
  <1> QED
    BY <1>4, ShownShape

\* The query of a path reaches something or nothing, segment by segment.
LEMMA ReachedExists ==
    ASSUME EntryConstants, Inv, Root \in RootRows, NEW o \in Shown
    PROVE  \E f : ReachedBy(FullPath(o), f)
  <1> DEFINE S == {d \in Shown : \E f : ReachedBy(FullPath(d), f)}
  <1>1. Root \in S
    <2>1. PICK f : f = [i \in 0..0 |-> RootRows]
      OBVIOUS
    <2>2. ReachedBy(<<>>, f)
      BY <2>1 DEF ReachedBy
    <2> QED
      BY <2>2, PathOfChild, ShownShape
  <1>2. ASSUME NEW c \in Shown \ {Root}, parent[c] \in S PROVE c \in S
    <2>1. PICK s, n, f : s = FullPath(parent[c]) /\ n = Len(s) /\ ReachedBy(s, f)
      BY <1>2
    <2>2. s \in Seq(Name) /\ n \in Nat /\ name[c] \in Name
      BY <1>2, <2>1, PathsAreNames, ShownShape DEF Inv, TypeOK
    <2>3. PICK t : t = FullPath(c) /\ t = Append(s, name[c])
      BY <2>1, PathOfChild
    <2>4. Len(t) = n + 1 /\ \A i \in 1..n : t[i] = s[i]
      BY <2>1, <2>2, <2>3
    <2>5. PICK last : last = {d \in Live : parent[d] \in f[n] /\ name[d] = t[n + 1]}
      OBVIOUS
    <2>6. PICK g : g = [i \in 0..(n + 1) |-> IF i = n + 1 THEN last ELSE f[i]]
      OBVIOUS
    <2>7. \A i \in 0..n : f[i] = IF i = 0 THEN RootRows
                                 ELSE {d \in Live : parent[d] \in f[i - 1] /\ name[d] = s[i]}
      BY <2>1 DEF ReachedBy
    <2>8. ASSUME NEW i \in 0..(n + 1)
          PROVE  g[i] = IF i = 0 THEN RootRows
                        ELSE {d \in Live : parent[d] \in g[i - 1] /\ name[d] = t[i]}
      <3>1. CASE i = n + 1
        <4>1. g[i] = last /\ g[i - 1] = f[n] /\ i # 0
          BY <2>2, <2>6, <3>1
        <4> QED
          BY <2>5, <3>1, <4>1
      <3>2. CASE i # n + 1
        <4>1. i \in 0..n /\ g[i] = f[i]
          BY <2>2, <2>6, <3>2
        <4>2. i # 0 => i - 1 \in 0..n /\ i - 1 # n + 1 /\ i - 1 \in 0..(n + 1) /\ t[i] = s[i]
          BY <2>2, <2>4, <4>1
        <4>3. i # 0 => g[i - 1] = f[i - 1]
          BY <2>6, <4>2
        <4> QED
          BY <2>7, <4>1, <4>2, <4>3
      <3> QED
        BY <3>1, <3>2
    <2>9. ReachedBy(t, g)
      BY <2>4, <2>6, <2>8 DEF ReachedBy
    <2> QED
      BY <2>3, <2>9
  <1>3. Shown \subseteq S
    <2> HIDE DEF S
    <2> QED
      BY <1>1, <1>2, ShownInduction
  <1> QED
    BY <1>3

\* Whatever is shown is found by its path, and nothing else is.
LEMMA InvPathsFind ==
    ASSUME EntryConstants, Inv
    PROVE  PathsFind
  <1> SUFFICES ASSUME Root \in RootRows, NEW o \in Shown PROVE ByPath(FullPath(o)) = {o}
    BY DEF PathsFind, Shown
  <1>1. PICK s : s = FullPath(o)
    OBVIOUS
  <1>2. PICK f : ReachedBy(s, f) /\ ByPath(s) = f[Len(s)]
    BY <1>1, ReachedExists, ByPathIs
  <1>3. \A i \in 0..Len(s) : f[i] = IF i = 0 THEN RootRows
                                    ELSE {d \in Live : parent[d] \in f[i - 1] /\ name[d] = s[i]}
    BY <1>2 DEF ReachedBy
  <1> DEFINE S == {x \in Shown : x \in Ancestry(o) => f[Len(FullPath(x))] = {x}}
  <1>4. Root \in S
    <2>1. FullPath(Root) = <<>> /\ Len(<<>>) = 0 /\ s \in Seq(Name)
      BY <1>1, PathOfChild, PathsAreNames
    <2>2. f[0] = RootRows
      <3>1. Len(s) \in Nat
        BY <2>1
      <3>2. 0 \in 0..Len(s)
        BY <3>1
      <3> QED
        BY <1>3, <3>2
    <2> QED
      BY <2>1, <2>2, ShownShape
  <1>5. ASSUME NEW x \in Shown \ {Root}, parent[x] \in S PROVE x \in S
    <2> SUFFICES ASSUME x \in Ancestry(o) PROVE f[Len(FullPath(x))] = {x}
      OBVIOUS
    <2>1. PICK p \in Shown : p = parent[x]
      BY ShownShape
    <2>2. p \in Ancestry(o)
      BY <2>1, AncestryClosed, ShownShape
    <2>3. PICK n : n = Len(FullPath(p))
      OBVIOUS
    <2>4. n \in Nat /\ Len(FullPath(x)) = n + 1
      <3>1. FullPath(p) \in Seq(Name) /\ name[x] \in Name
        BY PathsAreNames, ShownShape DEF Inv, TypeOK
      <3>2. FullPath(x) = Append(FullPath(p), name[x])
        BY <2>1, PathOfChild
      <3> QED
        BY <2>3, <3>1, <3>2
    <2>5. n + 1 \in 1..Len(s) /\ s[n + 1] = name[x]
      BY <1>1, <2>4, PathsPassThrough
    <2>6. f[n] = {p}
      BY <1>5, <2>1, <2>2, <2>3
    <2>7. n + 1 \in 0..Len(s) /\ n + 1 # 0 /\ (n + 1) - 1 = n
      BY <2>4, <2>5
    <2>8. f[n + 1] = {d \in Live : parent[d] \in f[n] /\ name[d] = s[n + 1]}
      BY <1>3, <2>7
    <2>9. {d \in Live : parent[d] = p /\ name[d] = name[x]} = {x}
      BY <2>1, ShownShape DEF Inv, SiblingNamesUnique
    <2>10. f[n + 1] = {x}
      BY <2>5, <2>6, <2>8, <2>9
    <2> QED
      BY <2>4, <2>10
  <1>6. Shown \subseteq S
    <2> HIDE DEF S
    <2> QED
      BY <1>4, <1>5, ShownInduction
  <1>7. o \in Ancestry(o)
    BY AncestryClosed, ShownShape
  <1> QED
    BY <1>1, <1>2, <1>6, <1>7

\* However entries were created, moved, copied, trashed and restored, the path
\* that get_full_path gives a shown entry leads get_by_path back to that entry
\* and to no other.
THEOREM PathsAreFound == Spec => []PathsFind
<1>1. Init => Inv
  BY EntryConstants, InitInv
<1>2. Inv /\ [Next]_vars => Inv'
  BY EntryConstants, StepInv
<1>3. Inv => PathsFind
  BY EntryConstants, InvPathsFind
<1> QED BY <1>1, <1>2, <1>3, PTL DEF Spec
=============================================================================
