---------------------------- MODULE TablesProofs ----------------------------
(***************************************************************************)
(* The parts of the database that are checked side by side in MCTables,    *)
(* each with an inductive invariant of its own: requests that overlap on   *)
(* one tree, logins, viewers, links, theme presets, metadata and local     *)
(* storage; and, with the accounts, all of them together.                  *)
(*                                                                         *)
(* What a request remembers may be stale.  Each invariant says what can    *)
(* still be relied on: that where it hangs a row closes no cycle, that     *)
(* nobody else has its challenge, that what it offers or has checked did   *)
(* hold since it began, that its path is its own.                          *)
(***************************************************************************)
EXTENDS MCTables, AccountsProofs, FiniteSetTheorems, SequenceTheorems, TLAPS

-----------------------------------------------------------------------------
(* Requests that overlap on one tree *)

\* A key that no row has is not remembered to have had a parent.
KeysAreClean == \A o \in Ids \ rows : origin[o] = NoId

RaceInv == RaceTypeOK /\ NamesAndParentsHold /\ KeysAreClean

-----------------------------------------------------------------------------

\* The name the first row has is one of them.
LEMMA SomeNameIsName == SomeName \in Names
  BY RaceConstants DEF SomeName

\* What the record of a request holds.
LEMMA HandlerShape ==
    ASSUME NEW x \in HandlerTypes
    PROVE  /\ x.step = "create" => x.to \in Ids /\ x.name \in Names
           /\ x.step = "move" => x.id \in Ids /\ x.to \in Ids
           /\ x.step = "delete" => /\ x.id \in Ids /\ x.parent \in Ids \union {NoId}
                                   /\ x.origin \in Ids \union {NoId}
           /\ x.step = "restore" => /\ x.id \in Ids /\ x.to \in Ids /\ x.name \in Names
                                    /\ x.parent \in Ids \union {NoId}
                                    /\ x.origin \in Ids \union {NoId} /\ x.old \in Names
           /\ x.step = "purge" => x.id \in Ids
  BY DEF HandlerTypes, Idle

\* A request that does nothing.
LEMMA IdleShape == Idle \in HandlerTypes /\ Idle.step = "idle"
  BY DEF HandlerTypes, Idle

\* A row whose parent is in a subtree is in it.
LEMMA SubtreeClosed ==
    ASSUME NEW o, NEW x \in rows, parent[x] \in Subtree(o)
    PROVE  x \in Subtree(o)
  BY DEF Subtree

\* The handler that is done remembers nothing.
LEMMA DoneKeeps ==
    ASSUME RaceInv, NEW h \in Handlers, Done(h)
    PROVE  handler' \in [Handlers -> HandlerTypes] /\ lone' = lone
  <1>1. handler' = [handler EXCEPT ![h] = Idle] /\ lone' = lone
    BY DEF Done
  <1> QED
    BY <1>1, IdleShape DEF RaceInv, RaceTypeOK

\* A decision is one of a few.
LEMMA DecidesKeeps ==
    ASSUME RaceInv, NEW h \in Handlers, NEW x \in HandlerTypes, Decides(h, x)
    PROVE  RaceInv'
  <1>1. /\ handler' = [handler EXCEPT ![h] = x]
        /\ UNCHANGED <<rows, name, parent, trash, origin, lone>>
    BY DEF Decides, rowVars
  <1>2. handler' \in [Handlers -> HandlerTypes]
    BY <1>1 DEF RaceInv, RaceTypeOK
  <1> QED
    BY <1>1, <1>2 DEF RaceInv, RaceTypeOK, NamesAndParentsHold, KeysAreClean, Live

\* There is the root alone.
LEMMA RaceInvInit == RaceInit => RaceInv
  BY RaceConstants, SomeNameIsName, IdleShape
  DEF RaceInit, RaceInv, RaceTypeOK, NamesAndParentsHold, KeysAreClean, Live

-----------------------------------------------------------------------------
(* What requests decide *)

\* A request reads, and decides.
LEMMA ChecksKeep ==
    ASSUME RaceInv, NEW h \in Handlers,
           \/ \E o \in rows, n \in Names : CreateCheck(h, o, n) \/ RestoreCheck(h, o, n)
           \/ \E o, dst \in rows : MoveCheck(h, o, dst)
           \/ \E o \in rows : DeleteCheck(h, o) \/ PurgeCheck(h, o)
    PROVE  RaceInv'
  <1> USE RaceConstants
  <1>1. CASE \E o \in rows, n \in Names : CreateCheck(h, o, n)
    <2> PICK o \in rows, n \in Names : CreateCheck(h, o, n)
      BY <1>1
    <2> DEFINE x == [step |-> "create", to |-> o, name |-> n]
    <2>1. x \in HandlerTypes /\ x.step = "create"
      BY DEF HandlerTypes, RaceInv, RaceTypeOK
    <2>2. Decides(h, x)
      BY DEF CreateCheck
    <2> HIDE DEF x
    <2> QED
      BY <2>1, <2>2, DecidesKeeps
  <1>2. CASE \E o \in rows, n \in Names : RestoreCheck(h, o, n)
    <2> PICK o \in rows, n \in Names : RestoreCheck(h, o, n)
      BY <1>2
    <2>1. PICK r \in rows : DecidesRestore(h, o, IF origin[o] \in Live THEN origin[o] ELSE r, n)
      BY DEF RestoreCheck
    <2> DEFINE target == IF origin[o] \in Live THEN origin[o] ELSE r
               x == [step |-> "restore", id |-> o, to |-> target, name |-> n,
                     parent |-> parent[o], origin |-> origin[o], old |-> name[o]]
    <2>2. target \in Ids
      BY DEF RaceInv, RaceTypeOK, Live
    <2>3. Decides(h, x)
      BY <2>1 DEF DecidesRestore
    <2>4. x \in HandlerTypes
      <3> HIDE DEF target
      <3> QED
        BY <2>2 DEF HandlerTypes, RaceInv, RaceTypeOK
    <2> HIDE DEF x
    <2> QED
      BY <2>3, <2>4, DecidesKeeps
  <1>3. CASE \E o, dst \in rows : MoveCheck(h, o, dst)
    <2> PICK o \in rows, dst \in rows : MoveCheck(h, o, dst)
      BY <1>3
    <2> DEFINE x == [step |-> "move", id |-> o, to |-> dst]
    <2>1. x \in HandlerTypes
      BY DEF HandlerTypes, RaceInv, RaceTypeOK
    <2>2. Decides(h, x)
      BY DEF MoveCheck
    <2> HIDE DEF x
    <2> QED
      BY <2>1, <2>2, DecidesKeeps
  <1>4. CASE \E o \in rows : DeleteCheck(h, o)
    <2> PICK o \in rows : DeleteCheck(h, o)
      BY <1>4
    <2> DEFINE x == [step |-> "delete", id |-> o, parent |-> parent[o], origin |-> origin[o]]
    <2>1. {parent[o], origin[o]} \subseteq Ids \union {NoId} /\ Decides(h, x)
      BY DEF DeleteCheck, RaceInv, RaceTypeOK
    <2>2. x \in HandlerTypes
      BY <2>1 DEF HandlerTypes, RaceInv, RaceTypeOK
    <2> HIDE DEF x
    <2> QED
      BY <2>1, <2>2, DecidesKeeps
  <1>5. CASE \E o \in rows : PurgeCheck(h, o)
    <2> PICK o \in rows : PurgeCheck(h, o)
      BY <1>5
    <2> DEFINE x == [step |-> "purge", id |-> o]
    <2>1. x \in HandlerTypes
      BY DEF HandlerTypes, RaceInv, RaceTypeOK
    <2>2. Decides(h, x)
      BY DEF PurgeCheck
    <2> HIDE DEF x
    <2> QED
      BY <2>1, <2>2, DecidesKeeps
  <1> QED
    BY <1>1, <1>2, <1>3, <1>4, <1>5

-----------------------------------------------------------------------------
(* What requests write *)

\* A row is inserted below a folder that is there.
LEMMA CreateStep ==
    ASSUME RaceInv, NEW h \in Handlers, NEW o \in Ids, Create(h, o)
    PROVE  RaceInv'
  <1> DEFINE to == handler[h].to
             n == handler[h].name
  <1> USE RaceConstants
  <1>1. to \in Ids /\ n \in Names
    BY HandlerShape DEF Create, RaceInv, RaceTypeOK
  <1>2. /\ o \notin rows /\ to \in rows /\ Free(o, to, n)
        /\ rows' = rows \union {o} /\ UNCHANGED <<trash, origin>>
        /\ name' = [name EXCEPT ![o] = n] /\ parent' = [parent EXCEPT ![o] = to]
    <2>1. NewKey(o)
      BY DEF Create
    <2> QED
      BY <2>1 DEF Create, NewKey
  <1>3. handler' \in [Handlers -> HandlerTypes] /\ lone' = lone
    BY DoneKeeps DEF Create
  <1> HIDE DEF to, n
  <1>4. RaceTypeOK'
    BY <1>1, <1>2, <1>3 DEF RaceInv, RaceTypeOK
  <1>6. \A x \in rows' : /\ parent'[x] = IF x = o THEN to ELSE parent[x]
                         /\ name'[x] = IF x = o THEN n ELSE name[x]
    BY <1>2 DEF RaceInv, RaceTypeOK
  <1>7. Live' \subseteq Live \union {o}
    BY <1>2 DEF Live
  <1>8. NamesAndParentsHold'
    <2>1. \A s, t \in Live' :
              parent'[s] # NoId /\ parent'[s] = parent'[t] /\ name'[s] = name'[t] => s = t
      BY <1>2, <1>6, <1>7 DEF RaceInv, NamesAndParentsHold, Free, Live
    <2>2. \A x \in rows' : {parent'[x], origin'[x]} \subseteq rows' \union {NoId}
      <3>1. origin[o] = NoId
        BY <1>2 DEF RaceInv, KeysAreClean
      <3> QED
        BY <1>2, <1>6, <3>1 DEF RaceInv, NamesAndParentsHold
    <2> QED
      BY <2>1, <2>2 DEF NamesAndParentsHold
  <1>9. KeysAreClean'
    BY <1>2 DEF RaceInv, KeysAreClean
  <1> QED
    BY <1>3, <1>4, <1>8, <1>9 DEF RaceInv

\* A row that changes in place: none comes or goes, and the key of its parent, of its
\* original parent and of its name are looked at again.
LEMMA ChangeInPlace ==
    ASSUME RaceInv, NEW h \in Handlers, Done(h), UNCHANGED rows,
           NEW o \in rows,
           NEW up \in rows \union {NoId}, NEW was \in rows \union {NoId}, NEW n \in Names,
           parent' = [parent EXCEPT ![o] = up], origin' = [origin EXCEPT ![o] = was],
           name' = [name EXCEPT ![o] = n],
           trash' \subseteq rows, trash' \ {o} = trash \ {o},
           o \in trash' \/ Free(o, up, n)
    PROVE  RaceInv'
  <1> USE RaceConstants
  <1>1. handler' \in [Handlers -> HandlerTypes] /\ lone' = lone
    BY DoneKeeps
  <1>2. RaceTypeOK'
    BY <1>1 DEF RaceInv, RaceTypeOK
  <1>3. \A x \in rows : /\ parent'[x] = IF x = o THEN up ELSE parent[x]
                        /\ origin'[x] = IF x = o THEN was ELSE origin[x]
                        /\ name'[x] = IF x = o THEN n ELSE name[x]
    BY DEF RaceInv, RaceTypeOK
  <1>4. Live' \ {o} = Live \ {o}
    BY DEF Live
  <1>5. \A s, t \in Live' :
            parent'[s] # NoId /\ parent'[s] = parent'[t] /\ name'[s] = name'[t] => s = t
    <2>1. Live' \subseteq rows
      BY DEF Live
    <2>2. ASSUME NEW s \in Live', NEW t \in Live' \ {o}, parent'[s] # NoId,
                 parent'[s] = parent'[t], name'[s] = name'[t]
          PROVE  s = t
      <3>1. t \in Live \ {o} /\ parent'[t] = parent[t] /\ name'[t] = name[t]
        BY <1>3, <1>4, <2>1, <2>2
      <3>2. CASE s = o
        <4>1. Free(o, up, n)
          BY <3>2 DEF Live
        <4> QED
          BY <1>3, <2>2, <3>1, <3>2, <4>1 DEF Free
      <3>3. CASE s # o
        <4>1. s \in Live \ {o} /\ parent'[s] = parent[s] /\ name'[s] = name[s]
          BY <1>3, <1>4, <2>1, <3>3
        <4> QED
          BY <2>2, <3>1, <4>1 DEF RaceInv, NamesAndParentsHold
      <3> QED
        BY <3>2, <3>3
    <2> QED
      BY <2>2
  <1>6. NamesAndParentsHold'
    BY <1>3, <1>5 DEF RaceInv, NamesAndParentsHold
  <1>8. KeysAreClean'
    BY DEF RaceInv, RaceTypeOK, KeysAreClean
  <1> QED
    BY <1>1, <1>2, <1>6, <1>8 DEF RaceInv

\* A row gets another parent.
LEMMA MoveStep ==
    ASSUME RaceInv, NEW h \in Handlers, Move(h)
    PROVE  RaceInv'
  <1> DEFINE o == handler[h].id
             to == handler[h].to
  <1>1. handler[h].step = "move" /\ handler[h] \in HandlerTypes
    BY DEF Move, RaceInv, RaceTypeOK
  <1>2. /\ o \in rows /\ to \in rows /\ (o \in trash \/ Free(o, to, name[o]))
        /\ parent' = [parent EXCEPT ![o] = to] /\ UNCHANGED <<rows, name, trash, origin>>
        /\ Done(h)
    BY DEF Move
  <1> HIDE DEF o, to
  <1>4. /\ origin[o] \in rows \union {NoId} /\ name[o] \in Names /\ trash \subseteq rows
        /\ origin' = [origin EXCEPT ![o] = origin[o]] /\ name' = [name EXCEPT ![o] = name[o]]
    BY <1>2 DEF RaceInv, RaceTypeOK, NamesAndParentsHold
  <1>5. /\ to \in rows \union {NoId} /\ UNCHANGED rows
        /\ trash' \subseteq rows /\ trash' \ {o} = trash \ {o}
        /\ o \in trash' \/ Free(o, to, name[o])
    BY <1>2, <1>4
  <1> QED
    BY <1>2, <1>4, <1>5, ChangeInPlace

\* A row goes to the trash, and is taken off its parent.
LEMMA SoftDeleteStep ==
    ASSUME RaceInv, NEW h \in Handlers, SoftDelete(h)
    PROVE  RaceInv'
  <1> DEFINE o == handler[h].id
             was == IF handler[h].parent # handler[h].origin THEN handler[h].parent ELSE origin[o]
  <1>1. handler[h].step = "delete" /\ handler[h] \in HandlerTypes
    BY DEF SoftDelete, RaceInv, RaceTypeOK
  <1>2. /\ o \in rows /\ handler[h].parent \in rows \union {NoId}
        /\ trash' = trash \union {o}
        /\ parent' = [parent EXCEPT ![o] = NoId]
        /\ origin' = [origin EXCEPT ![o] = was]
        /\ UNCHANGED <<rows, name>> /\ Done(h)
    BY DEF SoftDelete
  <1>4. was \in rows \union {NoId}
    BY <1>2 DEF RaceInv, NamesAndParentsHold
  <1> HIDE DEF o, was
  <1>5. name[o] \in Names /\ name' = [name EXCEPT ![o] = name[o]]
    BY <1>2 DEF RaceInv, RaceTypeOK
  <1>6. trash' \subseteq rows /\ trash' \ {o} = trash \ {o} /\ o \in trash'
    BY <1>2 DEF RaceInv, RaceTypeOK
  <1> QED
    BY <1>2, <1>4, <1>5, <1>6, ChangeInPlace

\* A row comes back, below the parent it had or another.
LEMMA RestoreStep ==
    ASSUME RaceInv, NEW h \in Handlers, Restore(h)
    PROVE  RaceInv'
  <1> DEFINE what == handler[h]
             o == handler[h].id
             up == IF what.to # what.parent THEN what.to ELSE parent[o]
             n == IF what.name # what.old THEN what.name ELSE name[o]
             was == IF what.origin # NoId THEN NoId ELSE origin[o]
  <1>1. handler[h].step = "restore" /\ handler[h] \in HandlerTypes
    BY DEF Restore, RaceInv, RaceTypeOK
  <1>2. /\ o \in rows /\ what.to \in rows /\ Free(o, up, n)
        /\ trash' = trash \ {o}
        /\ parent' = [parent EXCEPT ![o] = up]
        /\ origin' = [origin EXCEPT ![o] = was]
        /\ name' = [name EXCEPT ![o] = n]
        /\ UNCHANGED rows /\ Done(h)
    BY DEF Restore
  <1>4. /\ up \in rows \union {NoId} /\ was \in rows \union {NoId} /\ n \in Names
    BY <1>1, <1>2, HandlerShape DEF RaceInv, RaceTypeOK, NamesAndParentsHold
  <1> HIDE DEF what, o, up, n, was
  <1>5. trash' \subseteq rows /\ trash' \ {o} = trash \ {o}
    BY <1>2 DEF RaceInv, RaceTypeOK
  <1> QED
    BY <1>2, <1>4, <1>5, ChangeInPlace

\* What stays after a cascade names nothing that has gone with it.
LEMMA PurgeStep ==
    ASSUME RaceInv, NEW h \in Handlers, Purge(h)
    PROVE  RaceInv'
  <1> DEFINE o == handler[h].id
             gone == Subtree(o)
  <1> USE RaceConstants, SomeNameIsName
  <1>1. /\ handler[h].step = "purge" /\ o \in rows /\ Done(h)
        /\ rows' = rows \ gone
        /\ trash' = trash \ gone
        /\ parent' = [x \in Ids |-> IF x \in gone THEN NoId ELSE parent[x]]
        /\ origin' = [x \in Ids |-> IF x \in gone \/ origin[x] \in gone THEN NoId ELSE origin[x]]
        /\ name' = [x \in Ids |-> IF x \in gone THEN SomeName ELSE name[x]]
    BY DEF Purge
  <1>4. \A x \in rows : parent[x] \in gone => x \in gone
    BY SubtreeClosed
  <1>5. gone \subseteq rows
    BY DEF Subtree
  <1>6. handler' \in [Handlers -> HandlerTypes] /\ lone' = lone
    BY <1>1, DoneKeeps
  <1> HIDE DEF o, gone
  <1>7. RaceTypeOK'
    BY <1>1, <1>6 DEF RaceInv, RaceTypeOK
  <1>8. \A x \in rows' : /\ x \in rows /\ x \in Ids /\ parent'[x] = parent[x] /\ name'[x] = name[x]
                         /\ origin'[x] = IF origin[x] \in gone THEN NoId ELSE origin[x]
    BY <1>1 DEF RaceInv, RaceTypeOK
  <1>9. Live' \subseteq Live /\ Live' \subseteq rows'
    BY <1>1 DEF Live
  <1>10. NamesAndParentsHold'
    <2>1. \A s, t \in Live' :
              parent'[s] # NoId /\ parent'[s] = parent'[t] /\ name'[s] = name'[t] => s = t
      BY <1>8, <1>9 DEF RaceInv, NamesAndParentsHold
    <2>2. ASSUME NEW x \in rows' PROVE {parent'[x], origin'[x]} \subseteq rows' \union {NoId}
      <3>1. x \in rows \ gone /\ parent[x] \in rows \union {NoId}
            /\ origin[x] \in rows \union {NoId}
        BY <1>1 DEF RaceInv, NamesAndParentsHold
      <3>2. parent'[x] \in rows' \union {NoId}
        BY <1>1, <1>4, <1>8, <3>1
      <3>3. origin'[x] \in rows' \union {NoId}
        BY <1>1, <1>8, <3>1
      <3> QED
        BY <3>2, <3>3
    <2> QED
      BY <2>1, <2>2 DEF NamesAndParentsHold
  <1>12. KeysAreClean'
    BY <1>1, <1>5 DEF RaceInv, KeysAreClean
  <1> QED
    BY <1>6, <1>7, <1>10, <1>12 DEF RaceInv

\* The invariant is kept by every step.
LEMMA RaceInvStep == RaceInv /\ [RaceNext]_raceVars => RaceInv'
  <1> SUFFICES ASSUME RaceInv, [RaceNext]_raceVars PROVE RaceInv'
    OBVIOUS
  <1>1. CASE \E h \in Handlers : HandlerFails(h)
    <2> PICK h \in Handlers : HandlerFails(h)
      BY <1>1
    <2>1. handler' \in [Handlers -> HandlerTypes] /\ lone' = lone
      BY DoneKeeps DEF HandlerFails
    <2>2. UNCHANGED <<rows, name, parent, trash, origin>>
      BY DEF HandlerFails, rowVars
    <2> QED
      BY <2>1, <2>2 DEF RaceInv, RaceTypeOK, NamesAndParentsHold, KeysAreClean, Live
  <1>2. CASE UNCHANGED raceVars
    BY <1>2 DEF raceVars, rowVars, RaceInv, RaceTypeOK, NamesAndParentsHold, KeysAreClean, Live
  <1> QED
    BY <1>1, <1>2, ChecksKeep, CreateStep, MoveStep, SoftDeleteStep, RestoreStep, PurgeStep
    DEF RaceNext

\* The invariant holds in every reachable state.
THEOREM RaceInvariant == RaceSpec => []RaceInv
  BY RaceInvInit, RaceInvStep, PTL DEF RaceSpec

\* The variables keep their types, for any rows, names and requests.
THEOREM RaceTypeCorrect == RaceSpec => []RaceTypeOK
  BY RaceInvariant, PTL DEF RaceInv

\* However requests overlap, no directory has a name twice and no row names a parent
\* that is gone.
THEOREM NamesAndParentsAreKept == RaceSpec => []NamesAndParentsHold
  BY RaceInvariant, PTL DEF RaceInv

-----------------------------------------------------------------------------
(* No cycles while moves are alone *)

\* Where a row hangs or, once trashed, hung.
Above(o) == IF o \in trash THEN origin[o] ELSE parent[o]

\* p is where o hangs, or will hang or be remembered to have hung when one of the
\* requests under way has written.
MayHang(o, p) ==
    \/ p = Above(o)
    \/ \E h \in Handlers :
          /\ handler[h].step = "delete" /\ handler[h].id = o
          /\ \/ p = handler[h].parent
             \/ p = origin[o] /\ handler[h].parent = handler[h].origin
    \/ \E h \in Handlers :
          handler[h].step = "restore" /\ handler[h].id = o /\ p = handler[h].to

\* Trashed rows are off the tree, live ones are on it, and the root hangs nowhere.
LoneTree ==
    /\ \A o \in trash : parent[o] = NoId
    /\ \A o \in Live \ {Root} : parent[o] # NoId
    /\ parent[Root] = NoId /\ origin[Root] = NoId

\* A move is alone, and what it has looked at still holds; nothing hangs the root.
LoneRequests ==
    \A h \in Handlers :
        /\ handler[h].step = "move" =>
              /\ \A g \in Handlers \ {h} : handler[g] = Idle
              /\ handler[h].id \in Live \ Ancestry(handler[h].to)
              /\ Root \in Live /\ handler[h].to \in Subtree(Root)
        /\ handler[h].step \in {"move", "restore"} => handler[h].id # Root
        /\ handler[h].step = "restore" => handler[h].parent = NoId
        /\ handler[h].step = "delete" /\ handler[h].id = Root => handler[h].parent = NoId

\* No cycle lies ahead: any rows include one that hangs, and may hang, below none
\* of them.
NoCycleAhead ==
    \A S \in (SUBSET rows) \ {{}} : \E o \in S : \A p \in S : ~ MayHang(o, p)

AloneInv == RaceInv /\ (lone => LoneTree /\ LoneRequests /\ NoCycleAhead)

-----------------------------------------------------------------------------

\* The handler that is done remembers nothing, the others what they did.
LEMMA AfterDone ==
    ASSUME RaceInv, NEW h \in Handlers, Done(h)
    PROVE  /\ lone' = lone
           /\ handler'[h] = Idle
           /\ \A g \in Handlers \ {h} : handler'[g] = handler[g]
  BY DEF Done, RaceInv, RaceTypeOK

\* While nothing but a move may write, a request that writes leaves no move behind.
LEMMA RequestsAfterDone ==
    ASSUME RaceInv, LoneRequests, NEW h \in Handlers, Done(h), handler[h] # Idle
    PROVE  /\ LoneRequests'
           /\ \A g \in Handlers : handler'[g].step # "move"
  <1>1. \A g \in Handlers \ {h} : handler[g].step # "move"
    BY IdleShape DEF LoneRequests
  <1>2. \A g \in Handlers : handler'[g].step # "move"
    BY <1>1, AfterDone, IdleShape
  <1>3. \A g \in Handlers : handler'[g] = handler[g] \/ handler'[g].step = "idle"
    BY AfterDone, IdleShape
  <1> QED
    BY <1>2, <1>3 DEF LoneRequests

\* The root hangs nowhere, and nothing is about to hang it.
LEMMA RootHangsNowhere ==
    ASSUME LoneTree, LoneRequests, NEW p, p # NoId
    PROVE  ~ MayHang(Root, p)
  BY DEF LoneTree, LoneRequests, MayHang, Above

\* Rows that may come to hang below the root as well, and below nothing else new,
\* close no cycle.
LEMMA NothingNewHangs ==
    ASSUME NoCycleAhead, LoneTree', LoneRequests', rows' \subseteq rows, NoId \notin rows,
           \A o \in rows' \ {Root} : \A p \in rows' \ {Root} : MayHang(o, p)' => MayHang(o, p)
    PROVE  NoCycleAhead'
  <1> SUFFICES ASSUME NEW S \in (SUBSET rows') \ {{}}
               PROVE  \E o \in S : \A p \in S : ~ MayHang(o, p)'
    BY DEF NoCycleAhead
  <1>1. CASE Root \in S
    <2>1. ASSUME NEW p \in S PROVE ~ MayHang(Root, p)'
      <3>1. p # NoId
        OBVIOUS
      <3> QED
        BY <3>1 DEF LoneTree, LoneRequests, MayHang, Above
    <2> QED
      BY <1>1, <2>1
  <1>2. CASE Root \notin S
    <2>1. S \in (SUBSET rows) \ {{}}
      OBVIOUS
    <2>2. PICK o \in S : \A p \in S : ~ MayHang(o, p)
      BY <2>1 DEF NoCycleAhead
    <2>3. \A p \in S : ~ MayHang(o, p)'
      BY <1>2, <2>2
    <2> QED
      BY <2>3
  <1> QED
    BY <1>1, <1>2

\* There is the root alone, and nobody asks for anything.
LEMMA AloneInvInit == RaceInit => AloneInv
  <1> SUFFICES ASSUME RaceInit PROVE AloneInv
    OBVIOUS
  <1>1. RaceInv
    BY RaceInvInit
  <1>2. LoneTree
    BY RaceConstants DEF RaceInit, LoneTree, Live
  <1>3. \A h \in Handlers : handler[h].step = "idle"
    BY IdleShape DEF RaceInit
  <1>4. LoneRequests
    BY <1>3 DEF LoneRequests
  <1>5. NoCycleAhead
    <2>1. rows = {Root} /\ NoId # Root
      BY RaceConstants DEF RaceInit
    <2>2. ~ MayHang(Root, Root)
      BY <1>2, <1>4, <2>1, RootHangsNowhere
    <2> QED
      BY <2>1, <2>2 DEF NoCycleAhead
  <1> QED
    BY <1>1, <1>2, <1>4, <1>5 DEF AloneInv

\* What a request decides is what it has found in the table.
LEMMA DecisionHangsNothing ==
    ASSUME AloneInv, lone, NEW h \in Handlers, NEW x \in HandlerTypes, Decides(h, x),
           x.step \in {"create", "delete", "restore", "purge"},
           x.step = "delete" => /\ x.id \in rows /\ x.parent = Above(x.id)
                                /\ x.parent = x.origin => origin[x.id] = x.parent,
           x.step = "restore" => /\ x.id # Root /\ x.parent = NoId
                                 /\ x.to = Root \/ x.to = Above(x.id)
    PROVE  LoneTree' /\ LoneRequests' /\ NoCycleAhead'
  <1> USE RaceConstants
  <1>1. /\ LoneTree /\ LoneRequests /\ NoCycleAhead /\ RaceInv
        /\ handler[h] = Idle /\ UNCHANGED <<rows, name, parent, trash, origin>>
        /\ \A g \in Handlers : handler[g].step # "move"
        /\ \A g \in Handlers : handler'[g] = IF g = h THEN x ELSE handler[g]
    BY DEF AloneInv, Decides, rowVars, RaceInv, RaceTypeOK
  <1>2. LoneTree'
    BY <1>1 DEF LoneTree, Live
  <1>3. LoneRequests'
    <2>1. \A g \in Handlers : handler'[g].step # "move"
      BY <1>1
    <2>2. x.step = "delete" /\ x.id = Root => x.parent = NoId
      BY <1>1 DEF LoneTree, Above
    <2>3. ASSUME NEW g \in Handlers
          PROVE  /\ handler'[g].step = "restore" => handler'[g].id # Root /\ handler'[g].parent = NoId
                 /\ handler'[g].step = "delete" /\ handler'[g].id = Root => handler'[g].parent = NoId
      BY <1>1, <2>2 DEF LoneRequests
    <2> QED
      BY <2>1, <2>3 DEF LoneRequests
  <1>4. \A o \in rows, p \in rows : MayHang(o, p)' => MayHang(o, p) \/ p = Root
    <2> SUFFICES ASSUME NEW o \in rows, NEW p \in rows, MayHang(o, p)', p # Root PROVE MayHang(o, p)
      OBVIOUS
    <2>1. Above(o)' = Above(o)
      BY <1>1 DEF Above
    <2>2. CASE p = Above(o)'
      BY <2>1, <2>2 DEF MayHang
    <2>3. CASE \E g \in Handlers :
                  /\ handler'[g].step = "delete" /\ handler'[g].id = o
                  /\ \/ p = handler'[g].parent
                     \/ p = origin'[o] /\ handler'[g].parent = handler'[g].origin
      <3> PICK g \in Handlers :
                  /\ handler'[g].step = "delete" /\ handler'[g].id = o
                  /\ \/ p = handler'[g].parent
                     \/ p = origin'[o] /\ handler'[g].parent = handler'[g].origin
        BY <2>3
      <3>1. CASE g = h
        BY <1>1, <3>1 DEF MayHang
      <3>2. CASE g # h
        BY <1>1, <3>2 DEF MayHang
      <3> QED
        BY <3>1, <3>2
    <2>4. CASE \E g \in Handlers :
                  handler'[g].step = "restore" /\ handler'[g].id = o /\ p = handler'[g].to
      <3> PICK g \in Handlers :
                  handler'[g].step = "restore" /\ handler'[g].id = o /\ p = handler'[g].to
        BY <2>4
      <3>1. CASE g = h
        BY <1>1, <3>1 DEF MayHang
      <3>2. CASE g # h
        BY <1>1, <3>2 DEF MayHang
      <3> QED
        BY <3>1, <3>2
    <2> QED
      BY <2>2, <2>3, <2>4 DEF MayHang
  <1>5. NoId \notin rows
    BY <1>1 DEF RaceInv, RaceTypeOK
  <1> QED
    BY <1>1, <1>2, <1>3, <1>4, <1>5, NothingNewHangs

\* What is shown below a live root is live, and so is everything above it.
LEMMA AboveSeen ==
    ASSUME AloneInv, lone, Root \in Live, NEW o \in Subtree(Root)
    PROVE  Ancestry(o) \subseteq Live
  <1> USE RaceConstants
  <1> DEFINE T == Subtree(Root)
  <1>1. LoneTree /\ NoId \notin rows /\ trash \subseteq rows /\ Root \in rows
    BY DEF AloneInv, RaceInv, RaceTypeOK, Live
  <1>2. T \subseteq rows /\ Root \in T /\ \A x \in rows : parent[x] \in T => x \in T
    BY <1>1 DEF Subtree
  <1>3. ASSUME NEW x \in T, x # Root PROVE parent[x] \in T
    <2> SUFFICES ASSUME parent[x] \notin T PROVE FALSE
      OBVIOUS
    <2> DEFINE S == T \ {x}
    <2>1. S \in SUBSET rows /\ Root \in S
      BY <1>2, <1>3
    <2>2. \A y \in rows : parent[y] \in S => y \in S
      BY <1>2
    <2> QED
      BY <2>1, <2>2 DEF Subtree
  <1>4. T \subseteq Live
    <2>1. \A x \in rows : parent[x] \in T => x \in Live
      BY <1>1, <1>2 DEF LoneTree, Live
    <2> QED
      BY <1>2, <1>3, <2>1
  <1> HIDE DEF T
  <1>5. o \in T /\ \A x \in T : parent[x] \in rows => parent[x] \in T
    BY <1>1, <1>3 DEF T, LoneTree
  <1>6. Ancestry(o) \subseteq T
    BY <1>2, <1>5 DEF Ancestry
  <1> QED
    BY <1>4, <1>6

-----------------------------------------------------------------------------
(* Every step keeps it *)

\* What a request decides hangs a row where it hung, or below the root; and a move
\* is decided alone, below a folder that is shown.
LEMMA ChecksKeepAlone ==
    ASSUME AloneInv, lone, NEW h \in Handlers,
           \/ \E o \in rows, n \in Names : CreateCheck(h, o, n) \/ RestoreCheck(h, o, n)
           \/ \E o, dst \in rows : MoveCheck(h, o, dst)
           \/ \E o \in rows : DeleteCheck(h, o) \/ PurgeCheck(h, o)
    PROVE  LoneTree' /\ LoneRequests' /\ NoCycleAhead'
  <1> USE RaceConstants
  <1>0. /\ LoneTree /\ LoneRequests /\ NoCycleAhead /\ RaceInv
        /\ rows \subseteq Ids /\ trash \subseteq rows /\ NoId \notin rows
        /\ \A o \in rows : /\ parent[o] \in Ids \union {NoId} /\ origin[o] \in Ids \union {NoId}
                           /\ name[o] \in Names
    BY DEF AloneInv, RaceInv, RaceTypeOK
  <1>1. CASE \E o \in rows, n \in Names : CreateCheck(h, o, n)
    <2> PICK o \in rows, n \in Names : CreateCheck(h, o, n)
      BY <1>1
    <2> DEFINE x == [step |-> "create", to |-> o, name |-> n]
    <2>1. x \in HandlerTypes /\ x.step = "create" /\ Decides(h, x)
      BY <1>0 DEF HandlerTypes, CreateCheck
    <2> HIDE DEF x
    <2> QED
      BY <2>1, DecisionHangsNothing
  <1>2. CASE \E o \in rows, n \in Names : RestoreCheck(h, o, n)
    <2> PICK o \in rows, n \in Names : RestoreCheck(h, o, n)
      BY <1>2
    <2>1. PICK r \in rows :
             RootRows = {r} /\ DecidesRestore(h, o, IF origin[o] \in Live THEN origin[o] ELSE r, n)
      BY DEF RestoreCheck
    <2> DEFINE target == IF origin[o] \in Live THEN origin[o] ELSE r
               x == [step |-> "restore", id |-> o, to |-> target, name |-> n,
                     parent |-> parent[o], origin |-> origin[o], old |-> name[o]]
    <2>2. r = Root /\ Root \in Live /\ o \in trash /\ o # Root /\ parent[o] = NoId
      BY <1>0, <2>1 DEF RestoreCheck, RootRows, LoneTree, Live
    <2>3. target \in Ids /\ (target = Root \/ target = Above(o))
      BY <1>0, <2>2 DEF Live, Above
    <2>4. Decides(h, x)
      BY <2>1 DEF DecidesRestore
    <2>5. x \in HandlerTypes /\ x.step = "restore" /\ x.id = o /\ x.parent = NoId /\ x.to = target
      <3> HIDE DEF target
      <3> QED
        BY <1>0, <2>2, <2>3 DEF HandlerTypes
    <2> HIDE DEF x, target
    <2> QED
      BY <2>2, <2>3, <2>4, <2>5, DecisionHangsNothing
  <1>3. CASE \E o, dst \in rows : MoveCheck(h, o, dst)
    <2> PICK o \in rows, dst \in rows : MoveCheck(h, o, dst)
      BY <1>3
    <2> DEFINE x == [step |-> "move", id |-> o, to |-> dst]
    <2>1. /\ UNCHANGED <<rows, name, parent, trash, origin>>
          /\ \A g \in Handlers : handler[g] = Idle
          /\ \A g \in Handlers : handler'[g] = IF g = h THEN x ELSE Idle
          /\ o \in Live \ Ancestry(dst) /\ parent[o] # NoId
          /\ Root \in Live /\ dst \in Subtree(Root)
      BY <1>0 DEF MoveCheck, AloneAndSeen, Decides, rowVars, RaceInv, RaceTypeOK
    <2>2. LoneTree'
      BY <1>0, <2>1 DEF LoneTree, Live
    <2>3. o # Root
      BY <1>0, <2>1 DEF LoneTree
    <2>4. \A g \in Handlers :
             /\ handler'[g].step = "move" => g = h
             /\ handler'[g].step \in {"move", "idle"}
             /\ g = h => handler'[g].id = o /\ handler'[g].to = dst
      BY <2>1, IdleShape
    <2>5. LoneRequests'
      <3>1. \A g \in Handlers :
               handler'[g].step = "move" =>
                  /\ \A f \in Handlers \ {g} : handler'[f] = Idle
                  /\ handler'[g].id \in Live \ Ancestry(handler'[g].to) /\ handler'[g].id # Root
                  /\ Root \in Live /\ handler'[g].to \in Subtree(Root)
        BY <2>1, <2>3, <2>4
      <3>2. rows' = rows /\ trash' = trash /\ parent' = parent
        BY <2>1
      <3> QED
        BY <2>4, <3>1, <3>2 DEF LoneRequests, Live, Ancestry, Subtree
    <2>6. \A y \in rows, p \in rows : MayHang(y, p)' => MayHang(y, p)
      <3>1. \A g \in Handlers : handler'[g].step \notin {"delete", "restore"}
        BY <2>1, IdleShape
      <3> QED
        BY <2>1, <3>1 DEF MayHang, Above
    <2> QED
      BY <1>0, <2>1, <2>2, <2>5, <2>6, NothingNewHangs
  <1>4. CASE \E o \in rows : DeleteCheck(h, o)
    <2> PICK o \in rows : DeleteCheck(h, o)
      BY <1>4
    <2> DEFINE x == [step |-> "delete", id |-> o, parent |-> parent[o], origin |-> origin[o]]
    <2>1. x \in HandlerTypes
      BY <1>0 DEF HandlerTypes
    <2>2. /\ x.step = "delete" /\ x.id = o /\ x.parent = Above(o)
          /\ x.parent = x.origin => origin[o] = x.parent
          /\ Decides(h, x)
      BY DEF DeleteCheck, Above, Live
    <2> HIDE DEF x
    <2> QED
      BY <2>1, <2>2, DecisionHangsNothing
  <1>5. CASE \E o \in rows : PurgeCheck(h, o)
    <2> PICK o \in rows : PurgeCheck(h, o)
      BY <1>5
    <2> DEFINE x == [step |-> "purge", id |-> o]
    <2>1. x \in HandlerTypes /\ x.step = "purge" /\ Decides(h, x)
      BY <1>0 DEF HandlerTypes, PurgeCheck
    <2> HIDE DEF x
    <2> QED
      BY <2>1, DecisionHangsNothing
  <1> QED
    BY <1>1, <1>2, <1>3, <1>4, <1>5

\* What is true of all requests that write: what they remember hangs as before, as
\* long as the columns of a row do.
LEMMA HangsAsBefore ==
    ASSUME RaceInv, NEW h \in Handlers, Done(h), NEW o, NEW p, p # NoId,
           Above(o)' \in {Above(o), NoId}, origin'[o] \in {origin[o], NoId}, MayHang(o, p)'
    PROVE  MayHang(o, p)
  <1>1. \A g \in Handlers : handler'[g] = handler[g] \/ handler'[g].step = "idle"
    BY AfterDone, IdleShape
  <1> QED
    BY <1>1 DEF MayHang

\* A new row is above no other, and no request knows it.
LEMMA CreateAlone ==
    ASSUME AloneInv, lone, NEW h \in Handlers, NEW o \in Ids, Create(h, o)
    PROVE  LoneTree' /\ LoneRequests' /\ NoCycleAhead'
  <1> USE RaceConstants
  <1> DEFINE to == handler[h].to
  <1>1. /\ LoneTree /\ LoneRequests /\ NoCycleAhead /\ RaceInv
        /\ rows \subseteq Ids /\ trash \subseteq rows /\ NoId \notin rows
        /\ \A x \in rows : parent[x] \in rows \union {NoId} /\ origin[x] \in rows \union {NoId}
    BY DEF AloneInv, RaceInv, RaceTypeOK, NamesAndParentsHold
  <1>2. /\ to \in rows /\ Done(h) /\ handler[h].step = "create" /\ NewKey(o)
        /\ rows' = rows \union {o} /\ UNCHANGED <<trash, origin>>
        /\ parent' = [parent EXCEPT ![o] = to]
    BY DEF Create
  <1>3. o \notin rows /\ o # Root
    BY <1>2 DEF NewKey
  <1>4. \A g \in Handlers :
           /\ handler[g].step = "delete" => handler[g].id # o /\ handler[g].parent # o
           /\ handler[g].step = "restore" => handler[g].id # o /\ handler[g].to # o
    <2> SUFFICES ASSUME NEW g \in Handlers
                 PROVE  /\ handler[g].step = "delete" => handler[g].id # o /\ handler[g].parent # o
                        /\ handler[g].step = "restore" => handler[g].id # o /\ handler[g].to # o
      OBVIOUS
    <2>1. handler[g] \in HandlerTypes /\ \A column \in DOMAIN handler[g] : handler[g][column] # o
      BY <1>1, <1>2 DEF NewKey, RaceInv, RaceTypeOK
    <2>2. ASSUME handler[g].step = "delete" PROVE {"id", "parent"} \subseteq DOMAIN handler[g]
      BY <2>1, <2>2 DEF HandlerTypes, Idle
    <2>3. ASSUME handler[g].step = "restore" PROVE {"id", "to"} \subseteq DOMAIN handler[g]
      BY <2>1, <2>3 DEF HandlerTypes, Idle
    <2> QED
      BY <2>1, <2>2, <2>3
  <1>5. handler[h] # Idle
    BY <1>2, IdleShape
  <1>6. LoneRequests'
    BY <1>1, <1>2, <1>5, RequestsAfterDone
  <1> HIDE DEF to
  <1>7. /\ \A x \in Ids \ {o} : parent'[x] = parent[x]
        /\ parent'[o] = to
    BY <1>1, <1>2 DEF RaceInv, RaceTypeOK
  <1>8. LoneTree'
    BY <1>1, <1>2, <1>3, <1>7 DEF LoneTree, Live
  <1>9. ASSUME NEW x \in rows, NEW p, MayHang(x, p)', p # NoId PROVE MayHang(x, p) /\ p # o
    <2>1. Above(x)' = Above(x)
      BY <1>1, <1>2, <1>3, <1>7 DEF Above
    <2>2. MayHang(x, p)
      BY <1>1, <1>2, <1>9, <2>1, HangsAsBefore
    <2>3. Above(x) # o /\ origin[x] # o
      BY <1>1, <1>3 DEF Above
    <2> QED
      BY <1>4, <2>2, <2>3 DEF MayHang
  <1>10. NoCycleAhead'
    <2> SUFFICES ASSUME NEW S \in (SUBSET rows') \ {{}}
                 PROVE  \E x \in S : \A p \in S : ~ MayHang(x, p)'
      BY DEF NoCycleAhead
    <2>0. NoId \notin S
      BY <1>1, <1>2
    <2>1. CASE S = {o}
      <3> SUFFICES ASSUME MayHang(o, o)' PROVE FALSE
        BY <2>1
      <3>1. \A g \in Handlers : handler'[g] = handler[g] \/ handler'[g].step = "idle"
        BY <1>1, <1>2, AfterDone, IdleShape
      <3>2. Above(o)' = to /\ to # o
        BY <1>1, <1>2, <1>3, <1>7 DEF Above
      <3> QED
        BY <1>4, <3>1, <3>2 DEF MayHang
    <2>2. CASE S # {o}
      <3>1. S \ {o} \in (SUBSET rows) \ {{}}
        BY <1>2, <2>2
      <3>2. PICK x \in S \ {o} : \A p \in S \ {o} : ~ MayHang(x, p)
        BY <3>1 DEF NoCycleAhead, AloneInv
      <3>3. x \in rows
        BY <3>1
      <3> QED
        BY <1>9, <2>0, <3>2, <3>3
    <2> QED
      BY <2>1, <2>2
  <1> QED
    BY <1>6, <1>8, <1>10

\* A move that is alone still finds what it has checked.
LEMMA MoveAlone ==
    ASSUME AloneInv, lone, NEW h \in Handlers, Move(h)
    PROVE  LoneTree' /\ LoneRequests' /\ NoCycleAhead'
  <1> USE RaceConstants
  <1> DEFINE o == handler[h].id
             to == handler[h].to
  <1>1. /\ LoneTree /\ LoneRequests /\ NoCycleAhead /\ RaceInv
        /\ rows \subseteq Ids /\ trash \subseteq rows /\ NoId \notin rows
    BY DEF AloneInv, RaceInv, RaceTypeOK
  <1>2. /\ o \in rows /\ to \in rows /\ Done(h) /\ handler[h].step = "move"
        /\ parent' = [parent EXCEPT ![o] = to] /\ UNCHANGED <<rows, trash, origin>>
    BY DEF Move
  <1>3. /\ \A g \in Handlers \ {h} : handler[g] = Idle
        /\ o \in Live \ Ancestry(to) /\ o # Root
        /\ Root \in Live /\ to \in Subtree(Root)
    BY <1>1, <1>2 DEF LoneRequests
  <1>4. handler[h] # Idle
    BY <1>2, IdleShape
  <1>5. LoneRequests'
    BY <1>1, <1>2, <1>4, RequestsAfterDone
  <1>6. Ancestry(to) \subseteq Live
    BY <1>3, AboveSeen
  <1> HIDE DEF o, to
  <1>7. /\ \A x \in Ids \ {o} : parent'[x] = parent[x]
        /\ parent'[o] = to
    BY <1>1, <1>2 DEF RaceInv, RaceTypeOK
  <1>8. LoneTree'
    BY <1>1, <1>2, <1>3, <1>7 DEF LoneTree, Live
  <1>9. ASSUME NEW x \in rows, NEW p, MayHang(x, p)' PROVE p = IF x = o THEN to ELSE Above(x)
    <2>1. \A g \in Handlers : handler'[g].step = "idle"
      BY <1>1, <1>2, <1>3, AfterDone, IdleShape
    <2>2. p = Above(x)'
      BY <1>9, <2>1 DEF MayHang
    <2> QED
      BY <1>1, <1>2, <1>3, <1>7, <2>2 DEF Above, Live
  <1>10. NoCycleAhead'
    <2> SUFFICES ASSUME NEW S \in (SUBSET rows) \ {{}},
                        \A x \in S : \E p \in S : MayHang(x, p)'
                 PROVE  FALSE
      BY <1>2 DEF NoCycleAhead
    <2>1. \A x \in S : x # o => Above(x) \in S
      BY <1>9
    <2>2. o \in S => to \in S
      BY <1>9
    <2>3. CASE o \notin S
      <3>1. PICK x \in S : \A p \in S : ~ MayHang(x, p)
        BY <1>1 DEF NoCycleAhead
      <3> QED
        BY <2>1, <2>3, <3>1 DEF MayHang
    <2>4. CASE o \in S
      <3> DEFINE T == S \intersect Ancestry(to)
      <3>1. to \in Ancestry(to) /\ Ancestry(to) \subseteq rows
            /\ \A x \in Ancestry(to) : parent[x] \in rows => parent[x] \in Ancestry(to)
        BY <1>2 DEF Ancestry
      <3>2. T \in (SUBSET rows) \ {{}}
        BY <2>2, <2>4, <3>1
      <3>3. PICK x \in T : \A p \in T : ~ MayHang(x, p)
        BY <1>1, <3>2 DEF NoCycleAhead
      <3>4. x # o /\ x \in Live /\ Above(x) \in S
        BY <1>3, <1>6, <2>1, <3>3
      <3>5. Above(x) = parent[x]
        BY <3>4 DEF Above, Live
      <3>6. Above(x) \in T
        BY <3>1, <3>3, <3>4, <3>5
      <3> QED
        BY <3>3, <3>6 DEF MayHang
    <2> QED
      BY <2>3, <2>4
  <1> QED
    BY <1>5, <1>8, <1>10

\* A row goes to the trash: what is remembered is where it hung.
LEMMA SoftDeleteAlone ==
    ASSUME AloneInv, lone, NEW h \in Handlers, SoftDelete(h)
    PROVE  LoneTree' /\ LoneRequests' /\ NoCycleAhead'
  <1> USE RaceConstants
  <1> DEFINE o == handler[h].id
             was == IF handler[h].parent # handler[h].origin THEN handler[h].parent ELSE origin[o]
  <1>1. /\ LoneTree /\ LoneRequests /\ NoCycleAhead /\ RaceInv
        /\ rows \subseteq Ids /\ trash \subseteq rows /\ NoId \notin rows
    BY DEF AloneInv, RaceInv, RaceTypeOK
  <1>2. /\ o \in rows /\ Done(h) /\ handler[h].step = "delete"
        /\ trash' = trash \union {o}
        /\ parent' = [parent EXCEPT ![o] = NoId]
        /\ origin' = [origin EXCEPT ![o] = was]
        /\ UNCHANGED rows
    BY DEF SoftDelete
  <1>3. handler[h] # Idle
    BY <1>2, IdleShape
  <1>4. LoneRequests'
    BY <1>1, <1>2, <1>3, RequestsAfterDone
  <1>5. o = Root => was = NoId
    BY <1>1, <1>2 DEF LoneRequests, LoneTree
  <1>6. ASSUME NEW p, p = was PROVE MayHang(o, p)
    BY <1>2, <1>6 DEF MayHang
  <1>7. was \in {handler[h].parent, origin[o]}
    OBVIOUS
  <1> HIDE DEF o, was
  <1>8. /\ \A x \in Ids \ {o} : parent'[x] = parent[x] /\ origin'[x] = origin[x]
        /\ parent'[o] = NoId /\ origin'[o] = was
    BY <1>1, <1>2 DEF RaceInv, RaceTypeOK
  <1>9. LoneTree'
    BY <1>1, <1>2, <1>5, <1>8 DEF LoneTree, Live
  <1>10. ASSUME NEW x \in rows', NEW p \in rows', MayHang(x, p)' PROVE MayHang(x, p)
    <2>1. p # NoId /\ x \in Ids
      BY <1>1, <1>2
    <2>2. CASE x # o
      <3>1. Above(x)' = Above(x) /\ origin'[x] = origin[x]
        BY <1>2, <1>8, <2>1, <2>2 DEF Above
      <3> QED
        BY <1>1, <1>2, <1>10, <2>1, <3>1, HangsAsBefore
    <2>3. CASE x = o
      <3>1. Above(x)' = was
        BY <1>2, <1>8, <2>3 DEF Above
      <3>2. \A g \in Handlers : handler'[g] = handler[g] \/ handler'[g].step = "idle"
        BY <1>1, <1>2, AfterDone, IdleShape
      <3>3. p # was => MayHang(x, p)
        BY <1>8, <1>10, <2>3, <3>1, <3>2 DEF MayHang
      <3> QED
        BY <1>6, <2>3, <3>3
    <2> QED
      BY <2>2, <2>3
  <1> QED
    BY <1>1, <1>2, <1>4, <1>9, <1>10, NothingNewHangs

\* A row comes back to where it was going to.
LEMMA RestoreAlone ==
    ASSUME AloneInv, lone, NEW h \in Handlers, Restore(h)
    PROVE  LoneTree' /\ LoneRequests' /\ NoCycleAhead'
  <1> USE RaceConstants
  <1> DEFINE o == handler[h].id
             to == handler[h].to
             was == IF handler[h].origin # NoId THEN NoId ELSE origin[o]
  <1>1. /\ LoneTree /\ LoneRequests /\ NoCycleAhead /\ RaceInv
        /\ rows \subseteq Ids /\ trash \subseteq rows /\ NoId \notin rows
    BY DEF AloneInv, RaceInv, RaceTypeOK
  <1>2. /\ handler[h].step = "restore" /\ handler[h].parent = NoId
        /\ o \in rows \ {Root} /\ to \in rows /\ Done(h)
    BY <1>1 DEF Restore, LoneRequests
  <1>3. /\ trash' = trash \ {o}
        /\ parent' = [parent EXCEPT ![o] = to]
        /\ origin' = [origin EXCEPT ![o] = was]
        /\ UNCHANGED rows
    BY <1>1, <1>2 DEF Restore
  <1>4. handler[h] # Idle
    BY <1>2, IdleShape
  <1>5. LoneRequests'
    BY <1>1, <1>2, <1>4, RequestsAfterDone
  <1>6. MayHang(o, to) /\ was \in {origin[o], NoId}
    BY <1>2 DEF MayHang
  <1> HIDE DEF o, to, was
  <1>7. /\ \A x \in Ids \ {o} : parent'[x] = parent[x] /\ origin'[x] = origin[x]
        /\ parent'[o] = to /\ origin'[o] \in {origin[o], NoId}
    BY <1>1, <1>2, <1>3, <1>6 DEF RaceInv, RaceTypeOK
  <1>8. LoneTree'
    BY <1>1, <1>2, <1>3, <1>7 DEF LoneTree, Live
  <1>9. ASSUME NEW x \in rows', NEW p \in rows', MayHang(x, p)' PROVE MayHang(x, p)
    <2>1. p # NoId /\ x \in Ids
      BY <1>1, <1>3
    <2>2. CASE x # o
      <3>1. Above(x)' = Above(x) /\ origin'[x] = origin[x]
        BY <1>3, <1>7, <2>1, <2>2 DEF Above
      <3> QED
        BY <1>1, <1>2, <1>9, <2>1, <3>1, HangsAsBefore
    <2>3. CASE x = o
      <3>1. Above(x)' = to
        BY <1>3, <1>7, <2>3 DEF Above
      <3>2. \A g \in Handlers : handler'[g] = handler[g] \/ handler'[g].step = "idle"
        BY <1>1, <1>2, AfterDone, IdleShape
      <3>3. p # to => MayHang(x, p)
        BY <1>7, <1>9, <2>1, <2>3, <3>1, <3>2 DEF MayHang
      <3> QED
        BY <1>6, <2>3, <3>3
    <2> QED
      BY <2>2, <2>3
  <1> QED
    BY <1>1, <1>3, <1>5, <1>8, <1>9, NothingNewHangs

\* Rows go, and the others hang as they did or are no longer remembered to have.
LEMMA PurgeAlone ==
    ASSUME AloneInv, lone, NEW h \in Handlers, Purge(h)
    PROVE  LoneTree' /\ LoneRequests' /\ NoCycleAhead'
  <1> USE RaceConstants
  <1> DEFINE gone == Subtree(handler[h].id)
  <1>1. /\ LoneTree /\ LoneRequests /\ NoCycleAhead /\ RaceInv
        /\ rows \subseteq Ids /\ trash \subseteq rows /\ NoId \notin rows
    BY DEF AloneInv, RaceInv, RaceTypeOK
  <1>2. /\ handler[h].step = "purge" /\ Done(h)
        /\ rows' = rows \ gone
        /\ trash' = trash \ gone
        /\ parent' = [x \in Ids |-> IF x \in gone THEN NoId ELSE parent[x]]
        /\ origin' = [x \in Ids |-> IF x \in gone \/ origin[x] \in gone THEN NoId ELSE origin[x]]
    BY DEF Purge
  <1>3. handler[h] # Idle
    BY <1>2, IdleShape
  <1>4. LoneRequests'
    BY <1>1, <1>2, <1>3, RequestsAfterDone
  <1> HIDE DEF gone
  <1>5. /\ \A x \in rows' : parent'[x] = parent[x] /\ origin'[x] \in {origin[x], NoId}
        /\ parent'[Root] = NoId /\ origin'[Root] = NoId
    BY <1>1, <1>2 DEF LoneTree
  <1>6. LoneTree'
    BY <1>1, <1>2, <1>5 DEF LoneTree, Live
  <1>7. ASSUME NEW x \in rows', NEW p \in rows', MayHang(x, p)' PROVE MayHang(x, p)
    <2>1. p # NoId /\ Above(x)' \in {Above(x), NoId}
      BY <1>1, <1>2, <1>5 DEF Above
    <2> QED
      BY <1>1, <1>2, <1>5, <1>7, <2>1, HangsAsBefore
  <1> QED
    BY <1>1, <1>2, <1>4, <1>6, <1>7, NothingNewHangs

\* The invariant is kept by every step.
LEMMA AloneInvStep == AloneInv /\ [RaceNext]_raceVars => AloneInv'
  <1> SUFFICES ASSUME AloneInv, [RaceNext]_raceVars PROVE AloneInv'
    OBVIOUS
  <1>1. RaceInv /\ RaceInv'
    BY RaceInvStep DEF AloneInv
  <1>2. lone' = lone
    BY DEF RaceNext, raceVars, CreateCheck, RestoreCheck, DecidesRestore, MoveCheck, DeleteCheck,
       PurgeCheck, Decides, Create, Move, SoftDelete, Restore, Purge, HandlerFails, Done
  <1> SUFFICES ASSUME lone PROVE LoneTree' /\ LoneRequests' /\ NoCycleAhead'
    BY <1>1, <1>2 DEF AloneInv
  <1>3. LoneTree /\ LoneRequests /\ NoCycleAhead
    BY DEF AloneInv
  <1>4. CASE \E h \in Handlers : HandlerFails(h)
    <2> PICK h \in Handlers : HandlerFails(h)
      BY <1>4
    <2>1. Done(h) /\ handler[h] # Idle /\ UNCHANGED <<rows, name, parent, trash, origin>>
      BY DEF HandlerFails, rowVars
    <2>2. LoneTree'
      BY <1>3, <2>1 DEF LoneTree, Live
    <2>3. LoneRequests'
      BY <1>1, <1>3, <2>1, RequestsAfterDone
    <2>4. NoId \notin rows
      BY <1>1, RaceConstants DEF RaceInv, RaceTypeOK
    <2>5. ASSUME NEW x \in rows', NEW p \in rows', MayHang(x, p)' PROVE MayHang(x, p)
      <3>1. p # NoId /\ Above(x)' = Above(x) /\ origin'[x] = origin[x]
        BY <2>1, <2>4 DEF Above
      <3> QED
        BY <1>1, <2>1, <2>5, <3>1, HangsAsBefore
    <2> QED
      BY <1>3, <2>1, <2>2, <2>3, <2>4, <2>5, NothingNewHangs
  <1>5. CASE UNCHANGED raceVars
    <2>1. UNCHANGED <<rows, parent, trash, origin, handler>>
      BY <1>5 DEF raceVars, rowVars
    <2>2. LoneTree'
      BY <1>3, <2>1 DEF LoneTree, Live
    <2>3. LoneRequests'
      BY <1>3, <2>1 DEF LoneRequests, Live, Ancestry, Subtree
    <2>4. \A x \in rows, p \in rows : MayHang(x, p)' <=> MayHang(x, p)
      BY <2>1 DEF MayHang, Above
    <2> QED
      BY <1>3, <2>1, <2>2, <2>3, <2>4 DEF NoCycleAhead
  <1> QED
    BY <1>4, <1>5, ChecksKeepAlone, CreateAlone, MoveAlone, SoftDeleteAlone, RestoreAlone, PurgeAlone
    DEF RaceNext

\* A row of a cycle would hang below one of the others.
LEMMA NothingAheadNoCycle == AloneInv => AcyclicAlone
  <1> SUFFICES ASSUME AloneInv, lone, NEW S \in (SUBSET rows) \ {{}}
               PROVE  \E o \in S : parent[o] \notin S
    BY DEF AcyclicAlone
  <1>1. LoneTree /\ NoCycleAhead /\ NoId \notin rows
    BY RaceConstants DEF AloneInv, RaceInv, RaceTypeOK
  <1>2. PICK o \in S : \A p \in S : ~ MayHang(o, p)
    BY <1>1 DEF NoCycleAhead
  <1>3. o \in trash => parent[o] = NoId
    BY <1>1 DEF LoneTree
  <1> QED
    BY <1>1, <1>2, <1>3 DEF MayHang, Above

\* Requests that overlap close no cycle of parent_id as long as no move is among them
\* and what is moved goes to a folder the user sees.
THEOREM NoCyclesAlone == RaceSpec => []AcyclicAlone
  <1>1. RaceSpec => []AloneInv
    BY AloneInvInit, AloneInvStep, PTL DEF RaceSpec
  <1> QED
    BY <1>1, NothingAheadNoCycle, PTL

-----------------------------------------------------------------------------
(* Logins *)

\* The challenge a request has taken.
Taken(r) == client[r].step \in {"insert", "verify"}

\* A challenge is in one place: a key in Redis, a request, or what it has earned.
OnePlace ==
    /\ \A n \in open : n \notin earned /\ \A p \in Persons : slot[p] # n
    /\ \A p \in Persons : slot[p] # NoNonce =>
          slot[p] \in used \ earned /\ \A q \in Persons \ {p} : slot[q] # slot[p]
    /\ \A r \in Clients : Taken(r) =>
          /\ client[r].nonce \in used \ (open \union earned)
          /\ \A p \in Persons : slot[p] # client[r].nonce
          /\ \A q \in Clients \ {r} : Taken(q) => client[q].nonce # client[r].nonce

LoginsInv == LoginsTypeOK /\ OnePlace /\ ChallengesOnce

\* What the record of a request holds.
LEMMA ClientShape ==
    ASSUME NEW x \in ClientTypes
    PROVE  /\ x.step = "insert" => x.person \in Persons /\ x.nonce \in Nonces
           /\ x.step = "verify" => x.nonce \in Nonces
           /\ x.step = "save" => x.person \in Persons
           /\ x.step = "options" => x.option \in Options
  BY DEF ClientTypes, NotBusy

\* No challenge has been made yet.
LEMMA LoginsInvInit == LoginsInit => LoginsInv
  BY DEF LoginsInit, LoginsInv, LoginsTypeOK, ClientTypes, NotBusy, OnePlace, Taken,
     ChallengesOnce

\* A key of a registration goes, and no other challenge moves.
LEMMA SlotCleared ==
    ASSUME LoginsInv, NEW p \in Persons, slot' = [slot EXCEPT ![p] = NoNonce],
           UNCHANGED <<columns, passkeys, open, used, enabled, secrets, client, earned, again>>
    PROVE  LoginsInv'
  <1>1. /\ slot'[p] = NoNonce /\ \A q \in Persons \ {p} : slot'[q] = slot[q]
        /\ slot' \in [Persons -> Nonces \union {NoNonce}]
    BY DEF LoginsInv, LoginsTypeOK
  <1>2. used \subseteq Nonces /\ NoNonce \notin used /\ open \subseteq used
    BY LoginConstants DEF LoginsInv, LoginsTypeOK
  <1>3. \A n \in open' : n \notin earned' /\ \A q \in Persons : slot'[q] # n
    BY <1>1, <1>2 DEF LoginsInv, OnePlace
  <1>4. \A q \in Persons : slot'[q] # NoNonce =>
          slot'[q] \in used' \ earned' /\ \A o \in Persons \ {q} : slot'[o] # slot'[q]
    BY <1>1 DEF LoginsInv, OnePlace
  <1>5. \A r \in Clients : Taken(r)' =>
          /\ client'[r].nonce \in used' \ (open' \union earned')
          /\ \A q \in Persons : slot'[q] # client'[r].nonce
          /\ \A q \in Clients \ {r} : Taken(q)' => client'[q].nonce # client'[r].nonce
    <2> SUFFICES ASSUME NEW r \in Clients, Taken(r)'
        PROVE  /\ client'[r].nonce \in used' \ (open' \union earned')
               /\ \A q \in Persons : slot'[q] # client'[r].nonce
               /\ \A q \in Clients \ {r} : Taken(q)' => client'[q].nonce # client'[r].nonce
      OBVIOUS
    <2>1. Taken(r) /\ client' = client /\ \A q \in Clients : Taken(q)' <=> Taken(q)
      BY DEF Taken
    <2>2. PICK n : n = client[r].nonce
      OBVIOUS
    <2>3. /\ n \in used \ (open \union earned) /\ \A q \in Persons : slot[q] # n
          /\ \A q \in Clients \ {r} : Taken(q) => client[q].nonce # n
      BY <2>1, <2>2 DEF LoginsInv, OnePlace
    <2>4. \A q \in Persons : slot'[q] # n
      BY <1>1, <1>2, <2>3
    <2> QED
      BY <2>1, <2>2, <2>3, <2>4
  <1>6. OnePlace'
    BY <1>3, <1>4, <1>5 DEF OnePlace
  <1> QED
    BY <1>1, <1>6 DEF LoginsInv, LoginsTypeOK, ChallengesOnce

\* A request begins something that has to do with no challenge, or ends.
LEMMA ClientElsewhere ==
    ASSUME LoginsInv, NEW r \in Clients, NEW x \in ClientTypes,
           client' = [client EXCEPT ![r] = x], x.step \notin {"insert", "verify"},
           UNCHANGED <<slot, open, used, earned>>
    PROVE  client' \in [Clients -> ClientTypes] /\ OnePlace'
  <1>1. /\ client'[r] = x /\ \A q \in Clients \ {r} : client'[q] = client[q]
        /\ client' \in [Clients -> ClientTypes]
    BY DEF LoginsInv, LoginsTypeOK
  <1> QED
    BY <1>1 DEF LoginsInv, OnePlace, Taken

\* The invariant is kept by every step.
LEMMA LoginsInvStep == LoginsInv /\ [LoginsNext]_loginVars => LoginsInv'
  <1> SUFFICES ASSUME LoginsInv, [LoginsNext]_loginVars PROVE LoginsInv'
    OBVIOUS
  <1>0. NotBusy \in ClientTypes /\ NotBusy.step \notin {"insert", "verify"}
    BY DEF ClientTypes, NotBusy
  <1>1. CASE UNCHANGED loginVars
    BY <1>1 DEF LoginsInv, LoginsTypeOK, OnePlace, Taken, ChallengesOnce,
       loginVars, challengeVars, optionVars
  <1>2. ASSUME NEW p \in Persons, ResetPassword(p) PROVE LoginsInv'
    BY <1>2 DEF ResetPassword, LoginsInv, LoginsTypeOK, OnePlace, Taken, ChallengesOnce,
       challengeVars, optionVars
  <1>3. ASSUME NEW r \in Clients, NEW p \in Persons, NEW n \in Nonces, TakeSlot(r, p, n)
        PROVE  LoginsInv'
    <2>1. CASE slot[p] = n
      <3>1. PICK x \in ClientTypes : x.step = "insert" /\ x.nonce = n /\ client' = [client EXCEPT ![r] = x]
        BY <1>3, <2>1 DEF TakeSlot, Starts, ClientTypes
      <3>2. /\ client'[r] = x /\ \A q \in Clients \ {r} : client'[q] = client[q]
            /\ client' \in [Clients -> ClientTypes]
        BY <3>1 DEF LoginsInv, LoginsTypeOK
      <3>3. /\ slot' = [slot EXCEPT ![p] = NoNonce] /\ slot[p] = n /\ n # NoNonce
            /\ UNCHANGED <<columns, passkeys, open, used, enabled, secrets, earned, again>>
        BY <1>3, <2>1 DEF TakeSlot, optionVars
      <3>4. slot'[p] = NoNonce /\ \A q \in Persons \ {p} : slot'[q] = slot[q] /\ slot[q] # n
        BY <3>3 DEF LoginsInv, LoginsTypeOK, OnePlace
      <3>5. n \in used \ (open \union earned) /\ \A q \in Clients : Taken(q) => client[q].nonce # n
        BY <3>3 DEF LoginsInv, OnePlace
      <3>6. NoNonce \notin used
        BY LoginConstants DEF LoginsInv, LoginsTypeOK
      <3>7. \A q \in Clients \ {r} : (Taken(q)' <=> Taken(q)) /\ client'[q].nonce = client[q].nonce
        BY <3>2 DEF Taken
      <3>8. \A q \in Clients : Taken(q)' =>
          /\ client'[q].nonce \in used' \ (open' \union earned')
          /\ \A o \in Persons : slot'[o] # client'[q].nonce
          /\ \A o \in Clients \ {q} : Taken(o)' => client'[o].nonce # client'[q].nonce
        <4> SUFFICES ASSUME NEW q \in Clients, Taken(q)'
            PROVE  /\ client'[q].nonce \in used' \ (open' \union earned')
                   /\ \A o \in Persons : slot'[o] # client'[q].nonce
                   /\ \A o \in Clients \ {q} : Taken(o)' => client'[o].nonce # client'[q].nonce
          OBVIOUS
        <4>1. CASE q = r
          <5>1. client'[q].nonce = n
            BY <3>1, <3>2, <4>1
          <5> QED
            BY <3>3, <3>4, <3>5, <3>6, <3>7, <4>1, <5>1
        <4>2. CASE q # r
          <5>1. PICK m : m = client[q].nonce
            OBVIOUS
          <5>2. /\ m \in used \ (open \union earned) /\ \A o \in Persons : slot[o] # m
                /\ \A o \in Clients \ {q} : Taken(o) => client[o].nonce # m
            BY <3>7, <4>2, <5>1 DEF LoginsInv, OnePlace
          <5>3. client'[q].nonce = m /\ m # n /\ client'[r].nonce = n
            BY <3>1, <3>2, <3>5, <3>7, <4>2, <5>1
          <5>4. \A o \in Persons : slot'[o] # m
            BY <3>4, <3>6, <5>2
          <5>5. \A o \in Clients \ {q} : Taken(o)' => client'[o].nonce # m
            BY <3>7, <5>2, <5>3
          <5> QED
            BY <3>3, <5>2, <5>3, <5>4, <5>5
        <4> QED
          BY <4>1, <4>2
      <3>9. OnePlace'
        <4>1. \A m \in open' : m \notin earned' /\ \A q \in Persons : slot'[q] # m
          BY <3>3, <3>4, <3>6 DEF LoginsInv, LoginsTypeOK, OnePlace
        <4>2. \A q \in Persons : slot'[q] # NoNonce =>
                slot'[q] \in used' \ earned' /\ \A o \in Persons \ {q} : slot'[o] # slot'[q]
          BY <3>3, <3>4 DEF LoginsInv, OnePlace
        <4> QED
          BY <3>8, <4>1, <4>2 DEF OnePlace
      <3> QED
        BY <3>2, <3>3, <3>9 DEF LoginsInv, LoginsTypeOK, ChallengesOnce
    <2>2. CASE slot[p] # n
      BY <1>3, <2>2, SlotCleared DEF TakeSlot, optionVars
    <2> QED
      BY <2>1, <2>2
  <1>4. ASSUME NEW r \in Clients, NEW n \in Nonces, TakeChallenge(r, n)
        PROVE  LoginsInv'
    <2>1. PICK x \in ClientTypes : x.step = "verify" /\ x.nonce = n /\ client' = [client EXCEPT ![r] = x]
      BY <1>4 DEF TakeChallenge, Starts, ClientTypes
    <2>2. /\ client'[r] = x /\ \A q \in Clients \ {r} : client'[q] = client[q]
          /\ client' \in [Clients -> ClientTypes]
      BY <2>1 DEF LoginsInv, LoginsTypeOK
    <2>3. /\ open' = open \ {n} /\ n \in open
          /\ UNCHANGED <<columns, passkeys, slot, used, enabled, secrets, earned, again>>
      BY <1>4 DEF TakeChallenge, optionVars
    <2>4. OnePlace'
      BY <2>1, <2>2, <2>3 DEF LoginsInv, LoginsTypeOK, OnePlace, Taken
    <2> QED
      BY <2>2, <2>3, <2>4 DEF LoginsInv, LoginsTypeOK, ChallengesOnce
  <1>5. ASSUME NEW r \in Clients, InsertPasskey(r) \/ PasskeyLogin(r) PROVE LoginsInv'
    <2>0. PICK n : n = client[r].nonce
      OBVIOUS
    <2>1. /\ Taken(r) /\ client' = [client EXCEPT ![r] = NotBusy]
          /\ UNCHANGED <<columns, slot, open, used, enabled, secrets>>
          /\ Earns(n) \/ UNCHANGED <<earned, again>>
      BY <1>5, <2>0 DEF InsertPasskey, PasskeyLogin, Stops, Taken, challengeVars, optionVars
    <2>2. n \in used \ (open \union earned) /\ n \in Nonces
      BY <2>0, <2>1 DEF LoginsInv, LoginsTypeOK, OnePlace
    <2>3. passkeys' \subseteq Persons \X Nonces
      <3>1. CASE PasskeyLogin(r)
        BY <3>1 DEF PasskeyLogin, LoginsInv, LoginsTypeOK
      <3>2. CASE InsertPasskey(r)
        <4>1. client[r].person \in Persons
          BY <3>2, ClientShape DEF InsertPasskey, LoginsInv, LoginsTypeOK
        <4>2. passkeys' = passkeys \/ passkeys' = passkeys \union {<<client[r].person, n>>}
          BY <2>0, <3>2 DEF InsertPasskey
        <4> QED
          BY <2>2, <4>1, <4>2 DEF LoginsInv, LoginsTypeOK
      <3> QED
        BY <1>5, <3>1, <3>2
    <2>4. again' = {} /\ earned' \subseteq earned \union {n}
      BY <2>1, <2>2 DEF Earns, LoginsInv, ChallengesOnce
    <2>5. /\ client'[r] = NotBusy /\ \A q \in Clients \ {r} : client'[q] = client[q]
          /\ client' \in [Clients -> ClientTypes]
      BY <1>0, <2>1 DEF LoginsInv, LoginsTypeOK
    <2>6. OnePlace'
      BY <1>0, <2>0, <2>1, <2>2, <2>4, <2>5 DEF LoginsInv, OnePlace, Taken
    <2> QED
      BY <2>1, <2>2, <2>3, <2>4, <2>5, <2>6
      DEF LoginsInv, LoginsTypeOK, ChallengesOnce
  <1>6. ASSUME NEW r \in Clients, NEW p \in Persons, NEW number \in BOOLEAN, LoadUser(r, p, number)
        PROVE  LoginsInv'
    <2>1. PICK x : /\ x = [step |-> "save", person |-> p, number |-> number,
                           old |-> "phone" \in columns[p]]
                   /\ client' = [client EXCEPT ![r] = x]
      BY <1>6 DEF LoadUser, Starts
    <2>a. x.step = "save" /\ x \in ClientTypes
      BY <2>1 DEF ClientTypes
    <2>2. UNCHANGED <<columns, passkeys, slot, open, used, enabled, secrets, earned, again>>
      BY <1>6 DEF LoadUser, challengeVars, optionVars
    <2>3. client' \in [Clients -> ClientTypes] /\ OnePlace'
      BY <2>1, <2>a, <2>2, ClientElsewhere
    <2> QED
      BY <2>2, <2>3 DEF LoginsInv, LoginsTypeOK, ChallengesOnce
  <1>7. ASSUME NEW r \in Clients, NEW o \in Options, NEW on \in BOOLEAN, NEW given \in BOOLEAN,
               LoadOptions(r, o, on, given)
        PROVE  LoginsInv'
    <2>1. PICK x : /\ x = [step |-> "options", option |-> o, on |-> on, given |-> given,
                           wasOn |-> o \in enabled, hadSecret |-> o \in secrets]
                   /\ client' = [client EXCEPT ![r] = x]
      BY <1>7 DEF LoadOptions, Starts
    <2>a. x.step = "options" /\ x \in ClientTypes
      BY <2>1 DEF ClientTypes
    <2>2. UNCHANGED <<columns, passkeys, slot, open, used, enabled, secrets, earned, again>>
      BY <1>7 DEF LoadOptions, challengeVars, optionVars
    <2>3. client' \in [Clients -> ClientTypes] /\ OnePlace'
      BY <2>1, <2>a, <2>2, ClientElsewhere
    <2> QED
      BY <2>2, <2>3 DEF LoginsInv, LoginsTypeOK, ChallengesOnce
  <1>8. ASSUME NEW r \in Clients, SaveUser(r) \/ SaveOptions(r) \/ ClientDies(r) PROVE LoginsInv'
    <2>1. /\ client' = [client EXCEPT ![r] = NotBusy]
          /\ UNCHANGED <<passkeys, slot, open, used, earned, again>>
      BY <1>8 DEF SaveUser, SaveOptions, ClientDies, Stops, challengeVars
    <2>2. client' \in [Clients -> ClientTypes] /\ OnePlace'
      BY <1>0, <2>1, ClientElsewhere
    <2>3. columns' \in [Persons -> SUBSET {"password", "phone", "github"}]
      <3>1. CASE SaveUser(r)
        <4>1. client[r].person \in Persons
          BY <3>1, ClientShape DEF SaveUser, LoginsInv, LoginsTypeOK
        <4>2. Written(client[r]) \subseteq {"password", "phone", "github"}
          BY <4>1 DEF Written, LoginsInv, LoginsTypeOK
        <4> QED
          BY <3>1, <4>1, <4>2 DEF SaveUser, LoginsInv, LoginsTypeOK
      <3>2. CASE ~SaveUser(r)
        BY <1>8, <3>2 DEF SaveOptions, ClientDies, LoginsInv, LoginsTypeOK
      <3> QED
        BY <3>1, <3>2
    <2>4. enabled' \subseteq Options /\ secrets' \subseteq Options
      <3>1. CASE SaveOptions(r)
        <4>1. client[r].option \in Options
          BY <3>1, ClientShape DEF SaveOptions, LoginsInv, LoginsTypeOK
        <4>2. /\ With(enabled, client[r].option, client[r].on, client[r].wasOn) \subseteq Options
              /\ With(secrets, client[r].option, client[r].given, client[r].hadSecret) \subseteq Options
          BY <4>1 DEF With, LoginsInv, LoginsTypeOK
        <4> QED
          BY <3>1, <4>2 DEF SaveOptions, optionVars, LoginsInv, LoginsTypeOK
      <3>2. CASE ~SaveOptions(r)
        BY <1>8, <3>2 DEF SaveUser, ClientDies, optionVars, LoginsInv, LoginsTypeOK
      <3> QED
        BY <3>1, <3>2
    <2> QED
      BY <2>1, <2>2, <2>3, <2>4 DEF LoginsInv, LoginsTypeOK, ChallengesOnce
  <1>9. ASSUME NEW n \in Nonces, LoginOptions(n) \/ ChallengeExpires(n) PROVE LoginsInv'
    BY <1>9, LoginConstants DEF LoginOptions, ChallengeExpires, LoginsInv, LoginsTypeOK, OnePlace, Taken,
       ChallengesOnce, optionVars
  <1>10. ASSUME NEW p \in Persons, SlotExpires(p) PROVE LoginsInv'
    BY <1>10, SlotCleared DEF SlotExpires, optionVars
  <1>11. ASSUME NEW p \in Persons, NEW n \in Nonces, StartRegistration(p, n) PROVE LoginsInv'
    BY <1>11, LoginConstants DEF StartRegistration, LoginsInv, LoginsTypeOK, OnePlace, Taken,
       ChallengesOnce, optionVars
  <1> QED
    BY <1>1, <1>2, <1>3, <1>4, <1>5, <1>6, <1>7, <1>8, <1>9, <1>10, <1>11 DEF LoginsNext

\* LoginsInv holds in every state.
THEOREM LoginsInvariant == LoginsSpec => []LoginsInv
  BY LoginsInvInit, LoginsInvStep, PTL DEF LoginsSpec

\* A challenge is good for one session or one passkey, however many requests bring
\* the answer to it.
THEOREM ChallengesStayOnce == LoginsSpec => []ChallengesOnce
  <1>1. LoginsInv => ChallengesOnce
    BY DEF LoginsInv
  <1> QED
    BY <1>1, LoginsInvariant, PTL

-----------------------------------------------------------------------------
(* Viewers *)

\* What a query has noted: an application that is left to look at, or is offered,
\* was enabled meanwhile, and open to the group unless that is yet to be looked at.
Noted ==
    \A c \in Callers : call[c].step = "filter" =>
        /\ call[c].left \union call[c].offered \subseteq wasOn[c]
        /\ \A a \in call[c].offered \union (call[c].left \ call[c].limited) :
              <<a, call[c].team>> \in wasOpen[c]

\* The rows, and those a request has read, are finitely many.
FiniteRows ==
    /\ IsFiniteSet(carries) /\ IsFiniteSet(grants)
    /\ \A c \in Callers : call[c].step \in {"extensions", "groups"} => IsFiniteSet(call[c].old)

ViewersInv == ViewersTypeOK /\ FiniteRows /\ Noted

\* What the record of a request holds.
LEMMA CallShape ==
    ASSUME NEW x \in CallTypes
    PROVE  /\ x.step = "fill" => x.app \in Apps /\ x.groups \subseteq Teams
           /\ x.step = "patch" => x.app \in Apps /\ x.old \subseteq Flags /\ x.new \subseteq Flags
           /\ x.step = "extensions" =>
                x.app \in Apps /\ x.exts \subseteq Exts /\ x.old \subseteq Apps \X Exts \X Nat
           /\ x.step = "groups" =>
                x.app \in Apps /\ x.groups \subseteq Teams /\ x.old \subseteq Apps \X Teams \X Nat
           /\ x.step = "filter" =>
                x \in [step : {"filter"}, team : Teams, session : BOOLEAN, offered : SUBSET Apps,
                       left : SUBSET Apps, limited : SUBSET Apps]
  <1>1. CASE x.step = "fill"
    BY <1>1 DEF CallTypes, Hangup
  <1>2. CASE x.step = "patch"
    BY <1>2 DEF CallTypes, Hangup
  <1>3. CASE x.step = "extensions"
    BY <1>3 DEF CallTypes, Hangup
  <1>4. CASE x.step = "groups"
    BY <1>4 DEF CallTypes, Hangup
  <1>5. CASE x.step = "filter"
    BY <1>5 DEF CallTypes, Hangup
  <1> QED
    BY <1>1, <1>2, <1>3, <1>4, <1>5

\* What a function gives for finitely many arguments is finitely many.
LEMMA FiniteImage ==
    ASSUME NEW S, IsFiniteSet(S), NEW f
    PROVE  IsFiniteSet({f[x] : x \in S})
  <1> DEFINE T == {f[x] : x \in S}
             g == [x \in S |-> f[x]]
  <1>1. g \in Surjection(S, T)
    BY DEF Surjection
  <1> QED
    BY <1>1, FS_Surjection

\* A free number is among the first, one more than there are taken.
LEMMA FreeNumber ==
    ASSUME NEW S, IsFiniteSet(S)
    PROVE  \E n \in 1..(Cardinality(S) + 1) : n \notin S
  <1>1. PICK k \in Nat : k = Cardinality(S)
    BY FS_CardinalityType
  <1>2. IsFiniteSet(1..(k + 1)) /\ Cardinality(1..(k + 1)) = k + 1
    BY FS_Interval
  <1> SUFFICES ASSUME 1..(k + 1) \subseteq S PROVE FALSE
    BY <1>1
  <1>3. Cardinality(1..(k + 1)) <= Cardinality(S)
    BY FS_Subset
  <1> QED
    BY <1>1, <1>2, <1>3

\* The mark of a new row is a number that no row has that is there or was read.
LEMMA FreshMark ==
    ASSUME ViewersInv, NEW table, IsFiniteSet(table), NEW step \in {"extensions", "groups"}
    PROVE  Fresh(table, step) \in Nat \ Marks(table, step)
  <1> DEFINE C == {d \in Callers : call[d].step = step}
             old == [c \in C |-> call[c].old]
             all == table \union UNION {old[c] : c \in C}
  <1>1. IsFiniteSet(C)
    BY ViewerConstants, FS_Subset
  <1>2. IsFiniteSet({old[c] : c \in C})
    BY <1>1, FiniteImage
  <1>3. \A T \in {old[c] : c \in C} : IsFiniteSet(T)
    BY DEF ViewersInv, FiniteRows
  <1>4. IsFiniteSet(UNION {old[c] : c \in C})
    BY <1>2, <1>3, FS_UNION
  <1>5. IsFiniteSet(all)
    BY <1>4, FS_Union
  <1>6. PICK S, mark : S = all /\ mark = [row \in S |-> row[3]]
    OBVIOUS
  <1>7. Marks(table, step) = {mark[row] : row \in S} /\ IsFiniteSet({mark[row] : row \in S})
    <2>1. IsFiniteSet({mark[row] : row \in S})
      <3>1. IsFiniteSet(S)
        BY <1>5, <1>6
      <3> HIDE DEF all, old, C
      <3> QED
        BY <3>1, FiniteImage
    <2>2. Marks(table, step) = {mark[row] : row \in S}
      BY <1>6 DEF Marks
    <2> QED
      BY <2>1, <2>2
  <1>8. PICK M : M = Marks(table, step)
    OBVIOUS
  <1>9. PICK k \in Nat : k = Cardinality(M)
    BY <1>7, <1>8, FS_CardinalityType
  <1>10. \E n \in 1..(k + 1) : n \notin M
    BY <1>7, <1>8, <1>9, FreeNumber
  <1>11. Fresh(table, step) = CHOOSE n \in 1..(k + 1) : n \notin M
    BY <1>8, <1>9 DEF Fresh
  <1>12. Fresh(table, step) \in 1..(k + 1) /\ Fresh(table, step) \notin M
    BY <1>10, <1>11
  <1> QED
    BY <1>8, <1>12

\* Nothing is registered yet.
LEMMA ViewersInvInit == ViewersInit => ViewersInv
  <1> SUFFICES ASSUME ViewersInit PROVE ViewersInv
    OBVIOUS
  <1>1. Hangup \in CallTypes /\ Hangup.step = "none"
    BY DEF CallTypes, Hangup
  <1>2. ViewersTypeOK
    BY <1>1 DEF ViewersInit, ViewersTypeOK
  <1>3. FiniteRows
    BY <1>1, FS_EmptySet DEF ViewersInit, FiniteRows
  <1>4. Noted
    BY <1>1 DEF ViewersInit, Noted
  <1> QED
    BY <1>2, <1>3, <1>4 DEF ViewersInv

\* The tables and the requests as they should be, without what is remembered.
Rows ==
    /\ apps \in [Apps -> {Unborn, Gone} \union SUBSET Flags]
    /\ carries \subseteq Registered \X Exts \X Nat
    /\ grants \subseteq Registered \X Teams \X Nat
    /\ favourites \subseteq Teams \X Exts \X Registered
    /\ call \in [Callers -> CallTypes]
    /\ FiniteRows

\* A request goes on to what it should be, and the tables stay.
LEMMA CallGoesOn ==
    ASSUME Rows, NEW c \in Callers, NEW x \in CallTypes,
           x.step \in {"extensions", "groups"} => IsFiniteSet(x.old),
           call' = [call EXCEPT ![c] = x], UNCHANGED appVars
    PROVE  Rows'
  <1>1. /\ call'[c] = x /\ \A d \in Callers \ {c} : call'[d] = call[d]
        /\ call' \in [Callers -> CallTypes]
    BY DEF Rows
  <1>2. Registered' = Registered /\ UNCHANGED <<apps, carries, grants, favourites>>
    BY DEF Registered, appVars
  <1>3. FiniteRows'
    BY <1>1, <1>2 DEF Rows, FiniteRows
  <1> QED
    BY <1>1, <1>2, <1>3 DEF Rows

\* The tables change, and a request ends or goes on as it was.
LEMMA RowsChange ==
    ASSUME Rows, UNCHANGED call \/ \E c \in Callers : HangsUp(c),
           apps' \in [Apps -> {Unborn, Gone} \union SUBSET Flags],
           carries' \subseteq Registered' \X Exts \X Nat, IsFiniteSet(carries'),
           grants' \subseteq Registered' \X Teams \X Nat, IsFiniteSet(grants'),
           favourites' \subseteq Teams \X Exts \X Registered'
    PROVE  Rows'
  <1>1. Hangup \in CallTypes /\ Hangup.step = "none"
    BY DEF CallTypes, Hangup
  <1>2. /\ call' \in [Callers -> CallTypes]
        /\ \A d \in Callers : call'[d] = call[d] \/ call'[d] = Hangup
    BY <1>1 DEF Rows, HangsUp
  <1>3. FiniteRows'
    BY <1>1, <1>2 DEF Rows, FiniteRows
  <1> QED
    BY <1>2, <1>3 DEF Rows

\* The rows that a request inserts, all with one mark.
LEMMA NewRows ==
    ASSUME NEW a, NEW n, NEW X, IsFiniteSet(X)
    PROVE  IsFiniteSet({<<a, x, n>> : x \in X})
  <1>1. PICK f : f = [x \in X |-> <<a, x, n>>]
    OBVIOUS
  <1>2. IsFiniteSet({f[x] : x \in X})
    BY FiniteImage
  <1>3. {f[x] : x \in X} = {<<a, x, n>> : x \in X}
    BY <1>1
  <1> QED
    BY <1>2, <1>3

\* What a request of the administration writes.
LEMMA AppStep ==
    ASSUME ViewersInv, Rows, NEW c \in Callers, SaveApp(c)
    PROVE  Rows'
  <1>1. call[c].app \in Apps /\ call[c].old \subseteq Flags /\ call[c].new \subseteq Flags
    BY CallShape DEF SaveApp, Rows
  <1>2. apps' \in [Apps -> {Unborn, Gone} \union SUBSET Flags]
    BY <1>1 DEF SaveApp, Rows, Registered
  <1>3. Registered' = Registered
    BY <1>1 DEF SaveApp, Rows, Registered
  <1> QED
    BY <1>2, <1>3, RowsChange DEF SaveApp, Rows, FiniteRows

\* The extensions of an application.
LEMMA ExtensionsStep ==
    ASSUME ViewersInv, Rows, NEW c \in Callers, NEW x \in Exts,
           AddExtension(c, x) \/ ReplaceExtensions(c)
    PROVE  Rows'
  <1>1. Registered' = Registered /\ UNCHANGED <<apps, grants, favourites>>
    BY DEF AddExtension, ReplaceExtensions, Registered
  <1>2. IsFiniteSet(carries) /\ carries \subseteq Registered \X Exts \X Nat
    BY DEF Rows, FiniteRows
  <1>3. PICK n : n = Fresh(carries, "extensions")
    OBVIOUS
  <1>4. n \in Nat
    BY <1>2, <1>3, FreshMark
  <1>5. PICK a : a = call[c].app
    OBVIOUS
  <1>6. PICK X \in SUBSET Exts, k \in SUBSET carries : carries' = k \union {<<a, y, n>> : y \in X} /\ (X # {} => a \in Registered)
    <2>1. CASE AddExtension(c, x) /\ carries' = carries
      BY <2>1
    <2>2. CASE AddExtension(c, x) /\ carries' # carries
      <3>1. carries' = carries \union {<<a, y, n>> : y \in {x}} /\ a \in Registered
        BY <1>3, <1>5, <2>2 DEF AddExtension
      <3> QED
        BY <3>1
    <2>3. CASE ReplaceExtensions(c)
      <3>1. call[c].exts \subseteq Exts
        BY <2>3, CallShape DEF ReplaceExtensions, Rows
      <3>2. carries' = carries \/ /\ carries' = (carries \ call[c].old) \union {<<a, y, n>> : y \in call[c].exts}
                                  /\ a \in Registered
        BY <1>3, <1>5, <2>3 DEF ReplaceExtensions
      <3>3. carries' = carries => carries' = carries \union {<<a, y, n>> : y \in {}}
        OBVIOUS
      <3> QED
        BY <3>1, <3>2, <3>3
    <2> QED
      BY <2>1, <2>2, <2>3
  <1>7. carries' \subseteq Registered \X Exts \X Nat
    BY <1>2, <1>4, <1>6
  <1>8. IsFiniteSet({<<a, y, n>> : y \in X})
    <2>1. IsFiniteSet(X)
      BY ViewerConstants, FS_Subset
    <2> QED
      BY <2>1, NewRows
  <1>9. IsFiniteSet(k)
    BY <1>2, FS_Subset
  <1>10. IsFiniteSet(carries')
    BY <1>6, <1>8, <1>9, FS_Union
  <1>11. HangsUp(c) \/ UNCHANGED call
    BY DEF AddExtension, ReplaceExtensions
  <1> QED
    BY <1>1, <1>7, <1>10, <1>11, RowsChange DEF Rows, FiniteRows

\* The groups of an application.
LEMMA GroupsStep ==
    ASSUME ViewersInv, Rows, NEW c \in Callers, LinkGroups(c) \/ ReplaceGroups(c)
    PROVE  Rows'
  <1>1. Registered' = Registered /\ UNCHANGED <<apps, carries, favourites>>
    BY DEF LinkGroups, ReplaceGroups, Registered
  <1>2. IsFiniteSet(grants) /\ grants \subseteq Registered \X Teams \X Nat
    BY DEF Rows, FiniteRows
  <1>3. PICK n : n = Fresh(grants, "groups")
    OBVIOUS
  <1>4. n \in Nat
    BY <1>2, <1>3, FreshMark
  <1>5. PICK a : a = call[c].app
    OBVIOUS
  <1>6. call[c].groups \subseteq Teams
    BY CallShape DEF LinkGroups, ReplaceGroups, Rows
  <1>7. PICK G \in SUBSET Teams, k \in SUBSET grants : grants' = k \union {<<a, g, n>> : g \in G} /\ (G # {} => a \in Registered)
    <2>1. CASE grants' = grants
      <3>1. grants' = grants \union {<<a, g, n>> : g \in {}}
        BY <2>1
      <3> QED
        BY <3>1
    <2>2. CASE grants' # grants /\ LinkGroups(c)
      <3>1. grants' = grants \union {<<a, g, n>> : g \in call[c].groups}
        BY <1>3, <1>5, <2>2 DEF LinkGroups
      <3>2. a \in Registered
        BY <1>5, <2>2 DEF LinkGroups
      <3> QED
        BY <1>6, <3>1, <3>2
    <2>3. CASE grants' # grants /\ ReplaceGroups(c)
      <3>1. grants' = (grants \ call[c].old) \union {<<a, g, n>> : g \in call[c].groups}
        BY <1>3, <1>5, <2>3 DEF ReplaceGroups
      <3>2. a \in Registered
        BY <1>5, <2>3 DEF ReplaceGroups
      <3> QED
        BY <1>6, <3>1, <3>2
    <2> QED
      BY <2>1, <2>2, <2>3
  <1>8. grants' \subseteq Registered \X Teams \X Nat
    BY <1>2, <1>4, <1>7
  <1>9. IsFiniteSet({<<a, g, n>> : g \in G})
    <2>1. IsFiniteSet(G)
      BY ViewerConstants, FS_Subset
    <2> QED
      BY <2>1, NewRows
  <1>10. IsFiniteSet(k)
    BY <1>2, FS_Subset
  <1>11. IsFiniteSet(grants')
    BY <1>7, <1>9, <1>10, FS_Union
  <1>12. HangsUp(c) \/ UNCHANGED call
    BY DEF LinkGroups, ReplaceGroups
  <1> QED
    BY <1>1, <1>8, <1>11, <1>12, RowsChange DEF Rows, FiniteRows

\* An application that comes, and one that goes with all that is about it.
LEMMA ComesAndGoes ==
    ASSUME ViewersInv, Rows, NEW a \in Apps
    PROVE  /\ \A c \in Callers, flags \in SUBSET Flags, G \in SUBSET Teams :
                CreateApp(c, a, flags, G) => Rows'
           /\ DeleteApp(a) => Rows'
  <1>1. ASSUME NEW c \in Callers, NEW flags \in SUBSET Flags, NEW G \in SUBSET Teams,
               CreateApp(c, a, flags, G)
        PROVE  Rows'
    <2>1. PICK x : x = [step |-> "fill", app |-> a, groups |-> G]
      OBVIOUS
    <2>2. x \in CallTypes /\ x.step = "fill"
      BY <2>1 DEF CallTypes
    <2>3. call' = [call EXCEPT ![c] = x]
      BY <1>1, <2>1 DEF CreateApp, Calls
    <2>4. /\ call'[c] = x /\ \A d \in Callers \ {c} : call'[d] = call[d]
          /\ call' \in [Callers -> CallTypes]
      BY <2>2, <2>3 DEF Rows
    <2>5. apps' \in [Apps -> {Unborn, Gone} \union SUBSET Flags]
      BY <1>1 DEF CreateApp, Rows
    <2>6. Registered \subseteq Registered'
      BY <1>1 DEF CreateApp, Rows, Registered, Unborn, Flags
    <2>7. FiniteRows'
      BY <1>1, <2>2, <2>4 DEF CreateApp, Rows, FiniteRows
    <2>8. UNCHANGED <<carries, grants, favourites>>
      BY <1>1 DEF CreateApp
    <2> QED
      BY <2>4, <2>5, <2>6, <2>7, <2>8 DEF Rows
  <1>2. ASSUME DeleteApp(a) PROVE Rows'
    <2>1. apps' \in [Apps -> {Unborn, Gone} \union SUBSET Flags]
      BY <1>2 DEF DeleteApp, Rows
    <2>2. Registered \ {a} \subseteq Registered'
      BY <1>2 DEF DeleteApp, Rows, Registered
    <2>3. carries' \subseteq carries /\ \A row \in carries' : row[1] # a
      BY <1>2 DEF DeleteApp
    <2>4. grants' \subseteq grants /\ \A row \in grants' : row[1] # a
      BY <1>2 DEF DeleteApp
    <2>5. favourites' \subseteq favourites /\ \A row \in favourites' : row[3] # a
      BY <1>2 DEF DeleteApp
    <2>6. carries' \subseteq Registered' \X Exts \X Nat
      BY <2>2, <2>3 DEF Rows
    <2>7. grants' \subseteq Registered' \X Teams \X Nat
      BY <2>2, <2>4 DEF Rows
    <2>8. favourites' \subseteq Teams \X Exts \X Registered'
      BY <2>2, <2>5 DEF Rows
    <2>9. IsFiniteSet(carries')
      BY <2>3, FS_Subset DEF Rows, FiniteRows
    <2>10. IsFiniteSet(grants')
      BY <2>4, FS_Subset DEF Rows, FiniteRows
    <2>11. UNCHANGED call
      BY <1>2 DEF DeleteApp
    <2> QED
      BY <2>1, <2>6, <2>7, <2>8, <2>9, <2>10, <2>11, RowsChange
  <1> QED
    BY <1>1, <1>2

\* A request that reads and remembers what it has read.
LEMMA ReadStep ==
    ASSUME ViewersInv, Rows, NEW c \in Callers, NEW a \in Apps,
           \/ \E flags \in SUBSET Flags : LoadApp(c, a, flags)
           \/ \E X \in SUBSET Exts : LoadExtensions(c, a, X) \/ Discover(c, a, X)
           \/ \E G \in SUBSET Teams : LoadGroups(c, a, G)
    PROVE  Rows' /\ call'[c].step # "filter" /\ \A d \in Callers \ {c} : call'[d] = call[d]
  <1>1. ASSUME NEW flags \in SUBSET Flags, LoadApp(c, a, flags)
        PROVE  Rows' /\ call'[c].step # "filter" /\ \A d \in Callers \ {c} : call'[d] = call[d]
    <2>1. PICK x : x = [step |-> "patch", app |-> a, old |-> apps[a], new |-> flags]
      OBVIOUS
    <2>2. x \in CallTypes /\ x.step = "patch"
      BY <1>1, <2>1 DEF LoadApp, Registered, CallTypes
    <2>3. call' = [call EXCEPT ![c] = x] /\ UNCHANGED appVars
      BY <1>1, <2>1 DEF LoadApp, Calls
    <2>4. Rows'
      BY <2>2, <2>3, CallGoesOn
    <2> QED
      BY <2>2, <2>3, <2>4 DEF Rows
  <1>2. ASSUME NEW X \in SUBSET Exts, LoadExtensions(c, a, X) \/ Discover(c, a, X)
        PROVE  Rows' /\ call'[c].step # "filter" /\ \A d \in Callers \ {c} : call'[d] = call[d]
    <2>1. PICK old : old = {row \in carries : row[1] = a}
      OBVIOUS
    <2>2. IsFiniteSet(old)
      BY <2>1, FS_Subset DEF Rows, FiniteRows
    <2>3. old \subseteq Apps \X Exts \X Nat
      BY <2>1 DEF Rows, Registered
    <2>4. PICK x : x = [step |-> "extensions", app |-> a, exts |-> X, old |-> old]
      OBVIOUS
    <2>5. x \in CallTypes /\ x.step = "extensions" /\ x.old = old
      BY <2>3, <2>4 DEF CallTypes
    <2>6. call' = [call EXCEPT ![c] = x] /\ UNCHANGED appVars
      BY <1>2, <2>1, <2>4 DEF Discover, LoadExtensions, Calls
    <2>7. Rows'
      BY <2>2, <2>5, <2>6, CallGoesOn
    <2> QED
      BY <2>5, <2>6, <2>7 DEF Rows
  <1>3. ASSUME NEW G \in SUBSET Teams, LoadGroups(c, a, G)
        PROVE  Rows' /\ call'[c].step # "filter" /\ \A d \in Callers \ {c} : call'[d] = call[d]
    <2>1. PICK old : old = {row \in grants : row[1] = a}
      OBVIOUS
    <2>2. IsFiniteSet(old)
      BY <2>1, FS_Subset DEF Rows, FiniteRows
    <2>3. old \subseteq Apps \X Teams \X Nat
      BY <2>1 DEF Rows, Registered
    <2>4. PICK x : x = [step |-> "groups", app |-> a, groups |-> G, old |-> old]
      OBVIOUS
    <2>5. x \in CallTypes /\ x.step = "groups" /\ x.old = old
      BY <2>3, <2>4 DEF CallTypes
    <2>6. call' = [call EXCEPT ![c] = x] /\ UNCHANGED appVars
      BY <1>3, <2>1, <2>4 DEF LoadGroups, Calls
    <2>7. Rows'
      BY <2>2, <2>5, <2>6, CallGoesOn
    <2> QED
      BY <2>5, <2>6, <2>7 DEF Rows
  <1> QED
    BY <1>1, <1>2, <1>3

\* A query begins with what is enabled, and of that what is open to all has been
\* seen to be open.
LEMMA AskStep ==
    ASSUME ViewersInv, Rows, NEW c \in Callers, NEW g \in Teams, NEW x \in Exts,
           NEW session \in BOOLEAN, NEW wopi \in SUBSET Apps, AskViewers(c, g, x, session, wopi)
    PROVE  /\ Rows' /\ call[c].step # "filter" /\ call'[c].step = "filter"
           /\ \A d \in Callers \ {c} : call'[d] = call[d]
           /\ call'[c].left \subseteq OnNow /\ call'[c].offered = {}
           /\ \A a \in call'[c].left \ call'[c].limited : <<a, call'[c].team>> \in OpenNow
  <1>1. PICK usable : usable = {a \in Registered : /\ x \in Carried(a) /\ "enabled" \in apps[a]
                                                   /\ session => a \in wopi}
    OBVIOUS
  <1>2. PICK y : y = [step |-> "filter", team |-> g, session |-> session, offered |-> {},
                      left |-> usable, limited |-> {a \in usable : "restricted" \in apps[a]}]
    OBVIOUS
  <1>3. usable \subseteq OnNow /\ usable \subseteq Apps
    BY <1>1 DEF OnNow, Registered
  <1>4. y \in CallTypes /\ y.step = "filter"
    BY <1>2, <1>3 DEF CallTypes
  <1>5. call[c] = Hangup /\ call' = [call EXCEPT ![c] = y] /\ UNCHANGED appVars
    BY <1>1, <1>2 DEF AskViewers, Calls
  <1>6. Rows'
    BY <1>4, <1>5, CallGoesOn
  <1>7. call[c].step # "filter"
    BY <1>5 DEF Hangup
  <1>8. \A a \in y.left \ y.limited : <<a, y.team>> \in OpenNow
    BY <1>2, <1>3 DEF OnNow, OpenNow
  <1>9. call'[c] = y /\ \A d \in Callers \ {c} : call'[d] = call[d]
    BY <1>5 DEF Rows
  <1>10. y.left = usable /\ y.offered = {}
    BY <1>2
  <1> QED
    BY <1>3, <1>4, <1>6, <1>7, <1>8, <1>9, <1>10

\* A query looks at one application, and offers it when it is open to all or to
\* the group.
LEMMA FilterStep ==
    ASSUME ViewersInv, Rows, NEW c \in Callers, NEW a \in Apps, CheckViewer(c, a)
    PROVE  /\ Rows' /\ call[c].step = "filter" /\ call'[c].step = "filter"
           /\ UNCHANGED appVars /\ \A d \in Callers \ {c} : call'[d] = call[d]
           /\ call'[c].team = call[c].team /\ call'[c].limited = call[c].limited
           /\ a \in call[c].left /\ call'[c].left \subseteq call[c].left
           /\ call'[c].offered \subseteq call[c].offered \union {a}
           /\ a \in call'[c].offered \ call[c].offered =>
                 a \notin call[c].limited \/ <<a, call[c].team>> \in OpenNow
  <1>1. PICK permitted \in BOOLEAN : permitted <=> a \notin call[c].limited \/ Linked(a, call[c].team)
    OBVIOUS
  <1>2. PICK q : q = call[c]
    OBVIOUS
  <1>3. q \in [step : {"filter"}, team : Teams, session : BOOLEAN, offered : SUBSET Apps,
               left : SUBSET Apps, limited : SUBSET Apps]
    BY <1>2, CallShape DEF CheckViewer, Filter, Rows
  <1>4. PICK y : y = [q EXCEPT !.offered = IF permitted THEN @ \union {a} ELSE @,
                               !.left = IF permitted /\ q.session THEN {} ELSE @ \ {a}]
    OBVIOUS
  <1>5. /\ y \in [step : {"filter"}, team : Teams, session : BOOLEAN, offered : SUBSET Apps,
                  left : SUBSET Apps, limited : SUBSET Apps]
        /\ y.team = q.team /\ y.limited = q.limited /\ y.left \subseteq q.left
        /\ y.offered \subseteq q.offered \union {a} /\ y.step = "filter"
        /\ ~permitted => y.offered = q.offered
    BY <1>3, <1>4
  <1>6. y \in CallTypes
    BY <1>5 DEF CallTypes
  <1>7. UNCHANGED appVars /\ a \in q.left
    BY <1>2 DEF CheckViewer, Filter
  <1>8. call' = [call EXCEPT ![c] = y]
    BY <1>1, <1>2, <1>4 DEF CheckViewer, Filter, Rows
  <1>9. Rows'
    BY <1>5, <1>6, <1>7, <1>8, CallGoesOn
  <1>10. call'[c] = y /\ \A d \in Callers \ {c} : call'[d] = call[d]
    BY <1>8 DEF Rows
  <1>11. Linked(a, q.team) => <<a, q.team>> \in OpenNow
    BY <1>3 DEF Linked, OpenNow, Rows
  <1> QED
    BY <1>1, <1>2, <1>3, <1>5, <1>7, <1>9, <1>10, <1>11

\* What a user prefers.
LEMMA FavouriteStep ==
    ASSUME ViewersInv, Rows,
           \/ \E g \in Teams, x \in Exts, a \in Apps : SetFavourite(g, x, a)
           \/ \E row \in favourites : DropFavourite(row)
    PROVE  Rows' /\ UNCHANGED call
  <1>1. UNCHANGED <<apps, carries, grants, call>> /\ favourites' \subseteq Teams \X Exts \X Registered
    BY DEF SetFavourite, DropFavourite, Rows
  <1>2. Registered' = Registered
    BY <1>1 DEF Registered
  <1> QED
    BY <1>1, <1>2, RowsChange DEF Rows, FiniteRows

\* Every step keeps the tables and the requests; and a request goes on as it was, or
\* ends, or begins a query, or looks at one application.
LEMMA ViewersStepKeeps ==
    ASSUME ViewersInv, Rows, ViewersStep
    PROVE  /\ Rows'
           /\ \A c \in Callers : call'[c].step = "filter" =>
                \/ call'[c] = call[c]
                \/ \E g \in Teams, x \in Exts, session \in BOOLEAN, wopi \in SUBSET Apps :
                      AskViewers(c, g, x, session, wopi)
                \/ \E a \in Apps : CheckViewer(c, a)
  <1> DEFINE Quiet == \A c \in Callers : call'[c].step = "filter" => call'[c] = call[c]
  <1>0. Hangup.step = "none" /\ call \in [Callers -> CallTypes]
    BY DEF Hangup, Rows
  <1>1. ASSUME NEW c \in Callers, NEW a \in Apps, NEW flags \in SUBSET Flags, LoadApp(c, a, flags)
        PROVE  Rows' /\ Quiet
    BY <1>1, ReadStep
  <1>2. ASSUME NEW c \in Callers, NEW a \in Apps, NEW flags \in SUBSET Flags, NEW G \in SUBSET Teams,
               CreateApp(c, a, flags, G)
        PROVE  Rows' /\ Quiet
    <2>1. Rows'
      BY <1>2, ComesAndGoes
    <2>2. PICK x : x = [step |-> "fill", app |-> a, groups |-> G]
      OBVIOUS
    <2>3. x.step = "fill" /\ call' = [call EXCEPT ![c] = x]
      BY <1>2, <2>2 DEF CreateApp, Calls
    <2> QED
      BY <1>0, <2>1, <2>3
  <1>3. ASSUME NEW c \in Callers, NEW x \in Exts, AddExtension(c, x) PROVE Rows' /\ Quiet
    <2>1. Rows'
      BY <1>3, ExtensionsStep
    <2> QED
      BY <1>0, <1>3, <2>1 DEF AddExtension, HangsUp
  <1>4. ASSUME NEW a \in Apps, DeleteApp(a) PROVE Rows' /\ Quiet
    <2>1. Rows'
      BY <1>4, ComesAndGoes
    <2> QED
      BY <1>4, <2>1 DEF DeleteApp
  <1>5. ASSUME NEW c \in Callers, NEW a \in Apps, NEW X \in SUBSET Exts,
               LoadExtensions(c, a, X) \/ Discover(c, a, X)
        PROVE  Rows' /\ Quiet
    BY <1>5, ReadStep
  <1>6. ASSUME NEW c \in Callers, NEW a \in Apps, NEW G \in SUBSET Teams, LoadGroups(c, a, G)
        PROVE  Rows' /\ Quiet
    BY <1>6, ReadStep
  <1>7. ASSUME NEW c \in Callers, NEW g \in Teams, NEW x \in Exts, NEW session \in BOOLEAN,
               NEW wopi \in SUBSET Apps, AskViewers(c, g, x, session, wopi)
        PROVE  Rows' /\ \A d \in Callers \ {c} : call'[d] = call[d]
    BY <1>7, AskStep
  <1>8. ASSUME NEW c \in Callers, NEW a \in Apps, CheckViewer(c, a)
        PROVE  Rows' /\ \A d \in Callers \ {c} : call'[d] = call[d]
    BY <1>8, FilterStep
  <1>9. ASSUME \/ \E g \in Teams, x \in Exts, a \in Apps : SetFavourite(g, x, a)
               \/ \E row \in favourites : DropFavourite(row)
        PROVE  Rows' /\ Quiet
    BY <1>9, FavouriteStep
  <1>10. ASSUME NEW c \in Callers,
                \/ LinkGroups(c) \/ SaveApp(c) \/ ReplaceExtensions(c) \/ ReplaceGroups(c)
                \/ AnswerViewers(c) \/ CallerDies(c)
         PROVE  Rows' /\ Quiet
    <2>1. HangsUp(c)
      BY <1>10 DEF LinkGroups, SaveApp, ReplaceExtensions, ReplaceGroups, AnswerViewers, CallerDies
    <2>2. Quiet
      BY <1>0, <2>1 DEF HangsUp
    <2>3. CASE AnswerViewers(c) \/ CallerDies(c)
      <3>1. UNCHANGED appVars
        BY <2>3 DEF AnswerViewers, CallerDies
      <3>2. Hangup \in CallTypes /\ call' = [call EXCEPT ![c] = Hangup]
        BY <2>1 DEF CallTypes, HangsUp
      <3> QED
        BY <1>0, <2>2, <3>1, <3>2, CallGoesOn
    <2>4. CASE SaveApp(c)
      BY <2>2, <2>4, AppStep
    <2>5. CASE LinkGroups(c) \/ ReplaceGroups(c)
      BY <2>2, <2>5, GroupsStep
    <2>6. CASE ReplaceExtensions(c)
      <3>1. CASE Exts = {}
        <4>1. UNCHANGED <<apps, grants, favourites>>
          BY <2>6 DEF ReplaceExtensions
        <4>2. carries' \subseteq carries
          <5>1. call[c].exts = {}
            BY <2>6, <3>1, CallShape DEF ReplaceExtensions, Rows
          <5> QED
            BY <2>6, <5>1 DEF ReplaceExtensions
        <4>3. IsFiniteSet(carries')
          BY <4>2, FS_Subset DEF Rows, FiniteRows
        <4>4. Registered' = Registered
          BY <4>1 DEF Registered
        <4> QED
          BY <2>1, <2>2, <4>1, <4>2, <4>3, <4>4, RowsChange DEF Rows, FiniteRows
      <3>2. CASE \E x : x \in Exts
        BY <2>2, <2>6, <3>2, ExtensionsStep
      <3> QED
        BY <3>1, <3>2
    <2> QED
      BY <1>10, <2>3, <2>4, <2>5, <2>6
  <1> DEFINE Goal == /\ Rows'
           /\ \A c \in Callers : call'[c].step = "filter" =>
                \/ call'[c] = call[c]
                \/ \E g \in Teams, x \in Exts, session \in BOOLEAN, wopi \in SUBSET Apps :
                      AskViewers(c, g, x, session, wopi)
                \/ \E a \in Apps : CheckViewer(c, a)
  <1>11. ASSUME \E c \in Callers, g \in Teams, x \in Exts, session \in BOOLEAN, wopi \in SUBSET Apps :
                   AskViewers(c, g, x, session, wopi)
         PROVE  Goal
    <2>1. PICK c \in Callers, g \in Teams, x \in Exts, session \in BOOLEAN, wopi \in SUBSET Apps :
                 AskViewers(c, g, x, session, wopi)
      BY <1>11
    <2> QED
      BY <1>7, <2>1
  <1>12. ASSUME \E c \in Callers, a \in Apps : CheckViewer(c, a) PROVE Goal
    <2>1. PICK c \in Callers, a \in Apps : CheckViewer(c, a)
      BY <1>12
    <2> QED
      BY <1>8, <2>1
  <1>13. Rows' /\ Quiet => Goal
    OBVIOUS
  <1>14. Goal
    <2> HIDE DEF Goal, Quiet
    <2>1. CASE \E c \in Callers, a \in Apps, flags \in SUBSET Flags :
                  LoadApp(c, a, flags) \/ \E G \in SUBSET Teams : CreateApp(c, a, flags, G)
      BY <1>1, <1>2, <1>13, <2>1
    <2>2. CASE \/ \E c \in Callers, x \in Exts : AddExtension(c, x)
               \/ \E a \in Apps : DeleteApp(a)
      BY <1>3, <1>4, <1>13, <2>2
    <2>3. CASE \/ \E c \in Callers, a \in Apps, X \in SUBSET Exts :
                     LoadExtensions(c, a, X) \/ Discover(c, a, X)
               \/ \E c \in Callers, a \in Apps, G \in SUBSET Teams : LoadGroups(c, a, G)
      BY <1>5, <1>6, <1>13, <2>3
    <2>4. CASE \/ \E g \in Teams, x \in Exts, a \in Apps : SetFavourite(g, x, a)
               \/ \E row \in favourites : DropFavourite(row)
      BY <1>9, <1>13, <2>4
    <2>5. CASE \E c \in Callers :
                  \/ LinkGroups(c) \/ SaveApp(c) \/ ReplaceExtensions(c) \/ ReplaceGroups(c)
                  \/ AnswerViewers(c) \/ CallerDies(c)
      BY <1>10, <1>13, <2>5
    <2>6. CASE \E c \in Callers, g \in Teams, x \in Exts, session \in BOOLEAN, wopi \in SUBSET Apps :
                  AskViewers(c, g, x, session, wopi)
      BY <1>11, <2>6
    <2>7. CASE \E c \in Callers, a \in Apps : CheckViewer(c, a)
      BY <1>12, <2>7
    <2> QED
      BY Zenon, <2>1, <2>2, <2>3, <2>4, <2>5, <2>6, <2>7 DEF ViewersStep
  <1> QED
    BY <1>14

\* What a query has noted is kept.
LEMMA NotedKept ==
    ASSUME ViewersInv, Rows, ViewersNext
    PROVE  Noted'
  <1>1. /\ wasOn' = [c \in Callers |->
                        IF call'[c].step # "filter" THEN {}
                        ELSE Since(c, wasOn[c], OnNow) \union OnNow']
        /\ wasOpen' = [c \in Callers |->
                        IF call'[c].step # "filter" THEN {}
                        ELSE Since(c, wasOpen[c], OpenNow) \union OpenNow']
        /\ ViewersStep
    BY DEF ViewersNext
  <1> SUFFICES ASSUME NEW c \in Callers, call'[c].step = "filter"
      PROVE  /\ call'[c].left \union call'[c].offered \subseteq wasOn'[c]
             /\ \A a \in call'[c].offered \union (call'[c].left \ call'[c].limited) :
                   <<a, call'[c].team>> \in wasOpen'[c]
    BY DEF Noted
  <1>2. /\ wasOn'[c] = Since(c, wasOn[c], OnNow) \union OnNow'
        /\ wasOpen'[c] = Since(c, wasOpen[c], OpenNow) \union OpenNow'
    BY <1>1
  <1>3. CASE call'[c] = call[c]
    <2>1. wasOn[c] \subseteq wasOn'[c] /\ wasOpen[c] \subseteq wasOpen'[c]
      BY <1>2, <1>3 DEF Since
    <2>2. PICK q : q = call[c]
      OBVIOUS
    <2>3. /\ q.left \union q.offered \subseteq wasOn[c]
          /\ \A a \in q.offered \union (q.left \ q.limited) : <<a, q.team>> \in wasOpen[c]
      BY <1>3, <2>2 DEF ViewersInv, Noted
    <2> QED
      BY <1>3, <2>1, <2>2, <2>3
  <1>4. CASE \E g \in Teams, x \in Exts, session \in BOOLEAN, wopi \in SUBSET Apps :
                AskViewers(c, g, x, session, wopi)
    <2>1. /\ call[c].step # "filter" /\ call'[c].left \subseteq OnNow /\ call'[c].offered = {}
          /\ \A a \in call'[c].left \ call'[c].limited : <<a, call'[c].team>> \in OpenNow
      BY <1>4, AskStep
    <2>2. OnNow \subseteq wasOn'[c] /\ OpenNow \subseteq wasOpen'[c]
      BY <1>2, <2>1 DEF Since
    <2> QED
      BY <2>1, <2>2
  <1>5. CASE \E a \in Apps : CheckViewer(c, a)
    <2>1. PICK a \in Apps : CheckViewer(c, a)
      BY <1>5
    <2>2. PICK q : q = call[c]
      OBVIOUS
    <2>3. PICK y : y = call'[c]
      OBVIOUS
    <2>4. /\ q.step = "filter" /\ UNCHANGED appVars /\ y.team = q.team /\ y.limited = q.limited
          /\ a \in q.left /\ y.left \subseteq q.left /\ y.offered \subseteq q.offered \union {a}
          /\ a \in y.offered \ q.offered => a \notin q.limited \/ <<a, q.team>> \in OpenNow
      BY <2>1, <2>2, <2>3, FilterStep
    <2>5. /\ q.left \union q.offered \subseteq wasOn[c]
          /\ \A b \in q.offered \union (q.left \ q.limited) : <<b, q.team>> \in wasOpen[c]
      BY <2>2, <2>4 DEF ViewersInv, Noted
    <2>6. wasOn[c] \subseteq wasOn'[c] /\ wasOpen[c] \subseteq wasOpen'[c] /\ OpenNow' \subseteq wasOpen'[c]
      BY <1>2, <2>2, <2>4 DEF Since
    <2>7. OpenNow' = OpenNow
      BY <2>4 DEF OpenNow, Registered, Linked, appVars
    <2>8. y.left \union y.offered \subseteq wasOn'[c]
      BY <2>4, <2>5, <2>6
    <2>9. ASSUME NEW b \in y.offered \union (y.left \ y.limited) PROVE <<b, y.team>> \in wasOpen'[c]
      <3>1. CASE b \in q.offered \union (q.left \ q.limited)
        BY <2>4, <2>5, <2>6, <3>1
      <3>2. CASE b \notin q.offered \union (q.left \ q.limited)
        <4>1. b = a /\ a \in y.offered \ q.offered /\ a \in q.limited
          BY <2>4, <3>2
        <4> QED
          BY <2>4, <2>6, <2>7, <4>1
      <3> QED
        BY <3>1, <3>2
    <2> QED
      BY <2>3, <2>8, <2>9
  <1> QED
    BY <1>1, <1>3, <1>4, <1>5, ViewersStepKeeps

\* The invariant is kept by every step.
LEMMA ViewersInvStep == ViewersInv /\ [ViewersNext]_viewerVars => ViewersInv'
  <1> SUFFICES ASSUME ViewersInv, [ViewersNext]_viewerVars PROVE ViewersInv'
    OBVIOUS
  <1>0. Rows
    BY DEF ViewersInv, ViewersTypeOK, Rows
  <1>1. CASE UNCHANGED viewerVars
    <2>1. UNCHANGED <<apps, carries, grants, favourites, call, wasOn, wasOpen>>
      BY <1>1 DEF viewerVars, appVars
    <2>2. ViewersTypeOK'
      BY <2>1 DEF ViewersInv, ViewersTypeOK, Registered
    <2>3. FiniteRows' /\ Noted'
      BY <2>1 DEF ViewersInv, FiniteRows, Noted
    <2> QED
      BY <2>2, <2>3 DEF ViewersInv
  <1>2. CASE ViewersNext
    <2>1. Rows'
      BY <1>0, <1>2, ViewersStepKeeps DEF ViewersNext
    <2>2. Noted'
      BY <1>0, <1>2, NotedKept
    <2>3. OnNow \subseteq Apps /\ OpenNow \subseteq Apps \X Teams
      BY DEF OnNow, OpenNow, Registered
    <2>4. OnNow' \subseteq Apps /\ OpenNow' \subseteq Apps \X Teams
      BY DEF OnNow, OpenNow, Registered
    <2>5. \A c \in Callers : wasOn[c] \subseteq Apps /\ wasOpen[c] \subseteq Apps \X Teams
      BY DEF ViewersInv, ViewersTypeOK
    <2>6. wasOn' \in [Callers -> SUBSET Apps] /\ wasOpen' \in [Callers -> SUBSET (Apps \X Teams)]
      BY <1>2, <2>3, <2>4, <2>5 DEF ViewersNext, Since
    <2>7. ViewersTypeOK' /\ FiniteRows'
      BY <2>1, <2>6 DEF ViewersTypeOK, Rows
    <2> QED
      BY <2>2, <2>7 DEF ViewersInv
  <1> QED
    BY <1>1, <1>2

\* So what is offered was enabled and open while the request ran.
LEMMA NotedHidden == ViewersInv => ViewersTypeOK /\ RestrictedStaysHidden
  BY DEF ViewersInv, Noted, RestrictedStaysHidden

\* A viewer is offered only with an application that was enabled and open to the
\* group of the user while the request ran.
THEOREM ViewersStayHidden == ViewersSpec => [](ViewersTypeOK /\ RestrictedStaysHidden)
  BY ViewersInvInit, ViewersInvStep, NotedHidden, PTL DEF ViewersSpec

-----------------------------------------------------------------------------
(* Links *)

\* What a request has checked held at some moment since it began.
Checked ==
    \A r \in Readers : reader[r].step = "check" =>
        /\ reader[r].passed \in 0..Len(Stages(reader[r].kind))
        /\ \A i \in 1..reader[r].passed : Stages(reader[r].kind)[i] \subseteq held[r]

LinksInv == LinksTypeOK /\ (\A s \in Shares : share[s] # NoFile => s \in made) /\ Checked

\* A request is away, or checks in as many stages as its kind has.
LEMMA ReaderShape ==
    ASSUME NEW x \in ReaderTypes
    PROVE  /\ x = Away \/ x.step = "check"
           /\ x.step = "check" =>
                x \in [step : {"check"}, kind : {"share", "link", "token", "session"}, file : Files,
                       share : Shares \union {NoFile}, passed : Nat]
  BY DEF ReaderTypes, Away

\* The stages of each kind.
LEMMA StageCount ==
    ASSUME NEW kind \in {"share", "link", "token", "session"}
    PROVE  /\ Len(Stages(kind)) \in Nat
           /\ \A i \in 1..Len(Stages(kind)) : Stages(kind)[i] \in
                SUBSET {"there", "live", "clean", "shared", "fresh", "open", "policy", "linked",
                        "token", "session"}
  <1>1. CASE kind = "share"
    BY <1>1 DEF Stages, ShareStages
  <1>2. CASE kind = "link"
    BY <1>2 DEF Stages, LinkStages
  <1>3. CASE kind = "token"
    BY <1>3 DEF Stages, TokenStages
  <1>4. CASE kind = "session"
    BY <1>4 DEF Stages, SessionStages
  <1> QED
    BY <1>1, <1>2, <1>3, <1>4

\* All stages of a kind together ask for what makes a request legitimate.
LEMMA StagesSuffice ==
    ASSUME NEW kind \in {"share", "link", "token", "session"}, NEW H,
           \A i \in 1..Len(Stages(kind)) : Stages(kind)[i] \subseteq H
    PROVE  Required(kind) \subseteq H
  <1>1. CASE kind = "share"
    <2>1. Stages(kind) = ShareStages /\ Len(ShareStages) = 2
      BY <1>1 DEF Stages, ShareStages
    <2>2. ShareStages[1] \subseteq H /\ ShareStages[2] \subseteq H
      BY <2>1
    <2> QED
      BY <1>1, <2>2 DEF ShareStages, Required
  <1>2. CASE kind = "link"
    <2>1. Stages(kind) = LinkStages /\ Len(LinkStages) = 4
      BY <1>2 DEF Stages, LinkStages
    <2>2. LinkStages[1] \subseteq H /\ LinkStages[2] \subseteq H /\ LinkStages[3] \subseteq H
      BY <2>1
    <2> QED
      BY <1>2, <2>2 DEF LinkStages, Required
  <1>3. CASE kind = "token"
    <2>1. Stages(kind) = TokenStages /\ Len(TokenStages) = 2
      BY <1>3 DEF Stages, TokenStages
    <2>2. TokenStages[1] \subseteq H /\ TokenStages[2] \subseteq H
      BY <2>1
    <2> QED
      BY <1>3, <2>2 DEF TokenStages, Required
  <1>4. CASE kind = "session"
    <2>1. Stages(kind) = SessionStages /\ Len(SessionStages) = 2
      BY <1>4 DEF Stages, SessionStages
    <2>2. SessionStages[1] \subseteq H /\ SessionStages[2] \subseteq H
      BY <2>1
    <2> QED
      BY <1>4, <2>2 DEF SessionStages, Required
  <1> QED
    BY <1>1, <1>2, <1>3, <1>4

\* Nothing is shared and nobody asks.
LEMMA LinksInvInit == LinksInit => LinksInv
  BY DEF LinksInit, LinksInv, LinksTypeOK, Checked, ReaderTypes, Away

\* What is left as it is while a request knocks, passes a stage, or ends.
LEMMA FactsStay ==
    ASSUME NEW f \in Files, NEW s \in Shares \union {NoFile}, UNCHANGED <<shareVars, fileVars>>
    PROVE  AllFacts'[f][s] = Facts(f, s)
  BY DEF AllFacts, Facts, shareVars, fileVars

\* The tables keep their shape, and the requests as well.
LEMMA LinksShape ==
    ASSUME LinksInv, LinksStep
    PROVE  LinksTypeOK' /\ \A s \in Shares : share'[s] # NoFile => s \in made'
  <1> DEFINE Goal == LinksTypeOK' /\ \A s \in Shares : share'[s] # NoFile => s \in made'
  <1>1. ASSUME NEW f \in Files,
               \/ Trash(f) \/ PutBack(f) \/ BanFile(f) \/ UnbanFile(f) \/ PurgeFile(f)
               \/ CreateLink(f) \/ IssueDownload(f) \/ IssueSession(f) \/ TokenExpires(f)
        PROVE  Goal
    <2>1. CASE Trash(f) \/ PutBack(f) \/ BanFile(f) \/ UnbanFile(f)
      BY <2>1 DEF Trash, PutBack, BanFile, UnbanFile, Becomes, LinksInv, LinksTypeOK, shareVars
    <2>2. CASE PurgeFile(f)
      BY <2>2 DEF PurgeFile, LinksInv, LinksTypeOK
    <2>3. CASE CreateLink(f) \/ IssueDownload(f) \/ IssueSession(f) \/ TokenExpires(f)
      BY <2>3 DEF CreateLink, IssueDownload, IssueSession, TokenExpires, LinksInv, LinksTypeOK, shareVars
    <2> QED
      BY <1>1, <2>1, <2>2, <2>3
  <1>2. ASSUME NEW s \in Shares, ShareExpires(s) \/ DeleteShare(s) PROVE Goal
    BY <1>2 DEF ShareExpires, DeleteShare, LinksInv, LinksTypeOK, fileVars
  <1>3. ASSUME NEW on \in BOOLEAN, SetOrigin(on) PROVE Goal
    BY <1>3 DEF SetOrigin, LinksInv, LinksTypeOK, shareVars
  <1>4. ASSUME NEW s \in Shares, NEW f \in Files, NEW code \in BOOLEAN, CreateShare(s, f, code)
        PROVE  Goal
    BY <1>4 DEF CreateShare, LinksInv, LinksTypeOK, fileVars
  <1>5. ASSUME NEW r \in Readers, NEW kind \in {"share", "link", "token", "session"},
               NEW f \in Files, NEW s \in Shares \union {NoFile}, Knock(r, kind, f, s)
        PROVE  Goal
    <2>1. [step |-> "check", kind |-> kind, file |-> f, share |-> s, passed |-> 0] \in ReaderTypes
      BY DEF ReaderTypes
    <2> QED
      BY <1>5, <2>1 DEF Knock, Enters, LinksInv, LinksTypeOK, shareVars, fileVars
  <1>6. ASSUME NEW r \in Readers, Pass(r) \/ AnswerReader(r) PROVE Goal
    <2>1. Away \in ReaderTypes
      BY DEF ReaderTypes
    <2>2. PICK x : x = reader[r]
      OBVIOUS
    <2>3. x.step = "check"
      BY <1>6, <2>2 DEF Pass, AnswerReader, Waiting, Granted
    <2>4. x \in [step : {"check"}, kind : {"share", "link", "token", "session"}, file : Files,
                 share : Shares \union {NoFile}, passed : Nat]
      BY <2>2, <2>3, ReaderShape DEF LinksInv, LinksTypeOK
    <2>5. [x EXCEPT !.passed = @ + 1] \in ReaderTypes
      BY <2>4 DEF ReaderTypes
    <2>6. \/ reader' = [reader EXCEPT ![r] = Away]
          \/ reader' = [reader EXCEPT ![r] = [x EXCEPT !.passed = @ + 1]]
      BY <1>6, <2>2 DEF Pass, AnswerReader, Leaves, LinksInv, LinksTypeOK
    <2>7. reader' \in [Readers -> ReaderTypes]
      BY <2>1, <2>5, <2>6 DEF LinksInv, LinksTypeOK
    <2>8. UNCHANGED <<shareVars, fileVars>>
      BY <1>6 DEF Pass, AnswerReader
    <2> QED
      BY <2>7, <2>8 DEF LinksInv, LinksTypeOK, shareVars, fileVars
  <1> HIDE DEF Goal
  <1>7. Goal
    BY <1>1, <1>2, <1>3, <1>4, <1>5, <1>6 DEF LinksStep
  <1> QED
    BY <1>7 DEF Goal

\* How a request that checks came to where it is: it was there, it has just begun,
\* or it has passed one stage more, whose facts hold now.
LEMMA ReaderMoves ==
    ASSUME LinksInv, LinksStep, NEW r \in Readers, reader'[r].step = "check"
    PROVE  \/ reader'[r] = reader[r]
           \/ reader'[r].passed = 0
           \/ /\ UNCHANGED <<shareVars, fileVars>> /\ Waiting(r)
              /\ reader'[r] = [reader[r] EXCEPT !.passed = @ + 1]
              /\ Stages(reader[r].kind)[reader[r].passed + 1]
                    \subseteq Facts(reader[r].file, reader[r].share)
  <1>0. Away.step # "check" /\ reader \in [Readers -> ReaderTypes]
    BY DEF Away, LinksInv, LinksTypeOK
  <1>1. CASE UNCHANGED reader
    BY <1>1
  <1>2. CASE \E q \in Readers, kind \in {"share", "link", "token", "session"}, f \in Files,
                s \in Shares \union {NoFile} : Knock(q, kind, f, s)
    BY <1>0, <1>2 DEF Knock, Enters
  <1>3. CASE \E q \in Readers : Pass(q)
    <2>1. PICK q \in Readers : Pass(q)
      BY <1>3
    <2>2. CASE q # r
      BY <1>0, <2>1, <2>2 DEF Pass, Leaves
    <2>3. CASE q = r
      BY <1>0, <2>1, <2>3 DEF Pass, Leaves
    <2> QED
      BY <2>2, <2>3
  <1>4. CASE \E q \in Readers : AnswerReader(q)
    BY <1>0, <1>4 DEF AnswerReader, Leaves
  <1> QED
    BY <1>1, <1>2, <1>3, <1>4 DEF LinksStep, Trash, PutBack, BanFile, UnbanFile, Becomes, PurgeFile,
       CreateLink, IssueDownload, IssueSession, TokenExpires, ShareExpires, DeleteShare, SetOrigin,
       CreateShare

\* What a request has checked is kept.
LEMMA CheckedStep ==
    ASSUME LinksInv, LinksNext
    PROVE  Checked'
  <1>1. LinksTypeOK' /\ LinksStep
    BY LinksShape DEF LinksNext
  <1> SUFFICES ASSUME NEW r \in Readers, reader'[r].step = "check"
      PROVE  /\ reader'[r].passed \in 0..Len(Stages(reader'[r].kind))
             /\ \A i \in 1..reader'[r].passed : Stages(reader'[r].kind)[i] \subseteq held'[r]
    BY DEF Checked
  <1>2. PICK x, y : x = reader[r] /\ y = reader'[r]
    OBVIOUS
  <1>3. /\ x \in ReaderTypes
        /\ y \in [step : {"check"}, kind : {"share", "link", "token", "session"}, file : Files,
                  share : Shares \union {NoFile}, passed : Nat]
    BY <1>1, <1>2, ReaderShape DEF LinksInv, LinksTypeOK
  <1>4. held'[r] = Lived(r) \union AllFacts'[y.file][y.share]
    BY <1>2 DEF LinksNext
  <1>5. CASE y.passed = 0
    <2>1. y.passed \in 0..Len(Stages(y.kind)) /\ 1..y.passed = {}
      BY <1>3, <1>5, StageCount
    <2> QED
      BY <1>2, <2>1
  <1>6. CASE y = x
    <2>1. held[r] \subseteq held'[r]
      BY <1>2, <1>4, <1>6 DEF Lived
    <2>2. x.passed \in 0..Len(Stages(x.kind)) /\ \A i \in 1..x.passed : Stages(x.kind)[i] \subseteq held[r]
      BY <1>2, <1>6 DEF LinksInv, Checked
    <2> QED
      BY <1>2, <1>6, <2>1, <2>2
  <1>7. CASE /\ UNCHANGED <<shareVars, fileVars>> /\ Waiting(r)
             /\ y = [x EXCEPT !.passed = @ + 1]
             /\ Stages(x.kind)[x.passed + 1] \subseteq Facts(x.file, x.share)
    <2>1. x.step = "check" /\ x.passed < Len(Stages(x.kind))
      BY <1>2, <1>7 DEF Waiting
    <2>2. x \in [step : {"check"}, kind : {"share", "link", "token", "session"}, file : Files,
                 share : Shares \union {NoFile}, passed : Nat]
      BY <1>3, <2>1, ReaderShape
    <2>3. /\ y.kind = x.kind /\ y.file = x.file /\ y.share = x.share
          /\ y.passed = x.passed + 1
      BY <1>7, <2>2
    <2>4. AllFacts'[y.file][y.share] = Facts(x.file, x.share)
      BY <1>3, <1>7, <2>3, FactsStay
    <2>5. held[r] \union Facts(x.file, x.share) \subseteq held'[r]
      BY <1>2, <1>4, <2>1, <2>4 DEF Lived
    <2>6. \A i \in 1..x.passed : Stages(x.kind)[i] \subseteq held[r]
      BY <1>2, <2>1 DEF LinksInv, Checked
    <2>7. PICK n, l, S : /\ n = x.passed /\ l = Len(Stages(x.kind)) /\ S = Stages(x.kind)
                         /\ n \in Nat /\ l \in Nat
      BY <2>2, StageCount
    <2>8. \A i \in 1..(n + 1) : S[i] \subseteq held'[r]
      <3>1. S[n + 1] \subseteq held'[r]
        BY <1>7, <2>5, <2>7
      <3>2. \A i \in 1..n : S[i] \subseteq held'[r]
        BY <2>5, <2>6, <2>7
      <3>3. \A i \in 1..(n + 1) : i \in 1..n \/ i = n + 1
        BY <2>7
      <3> QED
        BY <3>1, <3>2, <3>3
    <2>9. n + 1 \in 0..l
      BY <2>1, <2>7
    <2> QED
      BY <1>2, <2>3, <2>7, <2>8, <2>9
  <1> QED
    BY <1>1, <1>2, <1>5, <1>6, <1>7, ReaderMoves

\* The invariant is kept by every step.
LEMMA LinksInvStep == LinksInv /\ [LinksNext]_linkVars => LinksInv'
  <1> SUFFICES ASSUME LinksInv, [LinksNext]_linkVars PROVE LinksInv'
    OBVIOUS
  <1>1. CASE UNCHANGED linkVars
    <2>1. UNCHANGED <<entry, external, linked, tokens, sessions, share, made, protected, lapsed,
                      reader, held>>
      BY <1>1 DEF linkVars, shareVars, fileVars
    <2> QED
      BY <2>1 DEF LinksInv, LinksTypeOK, Checked
  <1>2. CASE LinksNext
    BY <1>2, LinksShape, CheckedStep DEF LinksInv, LinksNext
  <1> QED
    BY <1>1, <1>2

\* So whoever has passed every stage had all that makes the request legitimate.
LEMMA CheckedRefused == LinksInv => LinksTypeOK /\ RevokedRefused
  <1> SUFFICES ASSUME LinksInv, NEW r \in Readers, Granted(r)
      PROVE  Required(reader[r].kind) \subseteq held[r]
    BY DEF LinksInv, RevokedRefused
  <1>1. PICK x, H : x = reader[r] /\ H = held[r]
    OBVIOUS
  <1>2. x.step = "check" /\ ~(x.passed < Len(Stages(x.kind)))
    BY <1>1 DEF Granted, Waiting
  <1>3. x.kind \in {"share", "link", "token", "session"} /\ x.passed \in Nat
    BY <1>1, <1>2, ReaderShape DEF LinksInv, LinksTypeOK
  <1>4. PICK n \in Nat, l \in Nat : n = x.passed /\ l = Len(Stages(x.kind))
    BY <1>3, StageCount
  <1>5. n \in 0..l /\ \A i \in 1..n : Stages(x.kind)[i] \subseteq H
    BY <1>1, <1>2, <1>4 DEF LinksInv, Checked
  <1>6. n = l
    BY <1>2, <1>4, <1>5
  <1>7. \A i \in 1..Len(Stages(x.kind)) : Stages(x.kind)[i] \subseteq H
    BY <1>4, <1>5, <1>6
  <1> QED
    BY <1>1, <1>3, <1>7, StagesSuffice

\* What was taken away before a request began does not serve it.
THEOREM LinksStayRefused == LinksSpec => [](LinksTypeOK /\ RevokedRefused)
  BY LinksInvInit, LinksInvStep, CheckedRefused, PTL DEF LinksSpec

-----------------------------------------------------------------------------
(* Presets *)

\* What the record of a request holds.
LEMMA StylerShape ==
    ASSUME NEW x \in StylerTypes
    PROVE  /\ x.step = "clear" => x.preset \in Themes
           /\ x.step \in {"wait", "set"} => x.preset \in Themes /\ x.rows \subseteq Themes
  BY DEF StylerTypes, Unused

\* The first start makes one preset, the default.
LEMMA PresetsInitType == PresetsInit => PresetsTypeOK
  BY ThemeConstants DEF PresetsInit, PresetsTypeOK, StylerTypes, Unused

\* Every step keeps the shape of the tables, and a default there is.
LEMMA PresetsStep ==
    ASSUME PresetsTypeOK, [PresetsNext]_presetVars
    PROVE  /\ PresetsTypeOK'
           /\ defaults # {} => defaults' # {} \/ \E t \in defaults : t \notin presets'
  <1> DEFINE Kept == defaults # {} => defaults' # {} \/ \E t \in defaults : t \notin presets'
  <1>0. Unused \in StylerTypes
    BY DEF StylerTypes
  <1>1. CASE UNCHANGED presetVars
    BY <1>1 DEF presetVars, PresetsTypeOK
  <1>2. ASSUME NEW t \in Themes, CreatePreset(t) PROVE PresetsTypeOK' /\ Kept
    BY <1>2 DEF CreatePreset, PresetsTypeOK
  <1>3. ASSUME NEW t \in Themes, DeletePreset(t) PROVE PresetsTypeOK' /\ Kept
    <2>1. chosen' \in [Persona -> SUBSET presets']
      BY <1>3 DEF DeletePreset, PresetsTypeOK
    <2>2. Kept
      BY <1>3 DEF DeletePreset
    <2> QED
      BY <1>3, <2>1, <2>2 DEF DeletePreset, PresetsTypeOK
  <1>4. ASSUME NEW r \in Stylers, NEW t \in Themes, LoadPreset(r, t) PROVE PresetsTypeOK' /\ Kept
    <2>1. [step |-> "clear", preset |-> t] \in StylerTypes
      BY DEF StylerTypes
    <2> QED
      BY <1>4, <2>1 DEF LoadPreset, Opens, PresetsTypeOK
  <1>5. ASSUME NEW r \in Stylers, BeginClear(r) \/ ClearDefaults(r) PROVE PresetsTypeOK' /\ Kept
    <2>1. PICK x : x = styler[r]
      OBVIOUS
    <2>2. x \in StylerTypes /\ x.step \in {"clear", "wait"}
      BY <1>5, <2>1 DEF BeginClear, ClearDefaults, PresetsTypeOK
    <2>3. defaults \subseteq Themes
      BY DEF PresetsTypeOK
    <2>4. \E y \in StylerTypes : styler' = [styler EXCEPT ![r] = y]
      <3>1. CASE BeginClear(r)
        <4>1. [step |-> "wait", preset |-> x.preset, rows |-> defaults] \in StylerTypes
          BY <2>2, <2>3, StylerShape DEF StylerTypes
        <4> QED
          BY <2>1, <3>1, <4>1 DEF BeginClear
      <3>2. CASE ClearDefaults(r)
        <4>1. [step |-> "set", preset |-> x.preset, rows |-> x.rows \intersect defaults] \in StylerTypes
          BY <2>1, <2>2, <2>3, <3>2, StylerShape DEF StylerTypes, ClearDefaults
        <4> QED
          BY <2>1, <3>2, <4>1 DEF ClearDefaults
      <3> QED
        BY <1>5, <3>1, <3>2
    <2>5. UNCHANGED <<presets, born, defaults, chosen>>
      BY <1>5 DEF BeginClear, ClearDefaults
    <2> QED
      BY <2>4, <2>5 DEF PresetsTypeOK
  <1>6. ASSUME NEW r \in Stylers, SaveDefault(r) \/ StylerDies(r) PROVE PresetsTypeOK' /\ Kept
    BY <1>0, <1>6 DEF SaveDefault, StylerDies, Closes, PresetsTypeOK
  <1>7. ASSUME NEW u \in Persona, NEW choice \in SUBSET Themes, ChooseTheme(u, choice)
        PROVE  PresetsTypeOK' /\ Kept
    BY <1>7 DEF ChooseTheme, PresetsTypeOK
  <1> QED
    BY <1>1, <1>2, <1>3, <1>4, <1>5, <1>6, <1>7 DEF PresetsNext

\* As long as no default is deleted there is one.
THEOREM PresetsKeepDefault == PresetsSpec => []PresetsTypeOK /\ DefaultKept
  <1>1. PresetsTypeOK /\ [PresetsNext]_presetVars => PresetsTypeOK'
    BY PresetsStep
  <1>2. PresetsTypeOK /\ [PresetsNext]_presetVars =>
          [defaults # {} => defaults' # {} \/ \E t \in defaults : t \notin presets']_presetVars
    BY PresetsStep
  <1> QED
    BY <1>1, <1>2, PresetsInitType, PTL DEF PresetsSpec, DefaultKept

-----------------------------------------------------------------------------
(* Metadata *)

\* When every PATCH is about all keys alike, so are the rows of an entry, and what
\* a PATCH in progress has left to do about them.
Uniform ==
    together =>
        /\ \A e \in Entries : \A k, l \in Keys : pairs[e][k] = pairs[e][l]
        /\ \A r \in Patchers : patcher[r] # NoPatch =>
              \A k, l \in Keys : patcher[r].plan[k] = patcher[r].plan[l]

MetadataInv == MetadataTypeOK /\ Uniform

\* A request patches nothing, or an entry with a statement for each key.
Plans == [entry : Entries, plan : [Keys -> Statements]]

\* What is left to do about a row is a statement, and what it leaves is a value or
\* no row.
LEMMA StatementShape ==
    /\ \A found, wanted \in Values \union {Absent} : Statement(found, wanted) \in Statements
    /\ \A s \in Statements : Missed(s) \in Statements
    /\ \A s \in Statements, old \in Values \union {Absent} : Outcome(s, old) \in Values \union {Absent}
    /\ {[do |-> "nothing"], [do |-> "fail"]} \subseteq Statements
  <1>0. {[do |-> "nothing"], [do |-> "fail"], [do |-> "delete"]} \subseteq Statements
    BY DEF Statements
  <1>1. ASSUME NEW found \in Values \union {Absent}, NEW wanted \in Values \union {Absent}
        PROVE  Statement(found, wanted) \in Statements
    BY MetadataConstants DEF Statement, Statements
  <1>2. ASSUME NEW s \in Statements PROVE Missed(s) \in Statements
    BY <1>0 DEF Missed, Statements
  <1>3. ASSUME NEW s \in Statements, NEW old \in Values \union {Absent}
        PROVE  Outcome(s, old) \in Values \union {Absent}
    BY DEF Outcome, Statements
  <1> QED
    BY <1>0, <1>1, <1>2, <1>3

\* There are no rows and nobody patches.
LEMMA MetadataInvInit == MetadataInit => MetadataInv
  BY DEF MetadataInit, MetadataInv, MetadataTypeOK, Uniform

\* Requests go on, each to nothing or to a plan for the same entry that does the
\* same to what was the same; the rows stay.
LEMMA PlansChange ==
    ASSUME MetadataInv, UNCHANGED <<definitionVars, together>>,
           away' \subseteq kept', kept' \subseteq Entries,
           pairs' \in [Entries -> [Keys -> Values \union {Absent}]],
           together => \A e \in Entries : \A k, l \in Keys : pairs'[e][k] = pairs'[e][l],
           patcher' \in [Patchers -> {NoPatch} \union Plans],
           together => \A r \in Patchers : patcher'[r] # NoPatch =>
              \A k, l \in Keys : patcher'[r].plan[k] = patcher'[r].plan[l]
    PROVE  MetadataInv'
  BY DEF MetadataInv, MetadataTypeOK, Uniform, Plans, definitionVars

\* An entry is purged, and a PATCH in progress that was about it does nothing or fails.
LEMMA PurgeKeeps ==
    ASSUME MetadataInv, NEW e \in Entries, PurgeEntry(e)
    PROVE  MetadataInv'
  <1> DEFINE Fails(s) == IF s.do \in {"insert", "update"} THEN [do |-> "fail"] ELSE Missed(s)
  <1>1. \A s \in Statements : Fails(s) \in Statements
    BY StatementShape
  <1>2. \A r \in Patchers :
          \/ patcher'[r] = patcher[r]
          \/ patcher[r] \in Plans /\
             patcher'[r] = [patcher[r] EXCEPT !.plan = [k \in Keys |-> Fails(patcher[r].plan[k])]]
    <2>1. ASSUME NEW r \in Patchers, patcher[r].entry = e PROVE patcher[r] \in Plans
      BY <2>1, MetadataConstants DEF MetadataInv, MetadataTypeOK, NoPatch, Plans
    <2> QED
      BY <2>1 DEF PurgeEntry
  <1>3. ASSUME NEW r \in Patchers
        PROVE  /\ patcher'[r] \in {NoPatch} \union Plans
               /\ together /\ patcher'[r] # NoPatch =>
                    \A k, l \in Keys : patcher'[r].plan[k] = patcher'[r].plan[l]
    <2>1. CASE patcher'[r] = patcher[r]
      BY <2>1 DEF MetadataInv, MetadataTypeOK, Uniform, Plans
    <2>2. CASE /\ patcher[r] \in Plans
               /\ patcher'[r] = [patcher[r] EXCEPT !.plan = [k \in Keys |-> Fails(patcher[r].plan[k])]]
      <3>1. PICK x, f : x = patcher[r] /\ f = [k \in Keys |-> Fails(x.plan[k])]
        OBVIOUS
      <3>2. x \in Plans /\ patcher'[r] = [x EXCEPT !.plan = f]
        BY <2>2, <3>1
      <3>3. f \in [Keys -> Statements]
        BY <1>1, <3>1, <3>2 DEF Plans
      <3>4. patcher'[r] \in Plans /\ patcher'[r].plan = f
        BY <3>2, <3>3 DEF Plans
      <3>5. ASSUME together, NEW k \in Keys, NEW l \in Keys PROVE f[k] = f[l]
        <4>1. x # NoPatch
          BY <3>2, MetadataConstants DEF Plans, NoPatch
        <4>2. x.plan[k] = x.plan[l]
          BY <3>1, <3>5, <4>1 DEF MetadataInv, Uniform
        <4> QED
          BY <3>1, <4>2
      <3> QED
        BY <3>4, <3>5
    <2> QED
      BY <1>2, <2>1, <2>2
  <1>4. patcher' \in [Patchers -> {NoPatch} \union Plans]
    <2>1. \E f : patcher' = [r \in Patchers |-> f[r]]
      <3>1. PICK g : g = [r \in Patchers |->
               IF patcher[r].entry = e
               THEN [patcher[r] EXCEPT !.plan = [k \in Keys |-> Fails(patcher[r].plan[k])]]
               ELSE patcher[r]]
        OBVIOUS
      <3>2. patcher' = g
        BY <3>1 DEF PurgeEntry
      <3> QED
        BY <3>1, <3>2
    <2> QED
      BY <1>3, <2>1
  <1>5. /\ away' \subseteq kept' /\ kept' \subseteq Entries
        /\ UNCHANGED <<definitionVars, together>>
    BY DEF PurgeEntry, MetadataInv, MetadataTypeOK
  <1>6. /\ pairs' \in [Entries -> [Keys -> Values \union {Absent}]]
        /\ together => \A d \in Entries : \A k, l \in Keys : pairs'[d][k] = pairs'[d][l]
    BY DEF PurgeEntry, MetadataInv, MetadataTypeOK, Uniform
  <1> QED
    BY <1>3, <1>4, <1>5, <1>6, PlansChange

\* A PATCH decides for each key from what it has read.
LEMMA LoadKeeps ==
    ASSUME MetadataInv, NEW r \in Patchers, NEW e \in Entries, NEW asked \in Asked,
           PatchLoad(r, e, asked)
    PROVE  MetadataInv'
  <1>1. PICK f : f = [k \in Keys |-> IF k \in DOMAIN asked THEN Statement(pairs[e][k], asked[k])
                                     ELSE [do |-> "nothing"]]
    OBVIOUS
  <1>2. \A k \in DOMAIN asked : asked[k] \in Values \union {Absent}
    BY DEF Asked
  <1>3. \A k \in Keys : pairs[e][k] \in Values \union {Absent}
    BY DEF MetadataInv, MetadataTypeOK
  <1>4. f \in [Keys -> Statements]
    <2>1. ASSUME NEW k \in Keys PROVE f[k] \in Statements
      BY <1>1, <1>2, <1>3, StatementShape
    <2> QED
      BY <1>1, <2>1
  <1>5. PICK x : x = [entry |-> e, plan |-> f]
    OBVIOUS
  <1>6. x \in Plans /\ x.plan = f
    BY <1>4, <1>5 DEF Plans
  <1>7. patcher' = [patcher EXCEPT ![r] = x]
    BY <1>1, <1>5 DEF PatchLoad
  <1>8. ASSUME together, NEW k \in Keys, NEW l \in Keys PROVE f[k] = f[l]
    <2>1. DOMAIN asked = Keys /\ asked[k] = asked[l]
      BY <1>8 DEF PatchLoad
    <2>2. pairs[e][k] = pairs[e][l]
      BY <1>8 DEF MetadataInv, Uniform
    <2> QED
      BY <1>1, <2>1, <2>2
  <1>9. patcher'[r] = x /\ \A q \in Patchers \ {r} : patcher'[q] = patcher[q]
    BY <1>7 DEF MetadataInv, MetadataTypeOK
  <1>10. patcher' \in [Patchers -> {NoPatch} \union Plans]
    BY <1>6, <1>7 DEF MetadataInv, MetadataTypeOK, Plans
  <1>11. UNCHANGED <<kept, away, pairs, together, definitionVars>>
    BY DEF PatchLoad, entryVars
  <1>12. together => \A q \in Patchers : patcher'[q] # NoPatch =>
              \A k, l \in Keys : patcher'[q].plan[k] = patcher'[q].plan[l]
    BY <1>6, <1>8, <1>9 DEF MetadataInv, Uniform
  <1> QED
    BY <1>10, <1>11, <1>12, PlansChange DEF MetadataInv, MetadataTypeOK, Uniform

\* A PATCH that is refused, or dies, leaves the rows.
LEMMA PatchEnds ==
    ASSUME MetadataInv, NEW r \in Patchers, patcher' = [patcher EXCEPT ![r] = NoPatch],
           UNCHANGED <<entryVars, pairs, definitionVars, together>>
    PROVE  MetadataInv'
  <1>1. patcher'[r] = NoPatch /\ \A q \in Patchers \ {r} : patcher'[q] = patcher[q]
    BY DEF MetadataInv, MetadataTypeOK
  <1>2. patcher' \in [Patchers -> {NoPatch} \union Plans]
    BY DEF MetadataInv, MetadataTypeOK, Plans
  <1>3. together => \A q \in Patchers : patcher'[q] # NoPatch =>
              \A k, l \in Keys : patcher'[q].plan[k] = patcher'[q].plan[l]
    BY <1>1 DEF MetadataInv, Uniform
  <1> QED
    BY <1>2, <1>3, PlansChange DEF MetadataInv, MetadataTypeOK, Uniform, entryVars

\* The commit of a PATCH, and what it does to the others about the same entry.
LEMMA CommitKeeps ==
    ASSUME MetadataInv, NEW r \in Patchers, PatchCommit(r)
    PROVE  MetadataInv'
  <1>1. PICK x, e, plan : x = patcher[r] /\ e = x.entry /\ plan = x.plan
    OBVIOUS
  <1>2. x \in Plans /\ x # NoPatch /\ e \in Entries /\ plan \in [Keys -> Statements]
    BY <1>1 DEF PatchCommit, MetadataInv, MetadataTypeOK, Plans
  <1>3. CASE patcher' = [patcher EXCEPT ![r] = NoPatch] /\ UNCHANGED pairs
    BY <1>3, PatchEnds DEF PatchCommit
  <1>4. CASE ~(patcher' = [patcher EXCEPT ![r] = NoPatch] /\ UNCHANGED pairs)
    <2> DEFINE Left(p) == [k \in Keys |-> IF plan[k].do = "delete" THEN Missed(p[k]) ELSE p[k]]
               row == [k \in Keys |-> Outcome(plan[k], pairs[e][k])]
    <2>1. pairs' = [pairs EXCEPT ![e] = row]
      BY <1>1, <1>4 DEF PatchCommit, MetadataInv, MetadataTypeOK
    <2>2. patcher' = [q \in Patchers |->
                   IF q = r THEN NoPatch
                   ELSE IF patcher[q].entry = e
                   THEN [patcher[q] EXCEPT !.plan = Left(patcher[q].plan)]
                   ELSE patcher[q]]
      BY <1>1, <1>4 DEF PatchCommit
    <2>3. UNCHANGED <<kept, away, definitionVars, together>>
      BY DEF PatchCommit, entryVars
    <2>4. row \in [Keys -> Values \union {Absent}]
      <3>1. \A k \in Keys : pairs[e][k] \in Values \union {Absent} /\ plan[k] \in Statements
        BY <1>2 DEF MetadataInv, MetadataTypeOK
      <3> QED
        BY <3>1, StatementShape
    <2>5. together => \A k, l \in Keys : plan[k] = plan[l] /\ pairs[e][k] = pairs[e][l]
      BY <1>1, <1>2 DEF MetadataInv, Uniform
    <2>6. together => \A k, l \in Keys : row[k] = row[l]
      BY <2>5
    <2>7. pairs' \in [Entries -> [Keys -> Values \union {Absent}]]
      <3> HIDE DEF row
      <3> QED
        BY <1>2, <2>1, <2>4 DEF MetadataInv, MetadataTypeOK
    <2>8. together => \A d \in Entries : \A k, l \in Keys : pairs'[d][k] = pairs'[d][l]
      <3>1. pairs'[e] = row /\ \A d \in Entries \ {e} : pairs'[d] = pairs[d]
        BY <1>2, <2>1 DEF MetadataInv, MetadataTypeOK
      <3> HIDE DEF row
      <3> QED
        BY <2>6, <3>1 DEF MetadataInv, Uniform
    <2>9. ASSUME NEW p \in [Keys -> Statements]
          PROVE  /\ Left(p) \in [Keys -> Statements]
                 /\ together /\ (\A k, l \in Keys : p[k] = p[l]) =>
                       \A k, l \in Keys : Left(p)[k] = Left(p)[l]
      BY <2>5, StatementShape
    <2>10. ASSUME NEW q \in Patchers
           PROVE  /\ patcher'[q] \in {NoPatch} \union Plans
                  /\ together /\ patcher'[q] # NoPatch =>
                       \A k, l \in Keys : patcher'[q].plan[k] = patcher'[q].plan[l]
      <3>1. CASE q = r
        BY <2>2, <3>1
      <3>2. CASE q # r /\ patcher[q].entry = e
        <4>1. PICK y, f : y = patcher[q] /\ f = Left(y.plan)
          OBVIOUS
        <4>2. y \in Plans /\ y # NoPatch
          BY <1>2, <3>2, <4>1, MetadataConstants DEF MetadataInv, MetadataTypeOK, Plans, NoPatch
        <4>3. patcher'[q] = [y EXCEPT !.plan = f]
          BY <2>2, <3>2, <4>1
        <4>4. y.plan \in [Keys -> Statements]
          BY <4>2 DEF Plans
        <4>5. f \in [Keys -> Statements]
          BY <2>9, <4>1, <4>4
        <4>6. patcher'[q] \in Plans /\ patcher'[q].plan = f
          BY <4>2, <4>3, <4>5 DEF Plans
        <4>7. together => \A k, l \in Keys : y.plan[k] = y.plan[l]
          BY <4>1, <4>2 DEF MetadataInv, Uniform
        <4>8. together => \A k, l \in Keys : f[k] = f[l]
          BY <2>9, <4>1, <4>4, <4>7
        <4> QED
          BY <4>6, <4>8
      <3>3. CASE q # r /\ patcher[q].entry # e
        <4>1. patcher'[q] = patcher[q]
          BY <2>2, <3>3
        <4> QED
          BY <4>1 DEF MetadataInv, MetadataTypeOK, Uniform, Plans
      <3> QED
        BY <3>1, <3>2, <3>3
    <2>11. patcher' \in [Patchers -> {NoPatch} \union Plans]
      <3>1. \E f : patcher' = [q \in Patchers |-> f[q]]
        BY <2>2
      <3> QED
        BY <2>10, <3>1
    <2>12. away' \subseteq kept' /\ kept' \subseteq Entries
      BY <2>3 DEF MetadataInv, MetadataTypeOK
    <2> HIDE DEF row, Left
    <2> QED
      BY <2>3, <2>7, <2>8, <2>10, <2>11, <2>12, PlansChange
  <1> QED
    BY <1>3, <1>4

\* The definitions keep their shape.
LEMMA DefinitionsKeep ==
    ASSUME MetadataInv, DefinitionsNext
    PROVE  MetadataInv'
  <1>1. UNCHANGED <<kept, away, pairs, patcher, together>>
    BY DEF DefinitionsNext, DefineCheck, Define, DefineDies, Relabel, Undefine, entryVars
  <1>2. label' \in [Keys -> Labels \union {"unborn", "deleted"}] /\ definer' \in [Definers -> Labels \union {"none"}]
    <2>1. ASSUME NEW d \in Definers, NEW n \in Labels, DefineCheck(d, n)
          PROVE  label' = label /\ definer' \in [Definers -> Labels \union {"none"}]
      BY <2>1 DEF DefineCheck, MetadataInv, MetadataTypeOK
    <2>2. ASSUME NEW d \in Definers, NEW k \in Keys, Define(d, k)
          PROVE  /\ label' \in [Keys -> Labels \union {"unborn", "deleted"}]
                 /\ definer' \in [Definers -> Labels \union {"none"}]
      BY <2>2 DEF Define, MetadataInv, MetadataTypeOK
    <2>3. ASSUME NEW d \in Definers, DefineDies(d)
          PROVE  label' = label /\ definer' \in [Definers -> Labels \union {"none"}]
      BY <2>3 DEF DefineDies, MetadataInv, MetadataTypeOK
    <2>4. ASSUME NEW k \in Keys, Undefine(k) \/ \E n \in Labels : Relabel(k, n)
          PROVE  definer' = definer /\ label' \in [Keys -> Labels \union {"unborn", "deleted"}]
      BY <2>4 DEF Undefine, Relabel, MetadataInv, MetadataTypeOK
    <2> QED
      BY <2>1, <2>2, <2>3, <2>4 DEF DefinitionsNext, MetadataInv, MetadataTypeOK
  <1> QED
    BY <1>1, <1>2 DEF MetadataInv, MetadataTypeOK, Uniform

\* The invariant is kept by every step.
LEMMA MetadataInvStep == MetadataInv /\ [MetadataNext]_metadataVars => MetadataInv'
  <1> SUFFICES ASSUME MetadataInv, [MetadataNext]_metadataVars PROVE MetadataInv'
    OBVIOUS
  <1>1. CASE UNCHANGED metadataVars
    <2>1. UNCHANGED <<kept, away, pairs, patcher, label, definer, together>>
      BY <1>1 DEF metadataVars, entryVars, definitionVars
    <2> QED
      BY <2>1 DEF MetadataInv, MetadataTypeOK, Uniform
  <1>2. ASSUME NEW e \in Entries, NewEntry(e) \/ TrashEntry(e) \/ RestoreEntry(e) PROVE MetadataInv'
    <2>1. UNCHANGED <<pairs, patcher, label, definer, together>>
      BY <1>2 DEF NewEntry, TrashEntry, RestoreEntry, definitionVars
    <2>2. away' \subseteq kept' /\ kept' \subseteq Entries
      BY <1>2 DEF NewEntry, TrashEntry, RestoreEntry, MetadataInv, MetadataTypeOK
    <2> QED
      BY <2>1, <2>2 DEF MetadataInv, MetadataTypeOK, Uniform
  <1>3. ASSUME NEW e \in Entries, PurgeEntry(e) PROVE MetadataInv'
    BY <1>3, PurgeKeeps
  <1>4. ASSUME NEW r \in Patchers, NEW e \in Entries, NEW asked \in Asked, PatchLoad(r, e, asked)
        PROVE  MetadataInv'
    BY <1>4, LoadKeeps
  <1>5. ASSUME NEW r \in Patchers, PatchCommit(r) \/ PatchDies(r) PROVE MetadataInv'
    BY <1>5, CommitKeeps, PatchEnds DEF PatchDies
  <1> QED
    BY <1>1, <1>2, <1>3, <1>4, <1>5, DefinitionsKeep DEF MetadataNext, PairsNext

\* So the answer about an entry is all of one write, or nothing.
LEMMA UniformWhole == MetadataInv => MetadataTypeOK /\ PatchesWhole
  <1> SUFFICES ASSUME MetadataInv, together, NEW e \in Entries
      PROVE  /\ DOMAIN MetadataOf(e) \in {{}, Keys}
             /\ \A k, l \in DOMAIN MetadataOf(e) : MetadataOf(e)[k] = MetadataOf(e)[l]
    BY DEF MetadataInv, PatchesWhole
  <1>1. \A k, l \in Keys : pairs[e][k] = pairs[e][l]
    BY DEF MetadataInv, Uniform
  <1>2. DOMAIN MetadataOf(e) = {x \in Keys : pairs[e][x] # Absent}
    BY DEF MetadataOf
  <1>3. DOMAIN MetadataOf(e) \in {{}, Keys}
    BY <1>1, <1>2
  <1> QED
    BY <1>1, <1>2, <1>3 DEF MetadataOf

\* Clients that write all keys of an entry together never read a mixture.
THEOREM MetadataStaysWhole == MetadataSpec => [](MetadataTypeOK /\ PatchesWhole)
  BY MetadataInvInit, MetadataInvStep, UniformWhole, PTL DEF MetadataSpec

-----------------------------------------------------------------------------
(* Local storage *)

\* A sequence of one is known by its element, and one of two by both.
LEMMA ShortSequences ==
    ASSUME NEW S, NEW t \in Seq(S), NEW a \in S, NEW b \in S
    PROVE  /\ Len(t) = 1 /\ t[1] = a => t = <<a>>
           /\ Len(t) = 2 /\ t[1] = a /\ t[2] = b => t = <<a, b>>
  <1>1. ASSUME Len(t) = 1, t[1] = a PROVE t = <<a>>
    <2>1. PICK u : u = <<a>>
      OBVIOUS
    <2>2. u \in Seq(S) /\ Len(u) = 1 /\ u[1] = a
      BY <2>1
    <2>3. \A i \in 1..Len(t) : t[i] = u[i]
      BY <1>1, <2>2
    <2> QED
      BY <1>1, <2>1, <2>2, <2>3, SeqEqual
  <1>2. ASSUME Len(t) = 2, t[1] = a, t[2] = b PROVE t = <<a, b>>
    <2>1. PICK u : u = <<a, b>>
      OBVIOUS
    <2>2. u \in Seq(S) /\ Len(u) = 2 /\ u[1] = a /\ u[2] = b
      BY <2>1
    <2>3. \A i \in 1..Len(t) : t[i] = u[i]
      BY <1>2, <2>2
    <2> QED
      BY <1>2, <2>1, <2>2, <2>3, SeqEqual
  <1> QED
    BY <1>1, <1>2

\* Two levels at most: the date, and what is drawn for the file.
LEMMA TwoLevels ==
    ASSUME NEW c \in Contents
    PROVE  /\ Len(<<>>) = 0 /\ Len(<<Date>>) = 1 /\ Len(<<Date, c>>) = 2
           /\ <<>> # <<Date>> /\ <<>> # <<Date, c>> /\ <<Date>> # <<Date, c>>
           /\ SubSeq(<<Date>>, 1, 1) = <<Date>> /\ SubSeq(<<Date>>, 1, 0) = <<>>
           /\ SubSeq(<<Date, c>>, 1, 1) = <<Date>> /\ SubSeq(<<Date, c>>, 1, 2) = <<Date, c>>
  <1>1. Len(<<>>) = 0 /\ Len(<<Date>>) = 1 /\ Len(<<Date, c>>) = 2
    OBVIOUS
  <1>2. <<>> # <<Date>> /\ <<>> # <<Date, c>> /\ <<Date>> # <<Date, c>>
    BY <1>1
  <1>3. SubSeq(<<Date>>, 1, 0) = <<>>
    BY SubSeqEmpty
  <1>4. SubSeq(<<Date>>, 1, 1) = <<Date>>
    <2>1. PICK t : t = SubSeq(<<Date>>, 1, 1)
      OBVIOUS
    <2>2. <<Date>> \in Seq({Date})
      OBVIOUS
    <2>3. t \in Seq({Date}) /\ Len(t) = 1 /\ t[1] = Date
      BY <1>1, <2>1, <2>2, SubSeqProperties
    <2>4. Date \in {Date}
      OBVIOUS
    <2>5. t = <<Date>>
      BY <2>3, <2>4, ShortSequences
    <2> QED
      BY <2>1, <2>5
  <1>5. PICK s : s = <<Date, c>>
    OBVIOUS
  <1>6. s \in Seq({Date, c}) /\ Len(s) = 2 /\ s[1] = Date /\ s[2] = c
    BY <1>5
  <1>7. SubSeq(s, 1, 1) = <<Date>>
    <2>1. PICK t : t = SubSeq(s, 1, 1)
      OBVIOUS
    <2>2. t \in Seq({Date, c}) /\ Len(t) = 1 /\ t[1] = Date
      BY <1>6, <2>1, SubSeqProperties
    <2>3. Date \in {Date, c} /\ c \in {Date, c}
      OBVIOUS
    <2>4. t = <<Date>>
      BY <2>2, <2>3, ShortSequences
    <2> QED
      BY <2>1, <2>4
  <1>8. SubSeq(s, 1, 2) = s
    <2>1. PICK t : t = SubSeq(s, 1, 2)
      OBVIOUS
    <2>2. t \in Seq({Date, c}) /\ Len(t) = 2 /\ t[1] = Date /\ t[2] = c
      BY <1>6, <2>1, SubSeqProperties
    <2>3. Date \in {Date, c} /\ c \in {Date, c}
      OBVIOUS
    <2>4. t = <<Date, c>>
      BY <2>2, <2>3, ShortSequences
    <2> QED
      BY <1>5, <2>1, <2>4
  <1> QED
    BY <1>1, <1>2, <1>3, <1>4, <1>5, <1>7, <1>8

\* The directory of a file, by the rule.
LEMMA DirCases ==
    ASSUME rule \in Rules, NEW c \in Contents
    PROVE  \/ rule.dir = <<>> /\ DirOf(c) = <<>>
           \/ rule.dir = <<"date">> /\ DirOf(c) = <<Date>>
           \/ rule.dir = <<"date", "key">> /\ DirOf(c) = <<Date, c>>
  <1>1. CASE rule.dir = <<>>
    BY <1>1 DEF DirOf
  <1>2. CASE rule.dir = <<"date">>
    BY <1>2 DEF DirOf, Segment
  <1>3. CASE rule.dir = <<"date", "key">>
    BY <1>3 DEF DirOf, Segment
  <1> QED
    BY <1>1, <1>2, <1>3 DEF Rules

\* Where an upload is with its directories: at the first ones of its path.
Climbing ==
    \A c \in Contents :
        /\ life[c] \in {"unborn", "path"} => \E n \in 0..Len(DirOf(c)) : at[c] = SubSeq(DirOf(c), 1, n)
        /\ life[c] = "unborn" => at[c] = <<>>

\* What is on the disk is in a directory that is there, and so is a directory.
Housed ==
    /\ \A p \in StorePaths : disk[p] # Nothing => IsThere(p.dir)
    /\ \A c \in Contents : <<Date, c>> \in dirs => <<Date>> \in dirs

\* As long as something is drawn for each file, what was stored stays where it is
\* until its own request deletes it.
Undisturbed ==
    Keyed => \A c \in Contents : life[c] \in {"stored", "kept"} => disk[PathOf(c)] = c

StoreInv == StoreTypeOK /\ Climbing /\ Housed /\ Undisturbed

\* What a file's directory and path are, and the first part of the directory.
LEMMA DirShape ==
    ASSUME rule \in Rules, NEW c \in Contents
    PROVE  /\ DirOf(c) \in Places /\ PathOf(c) \in StorePaths
           /\ Len(DirOf(c)) \in 0..2 /\ SubSeq(DirOf(c), 1, 0) = <<>>
           /\ \A n \in 0..Len(DirOf(c)) : SubSeq(DirOf(c), 1, n) \in Places
           /\ SubSeq(DirOf(c), 1, Len(DirOf(c))) = DirOf(c)
           /\ \A n \in 1..Len(DirOf(c)) : SubSeq(DirOf(c), 1, n) # <<>>
           /\ \A n \in 0..Len(DirOf(c)) : Len(SubSeq(DirOf(c), 1, n)) = n
           /\ \A d \in Contents : \A n \in 1..Len(DirOf(c)) :
                SubSeq(DirOf(c), 1, n) = <<Date, d>> => SubSeq(DirOf(c), 1, n - 1) = <<Date>>
  <1>0. SubSeq(DirOf(c), 1, 0) = <<>>
    BY SubSeqEmpty
  <1>1. CASE DirOf(c) = <<>>
    <2>1. Len(DirOf(c)) = 0 /\ 0..0 = {0} /\ 1..0 = {}
      BY <1>1
    <2> QED
      BY <1>0, <1>1, <2>1 DEF Places, PathOf, StorePaths, Rules
  <1>2. CASE DirOf(c) = <<Date>>
    <2>1. Len(DirOf(c)) = 1 /\ 0..1 = {0, 1} /\ 1..1 = {1}
      BY <1>2
    <2>2. \A d \in Contents : <<Date>> # <<Date, d>>
      BY TwoLevels
    <2>3. PathOf(c) \in StorePaths /\ DirOf(c) \in Places
      BY <1>2 DEF Places, PathOf, StorePaths, Rules
    <2>4. SubSeq(DirOf(c), 1, 1) = <<Date>> /\ <<Date>> \in Places /\ <<>> \in Places
      BY <1>2, TwoLevels DEF Places
    <2>5. <<Date>> # <<>> /\ Len(<<Date>>) = 1 /\ Len(<<>>) = 0
      BY TwoLevels
    <2> QED
      <3>1. Len(DirOf(c)) \in 0..2 /\ SubSeq(DirOf(c), 1, Len(DirOf(c))) = DirOf(c)
        BY <1>2, <2>1, <2>4
      <3>2. \A n \in 0..Len(DirOf(c)) : n = 0 \/ n = 1
        BY <2>1
      <3>3. \A n \in 0..Len(DirOf(c)) : SubSeq(DirOf(c), 1, n) \in Places
        BY <1>0, <2>4, <3>2
      <3>4. \A n \in 1..Len(DirOf(c)) : n = 1
        BY <2>1
      <3>5. \A n \in 1..Len(DirOf(c)) : SubSeq(DirOf(c), 1, n) = <<Date>>
        BY <2>4, <3>4
      <3>6. \A n \in 0..Len(DirOf(c)) : Len(SubSeq(DirOf(c), 1, n)) = n
        BY <1>0, <2>4, <2>5, <3>2
      <3> QED
        BY <1>0, <2>2, <2>3, <2>5, <3>1, <3>3, <3>5, <3>6
  <1>3. CASE DirOf(c) = <<Date, c>>
    <2>1. Len(DirOf(c)) = 2 /\ 0..2 = {0, 1, 2} /\ 1..2 = {1, 2}
      BY <1>3
    <2>2. \A d \in Contents : <<Date>> # <<Date, d>>
      BY TwoLevels
    <2>3. PathOf(c) \in StorePaths /\ DirOf(c) \in Places
      BY <1>3 DEF Places, PathOf, StorePaths, Rules
    <2> QED
      BY <1>0, <1>3, <2>1, <2>2, <2>3, TwoLevels DEF Places
  <1> QED
    BY <1>1, <1>2, <1>3, DirCases

\* When something is drawn, two files have two paths.
LEMMA PathsDiffer ==
    ASSUME rule \in Rules, Keyed, NEW c \in Contents, NEW d \in Contents, c # d
    PROVE  PathOf(c) # PathOf(d)
  <1>1. CASE rule.drawn
    BY <1>1 DEF PathOf
  <1>2. CASE ~rule.drawn
    <2>1. PICK i \in DOMAIN rule.dir : rule.dir[i] = "key"
      BY <1>2 DEF Keyed
    <2>2. DirOf(c)[i] = c /\ DirOf(d)[i] = d
      BY <2>1 DEF DirOf, Segment
    <2> QED
      BY <2>2 DEF PathOf
  <1> QED
    BY <1>1, <1>2

\* There is nothing in the base directory yet.
LEMMA StoreInvInit == StoreInit => StoreInv
  <1> SUFFICES ASSUME StoreInit PROVE StoreInv
    OBVIOUS
  <1>1. StoreTypeOK
    BY DEF StoreInit, StoreTypeOK, Places
  <1>2. Climbing
    <2>1. ASSUME NEW c \in Contents PROVE \E n \in 0..Len(DirOf(c)) : <<>> = SubSeq(DirOf(c), 1, n)
      <3>1. PICK l \in 0..2 : l = Len(DirOf(c))
        BY DirShape DEF StoreInit
      <3>2. 0 \in 0..l
        BY <3>1
      <3> QED
        BY <3>1, <3>2, DirShape DEF StoreInit
    <2> QED
      BY <2>1 DEF StoreInit, Climbing
  <1>3. Housed
    BY DEF StoreInit, Housed
  <1>4. Undisturbed
    BY DEF StoreInit, Undisturbed
  <1> QED
    BY <1>1, <1>2, <1>3, <1>4 DEF StoreInv

\* The life of one file goes on; the directories and the disk stay.
LEMMA LifeGoesOn ==
    ASSUME StoreInv, NEW c \in Contents,
           NEW stage \in {"path", "kept", "list", "rmdir", "gone"},
           stage = "path" => life[c] = "unborn", stage = "kept" => life[c] \in {"stored", "kept"},
           Enter(c, stage), UNCHANGED <<rule, dirs, disk, at>>, relative' \subseteq Contents
    PROVE  StoreInv'
  <1>1. /\ life'[c] = stage /\ \A d \in Contents \ {c} : life'[d] = life[d]
        /\ life' \in [Contents -> {"unborn", "path", "stored", "kept", "list", "rmdir", "gone"}]
    BY DEF Enter, StoreInv, StoreTypeOK
  <1>2. \A d \in Contents : DirOf(d)' = DirOf(d) /\ PathOf(d)' = PathOf(d)
    BY DEF DirOf, PathOf
  <1>3. Climbing'
    BY <1>1, <1>2 DEF StoreInv, Climbing
  <1>4. Housed'
    BY DEF StoreInv, Housed, IsThere
  <1>5. Undisturbed'
    BY <1>1, <1>2 DEF StoreInv, Undisturbed, Keyed
  <1> QED
    BY <1>1, <1>3, <1>4, <1>5 DEF StoreInv, StoreTypeOK

\* An upload makes one directory more, below one that is there.
LEMMA MakeDirKeeps ==
    ASSUME StoreInv, NEW c \in Contents, life[c] = "path", at[c] # DirOf(c), IsThere(at[c]),
           dirs' = dirs \union {SubSeq(DirOf(c), 1, Len(at[c]) + 1)},
           at' = [at EXCEPT ![c] = SubSeq(DirOf(c), 1, Len(at[c]) + 1)],
           UNCHANGED <<rule, disk, life, relative>>
    PROVE  StoreInv'
  <1>0. rule \in Rules
    BY DEF StoreInv, StoreTypeOK
  <1>1. PICK s, l : s = DirOf(c) /\ l = Len(s) /\ l \in 0..2
    BY <1>0, DirShape
  <1>2. PICK n \in 0..l : at[c] = SubSeq(s, 1, n)
    BY <1>1 DEF StoreInv, Climbing
  <1>3. n + 1 \in 1..l /\ n + 1 \in 0..l
    <2>1. n # l
      BY <1>0, <1>1, <1>2, DirShape
    <2> QED
      BY <1>1, <1>2, <2>1
  <1>4. Len(at[c]) = n
    BY <1>0, <1>1, <1>2, DirShape
  <1>5. PICK next : next = SubSeq(s, 1, n + 1)
    OBVIOUS
  <1>6. next \in Places /\ next # <<>>
    BY <1>0, <1>1, <1>3, <1>5, DirShape
  <1>7. dirs' = dirs \union {next} /\ at' = [at EXCEPT ![c] = next]
    BY <1>1, <1>4, <1>5
  <1>8. at'[c] = next /\ (\A d \in Contents \ {c} : at'[d] = at[d]) /\ at' \in [Contents -> Places]
    BY <1>6, <1>7 DEF StoreInv, StoreTypeOK
  <1>9. \A d \in Contents : DirOf(d)' = DirOf(d) /\ PathOf(d)' = PathOf(d)
    BY DEF DirOf, PathOf
  <1>10. Climbing'
    <2>1. \E m \in 0..Len(DirOf(c)) : next = SubSeq(DirOf(c), 1, m)
      BY <1>1, <1>3, <1>5
    <2> QED
      BY <1>8, <1>9, <2>1 DEF StoreInv, Climbing
  <1>11. Housed'
    <2>1. \A p \in StorePaths : disk'[p] # Nothing => IsThere(p.dir)'
      BY <1>7 DEF StoreInv, Housed, IsThere
    <2>2. ASSUME NEW d \in Contents, next = <<Date, d>> PROVE <<Date>> \in dirs
      <3>1. SubSeq(s, 1, (n + 1) - 1) = <<Date>>
        BY <1>0, <1>1, <1>3, <1>5, <2>2, DirShape
      <3>2. (n + 1) - 1 = n
        OBVIOUS
      <3> QED
        BY <1>2, <3>1, <3>2, TwoLevels DEF IsThere
    <2> QED
      BY <1>7, <2>1, <2>2 DEF StoreInv, Housed
  <1>12. Undisturbed'
    BY <1>9 DEF StoreInv, Undisturbed, Keyed
  <1> QED
    BY <1>6, <1>7, <1>8, <1>10, <1>11, <1>12 DEF StoreInv, StoreTypeOK

\* A file is written where its directory is, or removed; other paths stay.
LEMMA DiskChanges ==
    ASSUME StoreInv, NEW c \in Contents, NEW stage \in {"stored", "list", "gone"},
           NEW what \in Contents \union {Nothing},
           disk' = [disk EXCEPT ![PathOf(c)] = what],
           what # Nothing => IsThere(DirOf(c)), stage = "stored" => what = c,
           Enter(c, stage), UNCHANGED <<rule, dirs, at, relative>>
    PROVE  StoreInv'
  <1>0. rule \in Rules
    BY DEF StoreInv, StoreTypeOK
  <1>1. /\ life'[c] = stage /\ \A d \in Contents \ {c} : life'[d] = life[d]
        /\ life' \in [Contents -> {"unborn", "path", "stored", "kept", "list", "rmdir", "gone"}]
    BY DEF Enter, StoreInv, StoreTypeOK
  <1>2. \A d \in Contents : DirOf(d)' = DirOf(d) /\ PathOf(d)' = PathOf(d)
    BY DEF DirOf, PathOf
  <1>3. PICK q \in StorePaths : q = PathOf(c)
    BY <1>0, DirShape
  <1>4. /\ disk'[q] = what /\ \A p \in StorePaths \ {q} : disk'[p] = disk[p]
        /\ disk' \in [StorePaths -> Contents \union {Nothing}]
    BY <1>3 DEF StoreInv, StoreTypeOK
  <1>5. Climbing'
    BY <1>1, <1>2 DEF StoreInv, Climbing
  <1>6. Housed'
    <2>1. q.dir = DirOf(c)
      BY <1>3 DEF PathOf
    <2> QED
      BY <1>4, <2>1 DEF StoreInv, Housed, IsThere
  <1>7. Undisturbed'
    <2> SUFFICES ASSUME Keyed, NEW d \in Contents, life'[d] \in {"stored", "kept"}
        PROVE  disk'[PathOf(d)] = d
      BY <1>2 DEF Undisturbed, Keyed
    <2>1. CASE d = c
      BY <1>1, <1>3, <1>4, <2>1
    <2>2. CASE d # c
      <3>1. PathOf(d) \in StorePaths \ {q}
        BY <1>0, <1>3, <2>2, PathsDiffer, DirShape
      <3> QED
        BY <1>1, <1>4, <2>2, <3>1 DEF StoreInv, Undisturbed
    <2> QED
      BY <2>1, <2>2
  <1> QED
    BY <1>1, <1>4, <1>5, <1>6, <1>7 DEF StoreInv, StoreTypeOK

\* A directory goes that has nothing in it.
LEMMA RemoveDirKeeps ==
    ASSUME StoreInv, NEW c \in Contents, life[c] = "rmdir", at[c] \in dirs, Inside(at[c]) = {},
           dirs' = dirs \ {at[c]},
           at' = [at EXCEPT ![c] = SubSeq(at[c], 1, Len(at[c]) - 1)],
           Enter(c, "list"), UNCHANGED <<rule, disk, relative>>
    PROVE  StoreInv'
  <1>1. /\ life'[c] = "list" /\ \A d \in Contents \ {c} : life'[d] = life[d]
        /\ life' \in [Contents -> {"unborn", "path", "stored", "kept", "list", "rmdir", "gone"}]
    BY DEF Enter, StoreInv, StoreTypeOK
  <1>2. \A d \in Contents : DirOf(d)' = DirOf(d) /\ PathOf(d)' = PathOf(d)
    BY DEF DirOf, PathOf
  <1>3. SubSeq(at[c], 1, Len(at[c]) - 1) \in Places
    <2>1. at[c] = <<Date>> \/ \E d \in Contents : at[c] = <<Date, d>>
      BY DEF StoreInv, StoreTypeOK, Places
    <2>2. CASE at[c] = <<Date>>
      <3>1. Len(at[c]) - 1 = 0
        BY <2>2, TwoLevels
      <3>2. SubSeq(at[c], 1, 0) = <<>>
        BY SubSeqEmpty
      <3> QED
        BY <3>1, <3>2 DEF Places
    <2>3. ASSUME NEW d \in Contents, at[c] = <<Date, d>> PROVE SubSeq(at[c], 1, Len(at[c]) - 1) \in Places
      <3>1. Len(at[c]) - 1 = 1
        BY <2>3, TwoLevels
      <3> QED
        BY <2>3, <3>1, TwoLevels DEF Places
    <2> QED
      BY <2>1, <2>2, <2>3
  <1>4. (\A d \in Contents \ {c} : at'[d] = at[d]) /\ at' \in [Contents -> Places]
    BY <1>3 DEF StoreInv, StoreTypeOK
  <1>5. Climbing'
    BY <1>1, <1>2, <1>4 DEF StoreInv, Climbing
  <1>6. Housed'
    <2>1. \A p \in StorePaths : disk[p] # Nothing => p.dir # at[c]
      BY DEF Inside
    <2>2. \A p \in StorePaths : disk'[p] # Nothing => IsThere(p.dir)'
      BY <2>1 DEF StoreInv, Housed, IsThere
    <2>3. ASSUME NEW d \in Contents, <<Date, d>> \in dirs' PROVE <<Date>> \in dirs'
      <3>1. <<Date, d>> \in dirs /\ <<Date>> \in dirs
        BY <2>3 DEF StoreInv, Housed
      <3>2. at[c] # <<Date>>
        <4> SUFFICES ASSUME at[c] = <<Date>> PROVE <<Date, d>> \in Inside(at[c])
          BY <3>1
        <4> QED
          BY <3>1, TwoLevels DEF Inside
      <3> QED
        BY <3>1, <3>2
    <2> QED
      BY <2>2, <2>3 DEF Housed
  <1>7. Undisturbed'
    BY <1>1, <1>2 DEF StoreInv, Undisturbed, Keyed
  <1> QED
    BY <1>1, <1>4, <1>5, <1>6, <1>7 DEF StoreInv, StoreTypeOK

\* The invariant is kept by every step.
LEMMA StoreInvStep == StoreInv /\ [StoreNext]_storeVars => StoreInv'
  <1> SUFFICES ASSUME StoreInv, [StoreNext]_storeVars PROVE StoreInv'
    OBVIOUS
  <1>1. CASE UNCHANGED storeVars
    <2>1. UNCHANGED <<rule, dirs, disk, life, at, relative>>
      BY <1>1 DEF storeVars
    <2>2. \A d \in Contents : DirOf(d)' = DirOf(d) /\ PathOf(d)' = PathOf(d)
      BY <2>1 DEF DirOf, PathOf
    <2> QED
      BY <2>1, <2>2 DEF StoreInv, StoreTypeOK, Climbing, Housed, IsThere, Undisturbed, Keyed
  <1>2. ASSUME NEW c \in Contents, GeneratePath(c) PROVE StoreInv'
    BY <1>2, LifeGoesOn DEF GeneratePath, StoreInv, StoreTypeOK
  <1>3. ASSUME NEW c \in Contents, MakeDir(c) PROVE StoreInv'
    <2>1. CASE IsThere(at[c])
      BY <1>3, <2>1, MakeDirKeeps DEF MakeDir
    <2>2. CASE ~IsThere(at[c])
      BY <1>3, <2>2, LifeGoesOn DEF MakeDir, StoreInv, StoreTypeOK
    <2> QED
      BY <2>1, <2>2
  <1>4. ASSUME NEW c \in Contents, StoreContent(c) PROVE StoreInv'
    <2>1. CASE IsThere(at[c])
      BY <1>4, <2>1, DiskChanges DEF StoreContent
    <2>2. CASE ~IsThere(at[c])
      BY <1>4, <2>2, LifeGoesOn DEF StoreContent, StoreInv, StoreTypeOK
    <2> QED
      BY <2>1, <2>2
  <1>5. ASSUME NEW c \in Contents, KeepRow(c) \/ KeepRelative(c) PROVE StoreInv'
    BY <1>5, LifeGoesOn DEF KeepRow, KeepRelative, StoreInv, StoreTypeOK
  <1>6. ASSUME NEW c \in Contents, DeleteContent(c) PROVE StoreInv'
    <2>1. CASE RestFinds(c) = Nothing
      BY <1>6, <2>1, LifeGoesOn DEF DeleteContent, StoreInv, StoreTypeOK
    <2>2. CASE ~(RestFinds(c) = Nothing)
      BY <1>6, <2>2, DiskChanges DEF DeleteContent
    <2> QED
      BY <2>1, <2>2
  <1>7. ASSUME NEW c \in Contents, GiveUp(c) PROVE StoreInv'
    BY <1>7, DiskChanges DEF GiveUp
  <1>8. ASSUME NEW c \in Contents, ListDir(c) \/ StoreFails(c) PROVE StoreInv'
    BY <1>8, LifeGoesOn DEF ListDir, StoreFails, StoreInv, StoreTypeOK
  <1>9. ASSUME NEW c \in Contents, RemoveDir(c) PROVE StoreInv'
    <2>1. CASE at[c] \in dirs /\ Inside(at[c]) = {}
      BY <1>9, <2>1, RemoveDirKeeps DEF RemoveDir
    <2>2. CASE ~(at[c] \in dirs /\ Inside(at[c]) = {})
      BY <1>9, <2>2, LifeGoesOn DEF RemoveDir, StoreInv, StoreTypeOK
    <2> QED
      BY <2>1, <2>2
  <1> QED
    BY <1>1, <1>2, <1>3, <1>4, <1>5, <1>6, <1>7, <1>8, <1>9 DEF StoreNext

\* What is at a path is in a directory that is there: so it is found.
LEMMA UndisturbedOwn == StoreInv => StoreTypeOK /\ Housed /\ OwnPaths
  <1> SUFFICES ASSUME StoreInv PROVE OwnPaths
    BY DEF StoreInv
  <1> SUFFICES ASSUME Keyed, NEW c \in Contents, life[c] = "kept" PROVE ReadAt(PathOf(c)) = c
    BY DEF OwnPaths, DavFinds, RestFinds
  <1>1. disk[PathOf(c)] = c /\ c # Nothing
    BY StoreConstants DEF StoreInv, Undisturbed
  <1>2. PathOf(c) \in StorePaths
    BY DirShape DEF StoreInv, StoreTypeOK
  <1> QED
    BY <1>1, <1>2 DEF StoreInv, Housed, ReadAt

-----------------------------------------------------------------------------
(* The parts side by side *)

TablesInv ==
    /\ AccountInv /\ AloneInv /\ LoginsInv /\ ViewersInv /\ LinksInv
    /\ PresetsTypeOK /\ MetadataInv /\ StoreInv

tablesVars ==
    <<accountVars, raceVars, loginVars, viewerVars, linkVars, presetVars, metadataVars,
      storeVars, focus>>

\* What a step does to one part is a step of that part, or nothing.
LEMMA OnePartMoves ==
    ASSUME [TablesNext]_tablesVars
    PROVE  /\ [AccountNext]_accountVars /\ [RaceNext]_raceVars /\ [LoginsNext]_loginVars
           /\ [ViewersNext]_viewerVars /\ [LinksNext]_linkVars /\ [PresetsNext]_presetVars
           /\ [MetadataNext]_metadataVars /\ [StoreNext]_storeVars
  BY DEF TablesNext, tablesVars, MetadataNext, metadataVars

\* Each part begins as it does alone.
LEMMA TablesInvInit == TablesInit => TablesInv
  BY AccountInvInit, AloneInvInit, LoginsInvInit, ViewersInvInit, LinksInvInit, PresetsInitType,
     MetadataInvInit, StoreInvInit DEF TablesInit, TablesInv

\* Each part keeps its invariant.
LEMMA TablesInvStep == TablesInv /\ [TablesNext]_tablesVars => TablesInv'
  <1> SUFFICES ASSUME TablesInv, [TablesNext]_tablesVars PROVE TablesInv'
    OBVIOUS
  <1>1. AccountInv' /\ AloneInv' /\ LoginsInv' /\ ViewersInv'
    BY OnePartMoves, AccountInvStep, AloneInvStep, LoginsInvStep, ViewersInvStep DEF TablesInv
  <1>2. LinksInv' /\ PresetsTypeOK' /\ MetadataInv' /\ StoreInv'
    BY OnePartMoves, LinksInvStep, PresetsStep, MetadataInvStep, StoreInvStep DEF TablesInv
  <1> QED
    BY <1>1, <1>2 DEF TablesInv

\* TablesInv holds in every state.
THEOREM TablesInvariant == TablesSpec => []TablesInv
  BY TablesInvInit, TablesInvStep, PTL DEF TablesSpec, tablesVars

\* The tables, and what each request remembers, have the shape they should, in all
\* parts.
THEOREM TablesTypeCorrect == TablesSpec => []TypeOK
  <1>1. TablesInv => TypeOK
    BY NotedHidden, CheckedRefused, UniformWhole
    DEF TablesInv, TypeOK, AccountInv, AloneInv, RaceInv, LoginsInv, ViewersInv, LinksInv, MetadataInv, StoreInv
  <1> QED
    BY <1>1, TablesInvariant, PTL

\* Every user's rows refer to rows that are there, whoever is registered has one
\* root, names stay apart below a folder, and no cycle is closed while moves are
\* alone: with the other parts beside them as without.
THEOREM TreesAndAccountsHold ==
    TablesSpec => [](ReferencesHold /\ RegisteredHaveRoot /\ NamesAndParentsHold /\ AcyclicAlone)
  <1>1. TablesInv => ReferencesHold /\ RegisteredHaveRoot /\ NamesAndParentsHold /\ AcyclicAlone
    BY NothingAheadNoCycle DEF TablesInv, AccountInv, AloneInv, RaceInv
  <1> QED
    BY <1>1, TablesInvariant, PTL

\* The same of challenges, viewers, links, metadata and paths.
THEOREM RequestsHold ==
    TablesSpec => [](/\ ChallengesOnce /\ RestrictedStaysHidden /\ RevokedRefused
                     /\ PatchesWhole /\ OwnPaths)
  <1>1. TablesInv => /\ ChallengesOnce /\ RestrictedStaysHidden /\ RevokedRefused
                     /\ PatchesWhole /\ OwnPaths
    BY NotedHidden, CheckedRefused, UniformWhole, UndisturbedOwn DEF TablesInv, LoginsInv
  <1> QED
    BY <1>1, TablesInvariant, PTL

\* No step of any part takes the last default of the themes but by deleting it.
THEOREM TablesKeepDefault == TablesSpec => DefaultKept
  <1>1. TablesInv /\ [TablesNext]_tablesVars =>
          [defaults # {} => defaults' # {} \/ \E t \in defaults : t \notin presets']_presetVars
    BY OnePartMoves, PresetsStep DEF TablesInv
  <1> QED
    BY <1>1, TablesInvariant, PTL DEF TablesSpec, tablesVars, DefaultKept
=============================================================================
