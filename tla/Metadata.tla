------------------------------- MODULE Metadata -------------------------------
(***************************************************************************)
(* Metadata of entries, as pairs of a key and a value, and the properties  *)
(* a user defines for it.                                                  *)
(*                                                                         *)
(* A PATCH loads the pairs of an entry in one query, decides for each key  *)
(* what to do to the row it has found, and commits everything at once;     *)
(* other requests may have inserted, changed or deleted rows in between.   *)
(* Only keys custom:{definition} can be written, and nothing else writes   *)
(* any, so the internal namespaces, which no answer shows, stay empty.     *)
(***************************************************************************)
EXTENDS Naturals

CONSTANTS
    Entries,        \* ids of entries of one user
    Keys,           \* ids of definitions: the keys custom:{id}
    Values,
    Absent,         \* no row with that key, and no value in a PATCH
    Labels,         \* names of definitions
    Patchers,       \* PATCH requests in progress at one time
    Definers        \* requests that define a property

ASSUME MetadataConstants ==
    /\ Absent \notin Values /\ "none" \notin Entries
    /\ {"unborn", "deleted"} \intersect Labels = {}

VARIABLES
    kept,           \* rows of the entry table
    away,           \* those in the trash
    pairs,          \* rows of EntryMetadata: the value of each key
    patcher,        \* what each PATCH is about to do
    label,          \* rows of CustomPropertyDefinition: their names
    definer,        \* the name a request has found free
    together        \* every PATCH gives all keys one value, or deletes all (fixed)

entryVars == <<kept, away>>
definitionVars == <<label, definer>>
metadataVars == <<entryVars, pairs, patcher, definitionVars, together>>

NoPatch == [entry |-> "none"]

\* What is left to do about the row of one key, which is a statement about the
\* row that was loaded: an UPDATE of a row that has gone raises, a DELETE of it
\* is logged, and an assignment of the value it had is no statement at all.
Statements == [do : {"nothing", "fail", "delete"}] \union [do : {"insert", "update"}, value : Values]
Statement(found, wanted) ==
    IF wanted = Absent
    THEN IF found = Absent THEN [do |-> "nothing"] ELSE [do |-> "delete"]
    ELSE IF found = Absent THEN [do |-> "insert", value |-> wanted]
    ELSE IF found = wanted THEN [do |-> "nothing"]
    ELSE [do |-> "update", value |-> wanted]

\* The statement once the row it is about has gone.
Missed(s) ==
    CASE s.do = "update" -> [do |-> "fail"]
      [] s.do = "delete" -> [do |-> "nothing"]
      [] OTHER -> s

MetadataInit ==
    /\ kept = {}
    /\ away = {}
    /\ pairs = [e \in Entries |-> [k \in Keys |-> Absent]]
    /\ patcher = [r \in Patchers |-> NoPatch]
    /\ label = [k \in Keys |-> "unborn"]
    /\ definer = [d \in Definers |-> "none"]
    /\ together \in BOOLEAN

-----------------------------------------------------------------------------
(* The entries *)

\* A new entry, or a copy: metadata is not copied.
NewEntry(e) ==
    /\ e \notin kept
    /\ \A r \in Patchers : patcher[r].entry # e
    /\ kept' = kept \union {e}
    /\ UNCHANGED <<away, pairs, patcher, definitionVars, together>>

TrashEntry(e) ==
    /\ e \in kept \ away
    /\ away' = away \union {e}
    /\ UNCHANGED <<kept, pairs, patcher, definitionVars, together>>

RestoreEntry(e) ==
    /\ e \in away
    /\ away' = away \ {e}
    /\ UNCHANGED <<kept, pairs, patcher, definitionVars, together>>

\* ON DELETE CASCADE.  A PATCH in progress finds neither rows nor entry.
PurgeEntry(e) ==
    /\ e \in away
    /\ kept' = kept \ {e}
    /\ away' = away \ {e}
    /\ pairs' = [pairs EXCEPT ![e] = [k \in Keys |-> Absent]]
    /\ patcher' = [r \in Patchers |->
           IF patcher[r].entry = e
           THEN [patcher[r] EXCEPT !.plan = [k \in Keys |->
                    IF @[k].do \in {"insert", "update"} THEN [do |-> "fail"] ELSE Missed(@[k])]]
           ELSE patcher[r]]
    /\ UNCHANGED <<definitionVars, together>>

-----------------------------------------------------------------------------
(* PATCH /object/{id}/metadata *)

\* asked is the PATCH: some of the keys, each with a value or, to delete it, none.
PatchLoad(r, e, asked) ==
    /\ patcher[r] = NoPatch
    /\ e \in kept \ away
    /\ together => DOMAIN asked = Keys /\ \A k, l \in Keys : asked[k] = asked[l]
    /\ patcher' = [patcher EXCEPT ![r] = [entry |-> e, plan |-> [k \in Keys |->
           IF k \in DOMAIN asked THEN Statement(pairs[e][k], asked[k]) ELSE [do |-> "nothing"]]]]
    /\ UNCHANGED <<entryVars, pairs, definitionVars, together>>

\* What one statement leaves of a row.
Outcome(s, old) ==
    CASE s.do \in {"insert", "update"} -> s.value
      [] s.do = "delete" -> Absent
      [] OTHER -> old

\* Name and entry of a row are unique.
Refused(s, old) == s.do = "fail" \/ (s.do = "insert" /\ old # Absent)

\* Mutant: each save commits, as it does unless told not to.
PatchEach(r) ==
    LET e == patcher[r].entry
        plan == patcher[r].plan
    IN
    /\ patcher[r] # NoPatch
    /\ IF \A k \in Keys : plan[k].do = "nothing"
       THEN patcher' = [patcher EXCEPT ![r] = NoPatch] /\ UNCHANGED pairs
       ELSE \E k \in {l \in Keys : plan[l].do # "nothing"} :
            /\ ~ Refused(plan[k], pairs[e][k])
            /\ pairs' = [pairs EXCEPT ![e][k] = Outcome(plan[k], @)]
            /\ patcher' = [patcher EXCEPT ![r].plan[k] = [do |-> "nothing"]]
    /\ UNCHANGED <<entryVars, definitionVars, together>>

\* One commit: either every statement of the PATCH takes effect, or, if one of
\* them is refused, none.
PatchCommit(r) ==
    LET e == patcher[r].entry
        plan == patcher[r].plan
    IN
    /\ patcher[r] # NoPatch
    /\ IF \E k \in Keys : Refused(plan[k], pairs[e][k])
       THEN patcher' = [patcher EXCEPT ![r] = NoPatch] /\ UNCHANGED pairs
       ELSE /\ pairs' = [pairs EXCEPT ![e] = [k \in Keys |-> Outcome(plan[k], @[k])]]
            /\ patcher' = [q \in Patchers |->
                   IF q = r THEN NoPatch
                   ELSE IF patcher[q].entry = e
                   THEN [patcher[q] EXCEPT !.plan = [k \in Keys |->
                            IF plan[k].do = "delete" THEN Missed(@[k]) ELSE @[k]]]
                   ELSE patcher[q]]
    /\ UNCHANGED <<entryVars, definitionVars, together>>

PatchDies(r) ==
    /\ patcher[r] # NoPatch
    /\ patcher' = [patcher EXCEPT ![r] = NoPatch]
    /\ UNCHANGED <<entryVars, pairs, definitionVars, together>>

-----------------------------------------------------------------------------
(* The properties a user has defined *)

Defined == {k \in Keys : label[k] \in Labels}

\* A name is compared with those the user has; nothing keeps it free until the
\* row is inserted.
DefineCheck(d, n) ==
    /\ definer[d] = "none"
    /\ n \notin {label[k] : k \in Defined}
    /\ definer' = [definer EXCEPT ![d] = n]
    /\ UNCHANGED <<entryVars, pairs, patcher, label, together>>

Define(d, k) ==
    /\ definer[d] # "none"
    /\ label[k] = "unborn"
    /\ label' = [label EXCEPT ![k] = definer[d]]
    /\ definer' = [definer EXCEPT ![d] = "none"]
    /\ UNCHANGED <<entryVars, pairs, patcher, together>>

DefineDies(d) ==
    /\ definer[d] # "none"
    /\ definer' = [definer EXCEPT ![d] = "none"]
    /\ UNCHANGED <<entryVars, pairs, patcher, label, together>>

\* A new name is not compared with the others.
Relabel(k, n) ==
    /\ k \in Defined
    /\ label' = [label EXCEPT ![k] = n]
    /\ UNCHANGED <<entryVars, pairs, patcher, definer, together>>

\* The values stay with the entries.
Undefine(k) ==
    /\ k \in Defined
    /\ label' = [label EXCEPT ![k] = "deleted"]
    /\ UNCHANGED <<entryVars, pairs, patcher, definer, together>>

-----------------------------------------------------------------------------

Asked == UNION {[D -> Values \union {Absent}] : D \in SUBSET Keys \ {{}}}

PairsNext ==
    \/ \E e \in Entries : NewEntry(e) \/ TrashEntry(e) \/ RestoreEntry(e) \/ PurgeEntry(e)
    \/ \E r \in Patchers, e \in Entries, asked \in Asked : PatchLoad(r, e, asked)
    \/ \E r \in Patchers : PatchCommit(r) \/ PatchDies(r)

DefinitionsNext ==
    \/ \E d \in Definers, n \in Labels : DefineCheck(d, n)
    \/ \E d \in Definers, k \in Keys : Define(d, k)
    \/ \E d \in Definers : DefineDies(d)
    \/ \E k \in Keys, n \in Labels : Relabel(k, n)
    \/ \E k \in Keys : Undefine(k)

MetadataNext == PairsNext \/ DefinitionsNext

MetadataSpec == MetadataInit /\ [][MetadataNext]_metadataVars

-----------------------------------------------------------------------------
(* Properties *)

MetadataTypeOK ==
    /\ away \subseteq kept /\ kept \subseteq Entries
    /\ pairs \in [Entries -> [Keys -> Values \union {Absent}]]
    /\ patcher \in [Patchers -> {NoPatch} \union [entry : Entries, plan : [Keys -> Statements]]]
    /\ label \in [Keys -> Labels \union {"unborn", "deleted"}]
    /\ definer \in [Definers -> Labels \union {"none"}]
    /\ together \in BOOLEAN

\* GET /object/{id}/metadata: what the answer says of an entry.
MetadataOf(e) == [k \in {x \in Keys : pairs[e][x] # Absent} |-> pairs[e][k]]

\* Clients that only ever write all keys of an entry together never read a mixture
\* of two writes, nor half of one: not when two of them insert the same keys at a
\* time, not when one deletes what the other is about to change, not when the
\* entry is purged under them.
PatchesWhole ==
    together => \A e \in Entries :
        /\ DOMAIN MetadataOf(e) \in {{}, Keys}
        /\ \A k, l \in DOMAIN MetadataOf(e) : MetadataOf(e)[k] = MetadataOf(e)[l]
=============================================================================
