------------------------------ MODULE MCTables ------------------------------
(***************************************************************************)
(* Parts of the database that share no state here, checked side by side:   *)
(* each behaviour follows one of them, the others stay as they begin.      *)
(***************************************************************************)
EXTENDS Accounts, EntryRaces, Logins, Viewers, Links, Presets, Metadata,
        LocalStore, TLC

VARIABLE focus      \* the part this behaviour follows

Follow(part) == focus = part /\ UNCHANGED focus

TablesInit ==
    /\ focus \in {"accounts", "entries", "logins", "viewers", "links", "presets",
                 "metadata", "definitions", "store"}
    /\ AccountInit /\ RaceInit /\ LoginsInit /\ ViewersInit /\ LinksInit /\ PresetsInit
    /\ MetadataInit /\ StoreInit
    \* Where a part is not followed, one beginning of it stands for all.
    /\ focus # "entries" => ~ lone
    /\ focus # "accounts" => \A e \in Emails : roots[e] = {}
    /\ focus # "logins" => \A p \in Persons : columns[p] = {}
    /\ focus # "links" => ~ external
    /\ focus # "metadata" => ~ together
    /\ focus # "store" => ~ Keyed /\ rule.dir = <<>>

\* Every upload of the small instance is over; the program would take others.
StoreEnds == \A c \in Contents : life[c] = "gone"

\* Bound: where another row has taken the root's place and the trashed root is
\* restored below it, the behaviour is not followed further.
RootUnrestored ==
    \A h \in Handlers : handler[h].step = "restore" => handler[h].id # Root

\* Once the root is deleted for good there is no row a request could name.
EntriesEnd == rows = {}

TablesNext ==
    \/ /\ Follow("accounts") /\ AccountNext
       /\ UNCHANGED <<raceVars, loginVars, viewerVars, linkVars, presetVars,
                      metadataVars, storeVars>>
    \/ /\ Follow("entries") /\ RaceNext /\ RootUnrestored'
       /\ UNCHANGED <<accountVars, loginVars, viewerVars, linkVars, presetVars,
                      metadataVars, storeVars>>
    \/ /\ Follow("entries") /\ EntriesEnd
       /\ UNCHANGED <<accountVars, raceVars, loginVars, viewerVars, linkVars, presetVars,
                      metadataVars, storeVars>>
    \/ /\ Follow("logins") /\ LoginsNext
       /\ UNCHANGED <<accountVars, raceVars, viewerVars, linkVars, presetVars,
                      metadataVars, storeVars>>
    \/ /\ Follow("viewers") /\ ViewersNext
       /\ UNCHANGED <<accountVars, raceVars, loginVars, linkVars, presetVars,
                      metadataVars, storeVars>>
    \/ /\ Follow("links") /\ LinksNext
       /\ UNCHANGED <<accountVars, raceVars, loginVars, viewerVars, presetVars,
                      metadataVars, storeVars>>
    \/ /\ Follow("presets") /\ PresetsNext
       /\ UNCHANGED <<accountVars, raceVars, loginVars, viewerVars, linkVars,
                      metadataVars, storeVars>>
    \/ /\ Follow("metadata") /\ PairsNext
       /\ UNCHANGED <<accountVars, raceVars, loginVars, viewerVars, linkVars,
                      presetVars, definitionVars, storeVars>>
    \/ /\ Follow("definitions") /\ DefinitionsNext
       /\ UNCHANGED <<entryVars, pairs, patcher, together>>
       /\ UNCHANGED <<accountVars, raceVars, loginVars, viewerVars, linkVars,
                      presetVars, storeVars>>
    \/ /\ Follow("store") /\ StoreNext
       /\ UNCHANGED <<accountVars, raceVars, loginVars, viewerVars, linkVars,
                      presetVars, metadataVars>>
    \/ /\ Follow("store") /\ StoreEnds
       /\ UNCHANGED <<accountVars, raceVars, loginVars, viewerVars, linkVars,
                      presetVars, metadataVars, storeVars>>

TablesSpec ==
    TablesInit /\ [][TablesNext]_<<accountVars, raceVars, loginVars, viewerVars, linkVars,
                                   presetVars, metadataVars, storeVars, focus>>

\* The types of all parts.
TypeOK ==
    /\ AccountTypeOK /\ RaceTypeOK
    /\ LoginsTypeOK /\ ViewersTypeOK /\ LinksTypeOK /\ PresetsTypeOK
    /\ MetadataTypeOK /\ StoreTypeOK

\* Requests are interchangeable, and the sets of them the same; so are rows, but for
\* the root, and challenges.
Symmetry == Permutations(Workers) \union Permutations(Ids \ {Root})
=============================================================================
