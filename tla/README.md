# DiskNext in TLA+

DiskNext is a file-sharing server: FastAPI routers and a WebDAV application over
PostgreSQL (SQLModel), Redis and one or more file storages. This directory
models the parts of it where requests meet: the entry tree with its trash, the
physical files that entries share, uploads and edits with the storage quota,
accounts and ways to log in, what opens a file for others, the caches and counters
in Redis, the local driver's directories, and start-up. TLC checks the modules on
small instances; TLAPS proves what the passing runs check, liveness apart, for
instances of any size.

All paths below are relative to `src/`.

## The system

| Component | State | Operations | Interacts with |
|---|---|---|---|
| Entry tree (`sqlmodels/file.py`, `routers/api/v1/entry`, `directory`, `trash`) | `Entry` rows: type, name, `parent_id`, `deleted_at`, `deleted_original_parent_id`; one root per user | create, rename, move, copy, soft delete, restore, permanent delete, list | physical files (copy, delete), quota, WebDAV, uploads (parent directory) |
| Physical files (`sqlmodels/physical_file.py`) | `PhysicalFile` rows with `reference_count`; contents in a storage | count up (copy), count down (purge, migration), delete content and row at zero | entries reference them (`SET NULL`) |
| Uploads (`routers/api/v1/file`) | `UploadSession` rows with counters, a partial file | create (reserve), chunk, complete, cancel, clear | quota, storage driver, entry tree |
| Quota (`User.storage`, `Group.max_storage`) | one number per user | atomic adjustment, calibration by the administration | everything that stores |
| Storage drivers (`utils/storage`) | files of a directory, or objects and multipart uploads of a bucket | write, read, delete, chunk, complete, abort | uploads, migration, edits |
| Migration (`utils/storage/migrate.py`, `Entry.migrate_to_policy`) | `Task` rows | move one file, move a directory's files | background task with a session of its own |
| Content edits (`patch_file_content`, `routers/wopi`) | content of a physical file, sizes | patch with a base hash, WOPI PutFile | shared physical files, quota |
| WebDAV (`routers/dav`, `routers/api/v1/webdav`) | accounts, authentication cache | the tree's operations by path, PUT, account changes | entry tree, physical files, quota, Redis |
| Users and login (`routers/api/v1/user`, `sqlmodels/triggers.py`, `middleware`) | `User`, `UserAuthn`, `AuthIdentity`, bans and challenges in Redis | register, log in, link and unlink methods, ban | configuration, verification codes, entry tree (root) |
| Verification codes (`utils/redis/verify_code_store.py`, `sqlmodels/sms`) | codes, rate limits, attempts, lockouts in Redis | send, verify, lock | registration, login |
| Configuration (`sqlmodels/server_config.py`, `utils/redis/server_config_cache.py`) | one row, one cached copy | read through, update and invalidate | every router |
| Groups and policies (`sqlmodels/group.py`, `policy.py`, `routers/api/v1/admin`) | `Group`, `Policy`, `GroupPolicyLink`, default group | create, link, delete, move users | registration, root folders |
| Shares, source links, download and WOPI tokens | `Share`, `SourceLink`, tokens that expire | create, view, delete | entries, bans, policies |
| File applications and viewers (`sqlmodels/file_app.py`) | `FileApp` with extensions, group links, favourites | create, replace lists, offer | groups, WOPI |
| Themes, metadata, custom properties | rows of their own | edit, list, set the default | users, entries |
| Start-up (`main.py`, `sqlmodels/migration.py`) | default rows | look for, create, one commit each | everything relies on them |

Requests are coroutines of one or more server processes. The SMTP connection apart,
they share nothing in memory; they meet in the database (READ COMMITTED), in Redis
and in the storage.
The hard behaviours are therefore these: a row read at the start of a request is
stale when it is written; a handler commits more than once and may stop in
between; storage and database do not commit together; `ON DELETE CASCADE` and
`SET NULL` change rows no handler looked at; and sequences of legal requests
bring rows into states no handler expects. `PROJECT.json` lists each under
`hazards`, at its line.

What makes the components correct:

- **Entry tree**: every entry is below the root or below a trashed top; no cycles;
  only folders have children; sibling names are unique; restoring brings an entry
  back into sight; a purge destroys nothing that is visible.
- **Physical files**: counts are never too low; content goes only when nobody
  references it.
- **Uploads and quota**: a finished upload is complete; the user is charged for
  files plus reservations; the quota holds.
- **Migration**: the file stays readable throughout.
- **Content edits**: no save is lost; sizes match contents.
- **Users and login**: a registered user has a root; a challenge is good for one
  login; a banned user is locked out.
- **Codes**: no more than the allowed guesses and mails; a locked number stays locked.
- **Caches**: after the last update the copy becomes the row again.
- **Groups and policies**: no row refers to one that is gone.
- **Shares, links, tokens**: what was taken away before a request began does not
  serve it.
- **Viewers, themes, metadata**: a restricted application is not offered; a default
  preset stays; a PATCH is applied as a whole.
- **Local driver**: what is found for a row is its own content.
- **Start-up**: it comes to serve after any crash of the ones before it, and then
  misses nothing but what those have left out behind a row it finds.

## Modules

| Module | What it is | Theorems |
|---|---|---|
| `EntryTree` (`MCEntryTree`) | the entry table of one user, one action per request; lookups by path | `EntryTreeProofs` |
| `EntryRaces` | the same table when requests overlap, check and write apart | `TablesProofs` |
| `ContentStore` | abstract: every entry has a content of its own | |
| `BlobRefs` (`MCBlobRefs`) | entries, physical files, counts and contents; implements `ContentStore` | `BlobRefsProofs` |
| `Uploads` (`MCUploads`) | upload sessions with local files and S3 multipart, quota | `UploadsProofs` |
| `Edits` (`MCEdits`) | patches, WOPI saves, PUTs and copies on shared contents; sizes and charge | `EditsProofs` |
| `LocalStore` | paths, directories and their clean-up in the local driver | `TablesProofs` |
| `Access` | status, ban list, tokens, WebDAV accounts and their cache | `ServerProofs` |
| `Accounts` | users, root folders, groups, policies and what links them | `AccountsProofs` |
| `Logins` | login methods, passkey challenges, provider options and triggers | `TablesProofs` |
| `ConfigCache` | the configuration row and its copy in Redis | `ServerProofs` |
| `Mail` | codes by mail with their limits; the shared SMTP connection | `ServerProofs` |
| `Sms` | codes by text message, tries, failures, lockout | `ServerProofs` |
| `Bootstrap` | start-up, killed and started again | `ServerProofs` |
| `Links` | shares, source links, download and WOPI tokens | `TablesProofs` |
| `Viewers` | file applications, their lists, offers, favourites | `TablesProofs` |
| `Presets` | theme presets and the default | `TablesProofs` |
| `Metadata` | metadata PATCHes, custom properties | `TablesProofs` |
| `MCServer` | `Access`, `ConfigCache`, `Mail`, `Sms`, `Bootstrap` side by side | `ServerProofs` |
| `MCTables` | `Accounts`, `EntryRaces`, `Logins`, `Viewers`, `Links`, `Presets`, `Metadata`, `LocalStore` side by side | `TablesProofs` |
| `Sums` | lemmas about the sum over a finite set, which `Uploads` and `Edits` charge by | `Sums` |

`MCServer` and `MCTables` compose parts that share no variable in these models: each behaviour
picks a part in `focus` and follows it, the others keep their initial state. Their
state spaces add up instead of multiplying, and nothing is lost, because no action of
one part reads another. `PROJECT.json` maps every definition to its lines; the
tables below only say where to look.

Two conventions hold in all modules. A request that overlaps with others has a record
of what it does and remembers, and one action per query, commit, Redis call or storage
call. Every such module has an action for the request that ends early: an exception,
a rollback, or the process killed (`Fail`, `WorkerDies`, `HandlerFails`, `ClientDies`,
`UpdateDies`, `PatchDies` and so on), enabled wherever the code can stop.

### EntryTree

State: `rows` (ids present), and per id the columns `kind`, `name`, `parent`
(`parent_id`), `origin` (`deleted_original_parent_id`); `trash` is the set of rows
with `deleted_at` set. A name is a stem and a list of numbers, because all the code
does with names is to compare them and to append ` (n)` before the extension.

| Action | Code |
|---|---|
| `Create` | `router_directory_create`; the tree part of `router_object_create`, `create_empty_file`, and `_create_folder` / `_create_file` of WebDAV |
| `FinishUpload` | the insertion at the end of `upload_chunk`, which looks neither at the directory nor at the name again |
| `Rename` | `router_object_update` |
| `Move` | `router_object_move`: `Targets` is the check of the target, `Accepted` what the loop does not skip |
| `Relocate` | `_move_object` (WebDAV MOVE) |
| `Copy` | `router_object_copy`, `copy_recursive` (`Duplicate`), for one source |
| `DavCopy` | `_copy_object_recursive` (WebDAV COPY): `copy_recursive` without a check, under the name of the source |
| `SoftDelete` | `router_object_delete`, `soft_delete_batch` |
| `DavDelete` | `_soft_delete_object` (WebDAV DELETE), of whatever the path leads to, the root included |
| `Restore` | `router_trash_restore`, `restore_batch` with `_resolve_name_conflict`, for one entry |
| `Purge` | `router_trash_delete`, `permanently_delete_batch`, with CASCADE and SET NULL |

`RootRows`, `ByPath` and `FullPath` are `get_root`, `get_by_path` and `get_full_path`;
they change nothing, and `PathsFind` relates them to what the user sees: `Shown`, what
hangs below the root, or nothing once the root is in the trash. `Restore` looks for
the root first, as `restore_batch` does, and fails without it. Names here
have no blanks: the lookup strips them from a path, so that a name which ends in one
is not found.

A request that lists several sources or ids does what the single requests do one
after the other, so `Copy` and `Restore` take one; `Move`, `SoftDelete` and `Purge`
take sets, since `Move` reads ancestors and names once for all of them.

Requests do not overlap in this module. `byPath` is fixed per behaviour: TRUE says
that clients name targets they reach from the root, FALSE that they may also use an
id remembered from before its parent was deleted (the handlers accept it). Bans
only refuse requests and are in `Links`.

What refuses a request differs. The REST handlers (`Create`, `Rename`, `Accepted`,
`FreeNames`) look at the names themselves. WebDAV MOVE and COPY and the end of an
upload do not, and have the unique index refuse a name that is taken: the guard on
names in `Relocate`, `DavCopy` and `Insert` stands for the index (with `DavCopy` for one
that refuses often, since the copy keeps its source's name even in the source's own
directory). That the target of a MOVE or COPY is not inside its source is WsgiDAV's
check. It is external, and compares the paths as the client wrote them; paths have no
empty segments there in the model. Nothing refuses a DELETE of the root, which a path
of empty segments reaches.

### EntryRaces

The columns of `EntryTree` without `kind` (all rows are folders), a few names, and
`handler`: what each request has decided. A check (`CreateCheck`, `MoveCheck`,
`DeleteCheck`, `RestoreCheck`, `PurgeCheck`) reads everything the handler reads before
it writes; the write (`Create`, `Move`, `SoftDelete`, `Restore`, `Purge`) goes by
primary key, touches the columns that differ from what was loaded, and is refused
by the database when the row is gone, the parent is gone, or the name is taken in the
partial unique index (`Free`). The root may be deleted, as over WebDAV, and `RestoreCheck`
needs one live row without a parent (`RootRows`). Cycles do appear here: two moves that
overlap pass each other's ancestor check. `lone` (fixed) excludes just that: a move
then overlaps with nothing and goes to a folder that is shown, while everything else
still overlaps. `NamesAndParentsHold` is what the constraints see to in any behaviour;
`AcyclicAlone` says that with `lone` no cycle is closed.

### ContentStore and BlobRefs

State of `BlobRefs`: `entries` with `file` (`physical_file_id`), `rows` with `ref`
(`reference_count`), `blobs` (contents in the storage), and for each of the requests
under way a step `pc` and what it remembers: `work`, `fresh`, `holds`, `keep`.

| Actions | Code |
|---|---|
| `Upload`, `AddRow`, `AddEntry` | `create_empty_file`, `router_object_create`: content, row, entry in three steps |
| `Upload`, `FinishUpload` | the last chunk of an upload: row and entry in one commit |
| `Put`, `AddRow`, `Repoint` | WebDAV PUT: `begin_write`, `_finalize_upload` |
| `Migrate`, `AddRow`, `Repoint`, `Release`, `DropBlobs`, `Commit` | `migrate_to_policy` |
| `Copy`, `CountCopy`, `AddEntry` | `copy_recursive`: count read, count written, entry inserted |
| `Purge`, `DropBlobs`, `Commit` | `permanently_delete_batch`: counts read, contents deleted, everything committed |
| `AdminDelete` | `router_admin_delete_file`, which ends in a TypeError after deleting the content |
| `Fail` | an exception, a rollback or a crash, at any step |

`Locked` stands for the row locks a deletion holds between its first UPDATE and its
commit; the guards of `CountCopy`, `AddEntry` and `Commit` are what READ COMMITTED
and the foreign keys make of that. A lazy load after a commit that raises
(`MissingGreenlet`) is a `Fail`. `exclusive` and `admin` are fixed per behaviour: with
`exclusive`, requests that overlap work on different physical files; with `admin`, the
administration's file deletion is used. Every row is taken to have a storage path of
its own; `LocalStore` shows for which naming rules that is so.

`ContentStore` knows entries, which of them are `readable`, and which a deletion in
progress covers (`doomed`). With `careful`, an entry becomes unreadable only by its
own deletion. `OwnContents` is the refinement: `readable` are the entries whose file has
its content, `doomed` the entries a purge has picked, and `careful` is `exclusive /\ ~admin`.

### Uploads

State: `used` (`User.storage`), `open` sessions with `count`, `bytes` and, for S3,
`etags` (the list of parts, known by their chunks), the files or objects `stored` with
the chunks in `data`, the `parts` of a multipart upload and the sessions `merged`, the
`entries` made from sessions with their `length`, and a record per request in `req`.
`orphaned` and `leaked` remember the sessions that went with their purged directory.

| Actions | Code |
|---|---|
| `CreateCheck`, `CreateCommit` | `create_upload_session`; `StartStorage` is `init_upload` of either driver |
| `ChunkRead`, `ChunkLook`, `ChunkWrite`, `ChunkSave`, `ChunkRefresh`, `Complete` | `upload_chunk` with `LocalStorageDriver.upload_chunk` |
| `ChunkRead`, `PartUpload`, `ChunkSave`, `ChunkRefresh`, `PartsComplete`, `Complete` | the same with `S3StorageDriver`: the part, the list on the session row, `_complete_multipart_upload` |
| `CancelRead`, `CancelAbort`, `CancelRelease`, `CancelDelete` | `delete_upload_session` |
| `ClearRead` | `clear_upload_sessions`: the next of the sessions it has loaded |
| `PurgeParent` | the CASCADE on `UploadSession.parent_id` |
| `PurgeEntry` | `permanently_delete_batch` for one file, in one step (its details are in BlobRefs) |
| `CalibrateRead`, `CalibrateSave` | `router_admin_calibrate_storage` |
| `Fail` | an exception or crash, at any step |

An expired session refuses chunks, which is a request that does not happen. All
uploads have `Size` chunks of one unit as announced; `Lengths` are the lengths clients
really send. Five variables are fixed per behaviour and given as records in
`Settings`: `once` (each chunk is sent once, with its length), `serial` (a client waits
for each answer), `calm` (cancels, calibrations and deletions do not overlap with
other requests of the same session and do not stop halfway, and sessions are created
one at a time), `s3` (the driver) and `quota` (0 is unlimited). S3 itself is external:
a part replaces a part of its number, a list with a number twice is refused, a
completion without every part is accepted.

### Edits

State: entries, physical files and their counts as in `BlobRefs`, the `size` of both,
what is in each file (`content`, a version and a length), `used`, and a record per
request. `torn`, `shared`, `over` and `missed` are history: files an edit stopped on
before its commit, files ever shared, units never given back, units never charged.

| Actions | Code |
|---|---|
| `Patch`, `PatchRead`, `Truncate`, `Write`, `Save` | `patch_file_content`: entry loaded, content read and hashed, file opened, written, sizes and charge committed |
| `PutFile`, `Truncate`, `Write`, `Save` | WOPI `put_file` |
| `Put`, `PutRow`, `PutPoint`, `PutCharge` | WebDAV PUT: a new file and three commits |
| `CreateFile`, `Copy`, `Purge` | what creates, shares and frees contents in between, in one step each |
| `Fail` | as everywhere |

Opening a file for writing truncates it, so `Truncate` is a step of its own. With
`apart` (fixed), overlapping requests work on different entries and files. `Edits`
takes the server to run in its storage directory as far as files written by PUT are
concerned, whose rows hold relative paths (see LocalStore).

### LocalStore

State: the policy's `rule` (directory segments, drawn or kept name; fixed), the
directories `dirs`, what each path holds (`disk`), and per physical file its `life`
from the generated path to its deletion. `GeneratePath` and `MakeDir` are
`generate_path` with `makedirs`, one level per step; `StoreContent` is the open and
the write, which fails when the directory is gone again; `KeepRow` commits the row, and
`KeepRelative` does for WebDAV PUT, which stores the path without the base directory;
`DeleteContent`, `ListDir` and `RemoveDir` are `delete` with `_cleanup_empty_parents`;
`GiveUp` is an upload that is cancelled before it is an entry. Rows are read in two
ways: WebDAV puts the base directory before the column (`DavFinds`), everybody else uses
it as it is (`RestFinds`), and so finds nothing for a row of a WebDAV PUT, and deletes
nothing. A directory that is removed takes along what is in it (`ReadAt`), which is
why `RemoveDir` must refuse one that is not empty.

### Access

State: users `active` in the database, `bans` and `tokens` (keys and JWTs that
expire), the `account`, `davCache` and `davReply` of WebDAV clients, a `job` per request
of the administration and a `check` per request of a user.

| Actions | Code |
|---|---|
| `UpdateLoad`, `UpdateCommit`, `UpdateRefresh`, `UpdateTell` | `router_admin_update_user`, up to the ban list in Redis |
| `LogIn`, `IssueTokens` | the login methods of `deps.py`, `router_user_session` and its refresh |
| `CheckBans`, `CheckStatus`, `Serve` | `jwt_required`, `auth_required` |
| `DavHit`, `DavMiss`, `DavStore` | `basic_auth_user` of the domain controller with its cache |
| `DavCreate`, `DavGrant`, `DavRevoke`, `DavInvalidate` | `create_account`, `update_account`, `delete_account` |
| `BanExpires`, `TokenExpires`, `DavExpires` | Redis and time |

A cache hit never lets anybody in: the cached account id is a UUID that the code
parses with `int()`, which raises. A client is admitted again only once the key has
expired. `DavServed` says that it is.

### Accounts, Logins, Bootstrap

`Accounts`: users by address with their `group`, the `roots` they have, `groups`,
`policies`, `links`, the `default` group, a record per request in `work`, and what a
registration was `told`. `RegisterCheck`, `InsertUser`, `ChoosePolicy` (or
`ChooseLocal`, for users a provider brings) and `InsertRoot` are the two
registrations; `AdminCreateUser`, `MoveUserCheck`/`MoveUser`, `CreateGroup`,
`LinkGroup`, `UpdateGroup`, `DeleteGroupCheck`/`DropGroup`, `SetDefault`, `CreatePolicy`,
`DeletePolicyCheck`/`DropPolicy` the administration. The foreign keys decide what a late
write may still do.

`Logins`: which of the columns `password_hash`, `phone`, `github_id` a user has,
`passkeys`, challenges in Redis (`slot` for registrations, `open` for logins), what the
configuration has `enabled` and has `secrets` for. `LoadUser`/`SaveUser` and
`LoadOptions`/`SaveOptions` load a row and write the columns that differ; the triggers
of `sqlmodels/triggers.py` look at the row that results. `StartRegistration`,
`TakeSlot`, `InsertPasskey`, `LoginOptions`, `TakeChallenge` and `PasskeyLogin` are the
WebAuthn handlers; `ResetPassword` sets a password whether or not the user had one.
The triggers are all there is to the columns and the options: a property of these would
repeat the trigger's condition, so the module states one of the challenges only.

No action of `Accounts` removes a root: `RegisteredHaveRoot` is about the row
that registration made, and what WebDAV may do to it is in `EntryTree`.

`Bootstrap`: the default rows that are `done`, the `phase` of the process, `crashes`,
and `lost`. Start-up looks for one row after the other by name (`SkipFound`, `SkipAdmin`)
and commits those it creates (`CreateRow`, `CreateAdmin`); `Killed` stops it anywhere,
`Change` renames or deletes a row while it serves. Some rows are created only along
with one that was just created (`Along`): the links of the groups to the policy, the
default group in the configuration, the administrator's root, the second mail template,
all applications but the first. A kill in between leaves them out for good, because the
next start finds the row before them and skips on; `lost` is the history of these and
of what administrators took. `NothingElseMissing` says that a process that comes to
serve misses no other row. A process killed between the
administrator and the configuration row that names it never serves again; the
liveness property says that in every other case it comes to serve, not that it has
all rows then.

### ConfigCache, Mail, Sms

`ConfigCache`: versions of the configuration in the row (`config`) and in Redis
(`copy`), a `visitor` per request. `GetHit`, `GetNothing` (a miss or a Redis error),
`LoadRow`, `SetCopy` read through; `UpdateRow` and `Invalidate` are the
administration; `Leave` is also a Redis error on either side; `CopyExpires` is the
time to live.

`Mail`: the three keys of `VerifyCodeStore` for one address, written one call at a time
(`ReadMinute`, `ReadHour`, `StoreCode`, `StoreMinute`, `CountHour`), and `MailService`:
the `lock`, the `client` and the idle `timer` (`TakeLock`, `Connect`, `Transmit`,
`TimerWakes`, `TimerLocks`, `TimerCloses`, `ServerLeaves`, `MailRestart`).

`Sms`: the keys of `SmsProvider` for one number. `AskForCode` to `NextProvider` send
through one provider after the other; `CheckLockout`, `CompareCode` (the Lua script, one
step), `CountFailure`, `LockNumber`, `ClearFailures` are a login. The keys' expiries are
actions; the key of the tries lives at least as long as the code, which takes
`sms_code_ttl` not to be shortened between sending and verifying. The code that debug
mode accepts everywhere is off.

### Links, Viewers, Presets, Metadata

`Links`: files that are there, live and not banned (`entry`), shares, source links,
tokens, and requests that pass one stage after the other (`ShareStages`, `LinkStages`,
`TokenStages`, `SessionStages`: one element per query). `held` collects what was true at
some moment since a request began.

`Viewers`: applications with their flags, their extensions and group links as rows
with a mark (the primary key), favourites. Creation commits the application, each
extension and each link on its own; replacing a list deletes the rows that were read
and inserts new ones; `AskViewers`, `CheckViewer` and `AnswerViewers` are a user's query,
application by application.

`Presets`: `BeginClear`, `ClearDefaults` and `SaveDefault` are the one transaction
that makes a preset the default, `LoadPreset` the query before it.

`Metadata`: a PATCH loads all pairs of an entry (`PatchLoad`) and commits one
statement per key (`PatchCommit`, `Outcome`); the unique key (`Refused`) or a missing
row (`Missed`) rolls all of it back. `together` (fixed) says that clients write all
keys of an entry at a time. A PATCH names each key once. Definitions of custom
properties are checked for their names first and inserted later.

## Runs

| Run | Result | What it shows |
|---|---|---|
| `EntryTree` | passes | `TypeOK`, `DetachedExactly`, `AcyclicByPath`, `SiblingNamesUnique`, `PathsFind`, `VisibleSurvives`: any sequence of requests keeps tree and trash consistent, by REST and by WebDAV, and paths mean what the user sees |
| `RestoreHidden` | violated | an entry restored into a folder that is itself inside the trash is gone from the trash list and not in the tree |
| `RestoreCycle` | violated | with remembered ids, delete, move and restore close a cycle of `parent_id` |
| `BlobRefs` | passes | `TypeOK`, `CountCovers`, `BlobsKept`, and `OwnContents`, the refinement of `ContentStore` |
| `LostCount` | violated | two requests on one file lose a count; the content of a live entry is deleted |
| `Uploads` | passes | `TypeOK`, `ContentWhole`, `Charged`, with local files and with S3 |
| `QuotaOverrun` | violated | two overlapping creates pass the quota check |
| `EarlyEntry` | violated | a chunk sent twice completes an upload that lacks another |
| `Edits` | passes | `TypeOK`, `SizesAgree`, `Charged`, `PatchesBased`: edits on different files keep sizes, contents and charge together wherever they stop |
| `LostSave` | violated | two patches made from one version are both answered with success, and one is lost |
| `Server` | passes | `TypeOK`, `BannedRefused`, `MailsBounded`, `TransmitAlone`, `GuessesBounded`, `LateGuesses`, `NothingElseMissing`, and as liveness `DavServed`, `EventuallyFresh`, `StartsAgain` |
| `Tables` | passes | `TypeOK`, `ReferencesHold`, `RegisteredHaveRoot`, `NamesAndParentsHold`, `AcyclicAlone`, `ChallengesOnce`, `RestrictedStaysHidden`, `RevokedRefused`, `DefaultKept`, `PatchesWhole`, `OwnPaths` |

The six violations are the project's findings; each contradicts a sentence of
the code's own documentation, quoted in `PROJECT.json`.

Bounds, and why they are enough:

- `EntryTree`: the root and three rows, one stem with and without a number, one
  number per name (`MaxCopies`). Three rows give a trashed folder with a trashed
  child and a grandchild, or three siblings in conflict; the cycle and the hidden
  restore need exactly three. The theorems cover all sizes.
- `BlobRefs`: three entries, two files, two requests, counts up to 3 (`MaxRef`). Lost
  counts need two requests, and sharing needs two entries; the third is the one a
  copy makes. Requests of more than two are covered by the theorems.
- `Uploads`: two sessions of two chunks, two requests, at most three counted chunks
  per session (`MaxCount`: one repetition). `Settings` gives local files with a quota
  of 4 units, which two uploads of 2 just fill, and S3 with 3, where the second has to
  wait for the first to be gone; with S3 a client either sends each chunk once, or
  repeats it after the answer.
  `EarlyEntry` uses the local settings, `QuotaOverrun` drops the `calm` restriction.
- `Edits`: two entries, two files, two requests, texts of at most one unit
  (`MaxText`), counts up to 2 (`MaxRef`), and no operation that stores more begins above
  a charge of 3 (`MaxCharge`). Versions are told apart, lengths only by empty or not.
  `LostSave` lets requests overlap on one file.
- `Server`: one user, two requests of the administration and one of the user, two
  updates (`MaxUpdates`: a ban and its end); two visitors of the configuration and
  versions 0 to 3 (`MaxVersions`: an update between an update and its late echo);
  two senders against a limit of 2 mails; two providers, two requests for a code and
  two logins against 2 tries and 2 failures; two kills of the process (`MaxCrashes`).
  Limits of 2 are the smallest that a request can come near without reaching. Users
  share nothing in `Access`; the theorems cover more of each kind.
- `Tables`: two requests per part, which is what an overlap needs, and two or three
  rows: two groups and policies (one deleted, one kept), an address besides the
  administrator's, two rows below the root, two challenges (two registrations that
  replace each other), an application with one extension and one group and up to
  four rows in its lists, three presets (an old default, a new one, a
  third set meanwhile), two metadata keys, three physical files of one
  directory. In `Links` one reader is enough, as readers change nothing for each other.
  `RootUnrestored` ends a behaviour of `EntryRaces` where another row has taken the
  place of a trashed root and the root is restored below it; with `lone` that
  does not happen, and the theorems about `EntryRaces` hold without the bound.

Deadlock is not checked for `EntryTree`, `BlobRefs`, `Uploads` and `Edits`: rows, ids
and bounds are finite, so the models may stop where the system would go on with
new ids. It is checked for `Server` and `Tables`; `MCTables` lets `LocalStore` stutter
where all of its three files have been deleted, and `EntryRaces` where the root was
deleted for good and no row is left to name.

Fairness, all of it in `MCServer`:

- `WF(DavExpires)`, `WF(CopyExpires)`: Redis drops a key when its time to live is
  over, whatever anybody does; both keys are stored with one.
- `WF(RequestStep)`: a request of a WebDAV client that has begun goes on; the handlers
  await only the database and Redis.
- `SF(DavAsks)`: the client asks again. This is an assumption about clients, stated as
  strong fairness because a cached key stands in the way of the check now and then.
  `DavServed` is empty without it.
- `WF(BootStep)`: a process that starts up and is not killed takes its next step.

Nothing is assumed of the administration, of senders, guessers or providers, and a
request for the configuration may stop anywhere. The two conditions that are enabled
from the start are guarded by `focus` in `MCServer`, since in a behaviour that follows
another part they could never be taken. The other models state safety only:
their requests end, and what must still hold then is what is checked.

## Proofs

Each theorem holds for all values of the constants that satisfy the module's `ASSUME`.
These ask little: that ids which stand for nothing (`NoId`, `NoFile`, `NoNonce`,
`"none"`) are not among the real ones, that bounds are numbers, that there is at least
one of what the code starts with, and that what the server counts is finite (senders,
sessions, requests, the extensions and groups of applications), as it is in a server. An
invariant is proved by one lemma per action, or per group of actions that touch the
same variables; the last step is temporal. Every invariant and action property of a
passing run is stated by a theorem, and TLC finds the inductive invariants below
to hold on the run of their module.

- `EntryTreeProofs`. `TypeCorrect`, `TreeSafe`, `DetachedRows`, `FoldersOnly`: the
  invariant `Inv` is `TypeOK` with `DetachedExactly`, `ParentsAreFolders`,
  `SiblingNamesUnique`, and the kinds of remembered parents: a trashed entry's `origin`
  is a folder as long as its row exists. Without this last part `ParentsAreFolders`
  is not inductive, because `Restore` hangs an entry below its `origin`.
  `PurgeIsConfined`: a set closed under parents that holds a visible row holds the
  root; the trashed tops have no parent and are not the root, so the subtree that
  CASCADE removes and the subtree of the root are disjoint. `NoCyclesByPath`: absence
  of cycles in `parent` alone is not inductive, since `Restore` adds the edge from a
  trashed top to its origin. `UpAcyclic` is the stronger statement over `Up`, which is
  `origin` for trashed rows and `parent` for others. `Move` keeps it because targets are
  visible: the way up from the target never passes a trashed row, and the ancestor
  check sees all of it. A trashed root changes none of this: it has no parent either way,
  and with it in the trash nothing is shown and nothing is restored.
  `PathsAreFound`: everything that is shown hangs from the root (`ShownInduction`: a
  subset of what is shown that holds the root, and with each folder what is in it, is
  all of it), so paths exist, are the parent's path and a name, and lead back by unique
  names. It holds with `byPath` FALSE too: a cycle is never shown. `FullPath` walks over
  the row's own ancestors, as the code does; a function over all rows would not
  exist once some other rows form a cycle.
- `BlobRefsProofs`. `TypeCorrect`, `CountsAreSafe`, `ContentIsKept`: `CountCovers` alone
  is not inductive, since a commit writes a value computed earlier. `IInv` adds what
  a request may rely on meanwhile (`Reliable`): a copy's new count is one more than
  the stored one, a deletion's new counts cover the references that remain after it,
  a migration's old file still counts the reference it is about to give up. `Apart`
  (overlapping requests hold different files, which `exclusive` ensures) keeps other
  requests from changing either side. `ContentIsKept` follows at the step that deletes
  contents: a computed count of zero leaves room for no reference outside the
  deleted entries. `OwnContentsKept` is the refinement of `ContentStore`: every
  action is mapped to one of its actions or to a stutter, and the step that drops
  contents to `Lose`, by the same argument.
- `UploadsProofs`. `Base` says what requests may know of sessions in any run.
  `UploadsCharged`: `Charged` is not inductive, because what a cancel gives back was
  decided two commits before. `Kept` adds that a cancel has its sessions to itself as
  long as they are open (`CancelAlone`), that a chunk request's session is open, an
  entry, or known to have gone (`Placed`), and that a calibration's sum stays true
  (`CalibrateAlone`). `UploadsContentWhole` has two invariants. In a bucket with
  clients that wait (`BucketInv`) the count that was read is still the session's when
  it is written, so the count is the length of the list, and a list that S3 accepts
  with `Size` different chunks is all of them. On a disk each chunk is sent once but
  requests may overlap (`LocalInv`), and `ContentWhole` holds for a reason a reader of
  the code would hardly give: a lost count can never be made up, so that such a session
  is never completed (`Behind`); and as long as none was lost, either nothing or
  exactly one chunk is under way (`Quiet`, `OneSender`), so that no file was
  opened with `wb` over another request's data.
- `EditsProofs`. In any run the file a PUT brings is nobody else's before its entry
  points to it (`Unused`), and no row counts fewer entries than point to it
  (`Counted`). `EditsSizesAgree` and `EditsPatchesBased` need `InOrder`: no other request
  names the entry or file of a request (`Distinct`), what it remembers is still
  so and what it wrote is there (`Fitting`), and a file that was never shared has one
  entry (`OwnFiles`), so that its size is the size of that entry. `EditsCharged` needs
  that what PUTs are still going to charge is already in the sizes of their
  entries (`ComingCovered`), since the charge stops at zero.
- `ServerProofs`, `Access`. `BannedAreRefused` is about a state only the last step of
  a request reaches; `PassedFreely` carries it back to the check of the database: a
  request past `CheckStatus` whose user was barred all along would have been turned
  away.
- `ServerProofs`, `Mail`. `SendersAreAlone`: `LockHeld` says that whoever connects or
  transmits, and the timer while it closes, is the one the lock names.
  `MailsAreBounded`: with `f` requests under way that found no key and `g` that found
  one, `MailCount` says that what was counted and what can still be counted
  (`MailsToCome`) stay within a budget together. A request that puts the count back to
  1 pays for it by leaving `f`, and the sum of what all of them can pay is the bound
  that `MailsBounded` names, for any number of senders and any limit.
- `ServerProofs`, `Sms`. `GuessesAreBounded`: `GuessesCounted`, guesses never exceed
  the tries that are counted with them in one script; it needs that the key of the tries
  goes with the code or later. `LateGuessesAreBounded`: `LateCounted` adds up the logins
  that were compared late and those still to compare, and the one that locked the
  number is neither.
- `ServerProofs`, `Bootstrap`. `ServingMissesNothingElse`: `Needed` lists what must be
  there for each step of start-up, and `Underway` says that it is; nothing is taken away
  before it serves. For the rows that are not looked for, `Accompanied` names the row
  each goes along with (`Leader`): where that is there, the other is too, or start-up is
  just about to create it, or it is `lost`. `ServerHolds` and `ServerMissesNothingElse` carry all parts to `MCServer`, where
  each behaviour follows one part and the others keep their first state.
- `AccountsProofs`. `NothingDangles`, `RegistrationsAreWhole`, `RootsAreSingle`: between
  the insertion of a user and the end of its registration exactly one request is at
  work on the address, which has no root folder yet (`Settled`); the unique address
  keeps others out, and the foreign keys keep groups and policies in.
- `TablesProofs`, one invariant per part:
  - `EntryRaces` (`NamesAndParentsAreKept`, `NoCyclesAlone`): what a request remembers
    may be stale, but a key without a row has no original parent (`KeysAreClean`), so
    that a new row starts clean. `AcyclicAlone`
    is not inductive: a request that has decided may hang a row elsewhere later.
    `AloneInv` says that there is no cycle even among all the parents a row has or may
    get (`MayHang`): its parent, or the original parent once it is trashed (`Above`),
    what a deletion under way will remember as its origin, and where a restore under
    way puts it. New decisions add only edges that are there already, or to the root,
    which hangs nowhere (`LoneTree`); and a move, which adds another, finds all
    requests idle, so that its ancestor walk sees every edge there is.
  - `Logins` (`ChallengesStayOnce`): a challenge is in one place (`OnePlace`): a key in
    Redis, a request that took it, or what it has earned; `GETDEL` moves it from one
    to the next.
  - `Viewers` (`ViewersStayHidden`): what a query has noted was true at some
    moment since it began (`Noted`). New rows get a mark that no row has; that there is
    one among one more than there are rows is proved by counting (`FreshMark`).
  - `Links` (`LinksStayRefused`): each stage a request has passed held at some moment
    since it began (`Checked`).
  - `Presets` (`PresetsKeepDefault`): an action property; the commit that takes the
    default away gives it to another row, or undoes itself when that row is gone.
  - `Metadata` (`MetadataStaysWhole`): with `together`, all rows of an entry are alike and
    so is what a PATCH has left to do about them (`Uniform`); a stale statement is
    refused for all keys or for none.
  - `LocalStore` (in `RequestsHold`): while something is drawn for each file, no two
    files have one path, and what is stored stays until its own request deletes it
    (`Undisturbed`); the clean-up removes no directory that holds something
    (`Housed`).
  - `TablesInvariant`, `TreesAndAccountsHold`, `RequestsHold` and `TablesKeepDefault` carry
    these, and `AccountsProofs`, to `MCTables`.
- `Sums` proves that a fold of `+` over a finite set does not depend on the order in
  which it takes the elements, so that a sum can be split at any element. The library
  states this with operators as parameters, which the provers cannot instantiate.

Each module's type invariant is proved too.

Only model-checked: the three liveness properties `DavServed`, `EventuallyFresh` and
`StartsAgain` (the provers have neither fairness nor `ENABLED`), and the violations,
which are counterexamples. The library's induction theorems take an operator as a
parameter, which no prover here can instantiate. `PathsAreFound` and `Sums` do without
them: the set of the rows, or of the finite sets, for which a claim holds is closed
under the step, and so it is everything. No module declares a RECURSIVE operator.

What is left to prove: the violations are excluded by conditions that are fixed per
behaviour (`byPath`, `lone`, `exclusive`, `calm`, `apart`, `together`); which weaker ones
would do, and that `EntryRaces`, with requests that do not overlap, takes only steps of
`EntryTree`.

## What else the models show

Behaviours of the code that came up while modelling. Those without a run are in the
models as they are, or are stated as limits in the comment of a property.

- A DELETE over WebDAV of a path of empty segments puts the root directory in the trash
  (`routers/dav/provider.py:413`). No path leads anywhere then, restoring it fails, as
  `restore_batch` looks for the root first, and emptying the trash destroys all entries
  (`EntryTree`: `DavDelete`, `Restore`, `Purge`).
- A WebDAV COPY keeps the name of its source whatever name was asked for, so that a copy
  into the same directory is refused by the unique index. An upload whose name has been
  taken since it began is refused with its last chunk (`EntryTree`).
- Two overlapping moves close a cycle; a purge decided before a restore destroys the
  restored entry; overlapping requests can leave a second live row without a
  parent (`EntryRaces`).
- A policy created through the API has no naming rule and keeps original names: two
  uploads of one name share a file. WebDAV PUT stores relative paths, which
  `sqlmodels/physical_file.py:32` describes, while the REST handlers store and use
  generated ones: what was written over WebDAV is not found by REST and its content
  is never deleted (`LocalStore`). A clean-up may remove an upload's directory
  between two requests of it.
- Two overlapping "set default" requests leave two default presets (`Presets`). Deleting
  a preset that users chose is refused by the foreign key, although
  `routers/api/v1/admin/theme/__init__.py:139` expects SET NULL.
- The code of a protected share is stored as given and compared as a hash, so that
  no answer opens it; WOPI requests look at neither trash nor ban (`Links`).
- Every hit of the WebDAV authentication cache fails with a ValueError (`Access`).
- A second WebAuthn registration replaces the challenge of the first. The first
  login by phone number or through QQ cannot insert its user, as `email` is NOT NULL. A
  user created by the administration without a way to log in refuses every later
  update (`Logins`).
- A renamed member group is created anew at the next start, and becomes the default
  again; a process killed between the administrator and the record of its id never
  serves again. One killed between the member group and the default group of the
  configuration serves from its next start on, and refuses every registration; one
  killed before the administrator's root leaves that user without one (`Bootstrap`).
- Renaming a custom property does not look for duplicates, overlapping creations
  do so too early, and deleting one leaves its values (`Metadata`).
- The completion of an S3 upload takes any answer 200 for success; with a
  body that reports an error the entry would be created all the same. The model takes
  S3 to answer by its status.
- `User.storage` is charged by copies and PUTs without a look at the quota; a WebDAV COPY
  is never charged, and what a PUT replaced is never given back (`Edits`: `missed`, `over`).

## Not modelled

- Tasks and policy migration of directories: the handler that would start a task
  fails with a NameError (`routers/api/v1/entry/__init__.py:691`), so
  `utils/storage/migrate.py` is never reached. `Entry.migrate_to_policy` for one file is
  in `BlobRefs`.
- Code without a caller: `delete_recursive`, `cleanup_if_unreferenced`, the local driver's
  trash directory, `token_store`, `_http_request_with_retry`, `validate_rule`.
- Routers that answer "not implemented" or 503 (most of shares, tasks, downloads, tags,
  slaves, callbacks; deleting users), and shop tables without operations.
- External services (SMS, mail and captcha providers, OAuth, S3 itself, WOPI hosts):
  their protocols keep no state here; what they may answer is a choice in the models.
- Columns that only their own request reads and writes: two-factor secrets, avatars,
  `remain_downloads` and `score` of shares, passkeys' `sign_count`.
- The scope algebra and other checks that only refuse a request, listings and
  categories, ranges and thumbnails, validation, rendering, error codes.
- Redis as a server, the database's isolation beyond what the models state (READ
  COMMITTED, row locks, constraints, triggers), and the wiring of sessions.

In the local driver and the S3 driver, reading and listing change nothing.
Where a component is only partly modelled, `PROJECT.json` says what is left out.
