------------------------------- MODULE Uploads -------------------------------
(***************************************************************************)
(* Chunked uploads of one user, and the storage quota they are charged to. *)
(*                                                                         *)
(* Creating an upload session reserves its announced size; every chunk is  *)
(* stored and counted on the session row; the request that finds the count *)
(* complete turns the session into an Entry and settles the difference.    *)
(* With a local policy a chunk is written into the file at its offset;     *)
(* with an S3 policy it is a part of a multipart upload, which the last    *)
(* request completes from the list of parts it knows.  Requests interleave *)
(* at every query, storage operation and commit, and may end at any of     *)
(* them.  All uploads announce Size units in Size chunks.                  *)
(***************************************************************************)
EXTENDS Integers, FiniteSets, FiniteSetsExt

CONSTANTS
    Sessions,   \* upload session ids; the Entry a session becomes has the same
    NoSession,
    Reqs,       \* requests in progress at one time
    Size,       \* chunks, and units, of every upload
    Lengths,    \* lengths a client may give a chunk
    MaxCount,   \* bound: chunk uploads counted on one session
    Settings    \* values of the five fixed variables below, as records

ASSUME UploadConstants ==
    /\ IsFiniteSet(Sessions)
    /\ NoSession \notin Sessions
    /\ Size \in Nat \ {0}
    /\ Lengths \subseteq Nat
    /\ MaxCount \in Nat
    /\ Settings \subseteq [once : BOOLEAN, calm : BOOLEAN, serial : BOOLEAN,
                            s3 : BOOLEAN, quota : Nat]
    /\ (\E f \in Settings : f.s3) => Size > 1

VARIABLES
    used,       \* column User.storage
    open,       \* UploadSession rows
    born,       \* session ids used so far
    orphaned,   \* sessions that went with their purged parent directory
    leaked,     \* units such sessions had reserved (history)
    count,      \* column uploaded_chunks
    bytes,      \* column uploaded_size
    etags,      \* column s3_part_etags: the chunks listed (count is its length)
    stored,     \* sessions whose file, or multipart upload or object, exists
    data,       \* chunks in that file, or in the object
    parts,      \* parts of the multipart upload; emptied when it is completed
    merged,     \* sessions whose multipart upload is completed
    entries,    \* Entry rows made from sessions
    length,     \* column Entry.size
    req,        \* what each request is doing and remembers
    sent,       \* chunks the client has sent so far
    once,       \* the client sends each chunk once, one unit long (fixed)
    serial,     \* it waits for the answer before it sends the next one (fixed)
    s3,         \* the policy is an S3 bucket (fixed)
    quota,      \* max_storage of the user's group, 0: unlimited (fixed)
    calm        \* cancels, calibrations and deletions run undisturbed and to
                \* their end, and one session is created at a time (fixed)

rowVars == <<open, born, orphaned, leaked, count, bytes, etags>>
disk == <<stored, data, parts, merged>>
entryVars == <<entries, length>>
fixed == <<once, serial, s3, quota, calm>>
client == <<sent, fixed>>
vars == <<used, rowVars, disk, entryVars, req, client>>

Chunks == 0..(Size - 1)

Uploading == {"read", "looked", "written", "saved", "full", "merged"}
Cancelling == {"cancel", "aborted", "released"}
Steps == {"idle", "checked", "calibrate"} \union Uploading \union Cancelling

\* count and bytes are what the request has read of the row (of a calibration,
\* count is the sum); list is its UploadContext.s3_part_etags; wb says it found
\* no file and opens it with mode 'wb'; rest are the sessions it cancels next.
Request == [pc : Steps, on : Sessions \union {NoSession}, chunk : Nat, len : Nat,
            count : Nat, bytes : Nat, list : SUBSET Chunks, wb : BOOLEAN,
            rest : SUBSET Sessions]

Idle == [pc |-> "idle", on |-> NoSession, chunk |-> 0, len |-> 0,
         count |-> 0, bytes |-> 0, list |-> {}, wb |-> FALSE, rest |-> {}]

-----------------------------------------------------------------------------

At(r, step) == req[r].pc = step

Go(r, step) ==
    req' = [req EXCEPT ![r] = [Idle EXCEPT !.pc = step, !.on = req[r].on, !.rest = req[r].rest]]

Done(r) == req' = [req EXCEPT ![r] = Idle]

\* A request is busy with its session and with those it cancels next.
Busy(r) == {req[r].on} \union req[r].rest

\* Steps at which other requests are, on session s or at all.
StepsOn(r, s) == {req[q].pc : q \in {p \in Reqs \ {r} : s \in Busy(p)}}
StepsElsewhere(r) == {req[q].pc : q \in Reqs \ {r}}

\* Open sessions whose reservation a cancel has not given back yet.
Reserved == open \ {req[r].on : r \in {q \in Reqs : At(q, "released")}}

Init ==
    /\ used = 0
    /\ open = {} /\ born = {} /\ orphaned = {} /\ leaked = 0
    /\ count = [s \in Sessions |-> 0]
    /\ bytes = [s \in Sessions |-> 0]
    /\ etags = [s \in Sessions |-> {}]
    /\ stored = {} /\ merged = {}
    /\ data = [s \in Sessions |-> {}]
    /\ parts = [s \in Sessions |-> {}]
    /\ entries = {}
    /\ length = [s \in Sessions |-> 0]
    /\ req = [r \in Reqs |-> Idle]
    /\ sent = [s \in Sessions |-> {}]
    /\ \E f \in Settings :
          /\ once = f.once /\ calm = f.calm /\ serial = f.serial
          /\ s3 = f.s3 /\ quota = f.quota

\* User.adjust_storage: one atomic UPDATE, never below zero.
Adjust(delta) == used' = Max({0, used + delta})

\* Mutant of DropRow: the counters are reset but the row stays.
RowStays(s) ==
    /\ count' = [count EXCEPT ![s] = 0]
    /\ bytes' = [bytes EXCEPT ![s] = 0]
    /\ etags' = [etags EXCEPT ![s] = {}]
    /\ UNCHANGED open

\* The row goes, and with it its counters.
DropRow(s) ==
    /\ open' = open \ {s}
    /\ count' = [count EXCEPT ![s] = 0]
    /\ bytes' = [bytes EXCEPT ![s] = 0]
    /\ etags' = [etags EXCEPT ![s] = {}]

-----------------------------------------------------------------------------
(* Creating and cancelling a session *)

\* _create_multipart_upload
StartParts(s) == stored' = stored \union {s}

\* init_upload: an S3 policy starts the multipart upload, before the commit.
StartStorage(s) ==
    /\ IF s3 THEN StartParts(s) ELSE UNCHANGED stored
    /\ UNCHANGED <<data, parts, merged>>

\* The quota is compared with the user row loaded when the request began.
CreateCheck(r, s) ==
    /\ At(r, "idle")
    /\ s \notin born
    /\ quota > 0 => used + Size <= quota
    /\ calm => StepsElsewhere(r) \intersect {"checked", "calibrate"} = {}
    /\ req' = [req EXCEPT ![r] = [Idle EXCEPT !.pc = "checked", !.on = s]]
    /\ born' = born \union {s}
    /\ StartStorage(s)
    /\ UNCHANGED <<used, open, orphaned, leaked, count, bytes, etags, entryVars, client>>

\* Reservation and session row are one commit.
CreateCommit(r) ==
    /\ At(r, "checked")
    /\ Adjust(Size)
    /\ open' = open \union {req[r].on}
    /\ Done(r)
    /\ UNCHANGED <<born, orphaned, leaked, count, bytes, etags, disk, entryVars, client>>

CancelRead(r, s) ==
    /\ At(r, "idle")
    /\ s \in open
    /\ calm => StepsOn(r, s) = {}
    /\ req' = [req EXCEPT ![r] = [Idle EXCEPT !.pc = "cancel", !.on = s]]
    /\ UNCHANGED <<used, rowVars, disk, entryVars, client>>

\* DELETE /upload/ reads all sessions once and cancels one after the other.
ClearRead(r, s) ==
    /\ At(r, "idle")
    /\ s \in open
    /\ open # {s}
    /\ calm => \A t \in open : StepsOn(r, t) = {}
    /\ req' = [req EXCEPT ![r] = [Idle EXCEPT !.pc = "cancel", !.on = s, !.rest = open \ {s}]]
    /\ UNCHANGED <<used, rowVars, disk, entryVars, client>>

\* _abort_multipart_upload: the parts of an upload that is not completed; of
\* any other S3 answers 404, which is a warning.
AbortParts(s) ==
    /\ parts' = [parts EXCEPT ![s] = {}]
    /\ stored' = stored \ ({s} \ merged)
    /\ UNCHANGED <<data, merged>>

\* LocalStorageDriver.abort_upload: the file, complete or not.
AbortFile(s) ==
    /\ stored' = stored \ {s}
    /\ data' = [data EXCEPT ![s] = {}]
    /\ UNCHANGED <<parts, merged>>

CancelAbort(r) ==
    /\ At(r, "cancel")
    /\ IF s3 THEN AbortParts(req[r].on) ELSE AbortFile(req[r].on)
    /\ Go(r, "aborted")
    /\ UNCHANGED <<used, rowVars, entryVars, client>>

\* The reservation is given back in a commit of its own, before the row goes.
CancelRelease(r) ==
    /\ At(r, "aborted")
    /\ Adjust(-Size)
    /\ Go(r, "released")
    /\ UNCHANGED <<rowVars, disk, entryVars, client>>

CancelDelete(r) ==
    /\ At(r, "released")
    /\ DropRow(req[r].on)
    /\ IF req[r].rest = {} THEN Done(r)
       ELSE \E s \in req[r].rest :
               req' = [req EXCEPT ![r] =
                   [Idle EXCEPT !.pc = "cancel", !.on = s, !.rest = req[r].rest \ {s}]]
    /\ UNCHANGED <<used, born, orphaned, leaked, disk, entryVars, client>>

-----------------------------------------------------------------------------
(* Uploading a chunk *)

\* A session past expires_at refuses chunks; as nothing removes it, that is a
\* request that does not happen.
ChunkRead(r, s, i, l) ==
    /\ At(r, "idle")
    /\ s \in open
    /\ count[s] < MaxCount
    /\ calm => StepsOn(r, s) \intersect Cancelling = {}
    /\ once => i \notin sent[s] /\ l = 1
    /\ serial => StepsOn(r, s) \intersect Uploading = {}
    /\ sent' = IF once THEN [sent EXCEPT ![s] = @ \union {i}] ELSE sent
    /\ req' = [req EXCEPT ![r] = [pc |-> "read", on |-> s, chunk |-> i, len |-> l,
                                  count |-> count[s], bytes |-> bytes[s],
                                  list |-> etags[s], wb |-> FALSE, rest |-> {}]]
    /\ UNCHANGED <<used, rowVars, disk, entryVars, fixed>>

\* Whether the file exists decides the mode: 'r+b', or 'wb', which truncates.
ChunkLook(r) ==
    /\ At(r, "read")
    /\ ~s3
    /\ req' = [req EXCEPT ![r] = [req[r] EXCEPT !.pc = "looked", !.wb = req[r].on \notin stored]]
    /\ UNCHANGED <<used, rowVars, disk, entryVars, client>>

\* With mode 'r+b' the file must still be there.
ChunkWrite(r) ==
    /\ At(r, "looked")
    /\ req[r].wb \/ req[r].on \in stored
    /\ stored' = stored \union {req[r].on}
    /\ data' = [data EXCEPT ![req[r].on] = (IF req[r].wb THEN {} ELSE @) \union {req[r].chunk}]
    /\ req' = [req EXCEPT ![r] = [req[r] EXCEPT !.pc = "written", !.chunk = 0, !.wb = FALSE]]
    /\ UNCHANGED <<used, rowVars, parts, merged, entryVars, client>>

\* _upload_part: the part replaces an earlier one of its number.  It needs an
\* upload that is neither completed nor aborted.
PutPart(s, i) ==
    /\ s \in stored \ merged
    /\ parts' = [parts EXCEPT ![s] = @ \union {i}]

\* upload_chunk: number and ETag go to the end of the request's list.
PartUpload(r) ==
    /\ At(r, "read")
    /\ s3
    /\ PutPart(req[r].on, req[r].chunk)
    /\ req' = [req EXCEPT ![r] = [req[r] EXCEPT !.pc = "written", !.chunk = 0,
                                                !.list = @ \union {req[r].chunk}]]
    /\ UNCHANGED <<used, rowVars, stored, data, merged, entryVars, client>>

\* The list is saved with the counters, and kept for completing the upload.
SaveList(r) ==
    /\ etags' = [etags EXCEPT ![req[r].on] = req[r].list]
    /\ req' = [req EXCEPT ![r] = [Idle EXCEPT !.pc = "saved", !.on = req[r].on,
                                  !.list = req[r].list,
                                  !.count = IF s3 THEN req[r].count + 1 ELSE 0]]

\* Mutant of ChunkSave: the counters are those of the row as it is now.
ChunkAdd(r) ==
    /\ At(r, "written")
    /\ req[r].on \in open
    /\ count' = [count EXCEPT ![req[r].on] = @ + 1]
    /\ bytes' = [bytes EXCEPT ![req[r].on] = @ + req[r].len]
    /\ SaveList(r)
    /\ UNCHANGED <<used, open, born, orphaned, leaked, disk, entryVars, client>>

\* The counters are those read at the start plus this chunk; an UPDATE that
\* finds no row raises.
ChunkSave(r) ==
    /\ At(r, "written")
    /\ req[r].on \in open
    /\ count' = [count EXCEPT ![req[r].on] = req[r].count + 1]
    /\ bytes' = [bytes EXCEPT ![req[r].on] = req[r].bytes + req[r].len]
    /\ SaveList(r)
    /\ UNCHANGED <<used, open, born, orphaned, leaked, disk, entryVars, client>>

\* After its commit the request reads the row again to see whether it is done.
ChunkRefresh(r) ==
    /\ At(r, "saved")
    /\ req[r].on \in open
    /\ IF count[req[r].on] >= Size
       THEN req' = [req EXCEPT ![r] = [req[r] EXCEPT !.pc = "full", !.bytes = bytes[req[r].on]]]
       ELSE Done(r)
    /\ UNCHANGED <<used, rowVars, disk, entryVars, client>>

\* CompleteMultipartUpload with the request's own list, which S3 refuses if a
\* part number occurs twice, and which need not name every part.
PartsComplete(r) ==
    /\ At(r, "full")
    /\ s3
    /\ req[r].on \in stored \ merged
    /\ Cardinality(req[r].list) = req[r].count
    /\ merged' = merged \union {req[r].on}
    /\ data' = [data EXCEPT ![req[r].on] = req[r].list]
    /\ parts' = [parts EXCEPT ![req[r].on] = {}]
    /\ req' = [req EXCEPT ![r] = [req[r] EXCEPT !.pc = "merged", !.list = {}, !.count = 0]]
    /\ UNCHANGED <<used, rowVars, stored, entryVars, client>>

\* Mutant of Complete: the difference in size is not settled.
CompleteUnsettled(r) ==
    /\ At(r, IF s3 THEN "merged" ELSE "full")
    /\ req[r].on \notin entries \union orphaned
    /\ entries' = entries \union {req[r].on}
    /\ length' = [length EXCEPT ![req[r].on] = req[r].bytes]
    /\ DropRow(req[r].on)
    /\ Done(r)
    /\ UNCHANGED <<used, born, orphaned, leaked, disk, client>>

\* File row, Entry (its upload_session_id is unique, its parent must exist),
\* session row and the difference in size are one commit.
Complete(r) ==
    /\ At(r, IF s3 THEN "merged" ELSE "full")
    /\ req[r].on \notin entries \union orphaned
    /\ entries' = entries \union {req[r].on}
    /\ length' = [length EXCEPT ![req[r].on] = req[r].bytes]
    /\ DropRow(req[r].on)
    /\ Adjust(req[r].bytes - Size)
    /\ Done(r)
    /\ UNCHANGED <<born, orphaned, leaked, disk, client>>

-----------------------------------------------------------------------------
(* What else touches sessions, entries and the quota *)

\* Deleting the parent directory for good takes the session rows along
\* (ON DELETE CASCADE); nothing looks at what they reserved or stored.
PurgeParent(s) ==
    /\ s \in open
    /\ calm => \A r \in Reqs : s \in Busy(r) => req[r].pc \notin Cancelling
    /\ DropRow(s)
    /\ orphaned' = orphaned \union {s}
    /\ leaked' = leaked + Size
    /\ UNCHANGED <<used, born, disk, entryVars, req, client>>

PurgeEntry(s) ==
    /\ s \in entries
    /\ calm => \A r \in Reqs : s \notin Busy(r) /\ ~At(r, "calibrate")
    /\ entries' = entries \ {s}
    /\ length' = [length EXCEPT ![s] = 0]
    /\ stored' = stored \ {s}
    /\ data' = [data EXCEPT ![s] = {}]
    /\ Adjust(-length[s])
    /\ UNCHANGED <<rowVars, parts, merged, req, client>>

Charge(S) == MapThenSumSet(LAMBDA s : length[s], S)

\* The administration sets storage to what the entries add up to; open
\* sessions do not count.  A value that is right already is not written.
CalibrateRead(r) ==
    /\ At(r, "idle")
    /\ calm => open = {} /\ StepsElsewhere(r) \subseteq {"idle"}
    /\ used # Charge(entries)
    /\ req' = [req EXCEPT ![r] = [Idle EXCEPT !.pc = "calibrate", !.count = Charge(entries)]]
    /\ UNCHANGED <<used, rowVars, disk, entryVars, client>>

CalibrateSave(r) ==
    /\ At(r, "calibrate")
    /\ used' = req[r].count
    /\ leaked' = 0
    /\ Done(r)
    /\ UNCHANGED <<open, born, orphaned, count, bytes, etags, disk, entryVars, client>>

\* Exception, rollback or crash; what is committed or written stays.
Fail(r) ==
    /\ ~At(r, "idle")
    /\ calm => req[r].pc \notin {"aborted", "released"}
    /\ Done(r)
    /\ UNCHANGED <<used, rowVars, disk, entryVars, client>>

Next ==
    \/ \E r \in Reqs, s \in Sessions : CreateCheck(r, s)
    \/ \E r \in Reqs : CreateCommit(r)
    \/ \E r \in Reqs, s \in Sessions : CancelRead(r, s)
    \/ \E r \in Reqs, s \in Sessions : ClearRead(r, s)
    \/ \E r \in Reqs : CancelAbort(r)
    \/ \E r \in Reqs : CancelRelease(r)
    \/ \E r \in Reqs : CancelDelete(r)
    \/ \E r \in Reqs, s \in Sessions, i \in Chunks, l \in Lengths : ChunkRead(r, s, i, l)
    \/ \E r \in Reqs : ChunkLook(r)
    \/ \E r \in Reqs : ChunkWrite(r)
    \/ \E r \in Reqs : PartUpload(r)
    \/ \E r \in Reqs : ChunkSave(r)
    \/ \E r \in Reqs : ChunkRefresh(r)
    \/ \E r \in Reqs : PartsComplete(r)
    \/ \E r \in Reqs : Complete(r)
    \/ \E s \in Sessions : PurgeParent(s)
    \/ \E s \in Sessions : PurgeEntry(s)
    \/ \E r \in Reqs : CalibrateRead(r)
    \/ \E r \in Reqs : CalibrateSave(r)
    \/ \E r \in Reqs : Fail(r)

Spec == Init /\ [][Next]_vars

-----------------------------------------------------------------------------
(* Properties *)

TypeOK ==
    /\ used \in Nat
    /\ open \subseteq born /\ born \subseteq Sessions
    /\ orphaned \subseteq born \ open
    /\ leaked \in Nat
    /\ count \in [Sessions -> Nat] /\ bytes \in [Sessions -> Nat]
    /\ etags \in [Sessions -> SUBSET Chunks]
    /\ merged \subseteq Sessions /\ stored \subseteq Sessions
    /\ data \in [Sessions -> SUBSET Chunks] /\ parts \in [Sessions -> SUBSET Chunks]
    /\ entries \subseteq born
    /\ length \in [Sessions -> Nat]
    /\ req \in [Reqs -> Request]
    /\ sent \in [Sessions -> SUBSET Chunks]
    /\ [once |-> once, calm |-> calm, serial |-> serial, s3 |-> s3, quota |-> quota]
           \in Settings

\* Every file an upload made is in the storage with all its chunks, however the
\* chunk requests overlapped.  In a local file an overlap that truncates it or loses
\* a chunk also loses a count, and the upload never completes.  With S3 even repeated
\* chunks do not end it early, as long as the client waits for each answer: the count
\* is the length of the list of parts, and S3 refuses a list that names one twice.
ContentWhole ==
    calm /\ (IF s3 THEN serial ELSE once) =>
        \A s \in entries : s \in stored /\ data[s] = Chunks

\* The user is charged what the files take up and what open sessions have
\* reserved, whatever order creates, chunks (repeated ones and those of another
\* length included), completions, cancels and deletions come in and wherever
\* they fail.  Only the sessions of a purged directory stay charged, until the
\* administration recalculates.
Charged == calm => used = Charge(entries) + Size * Cardinality(Reserved) + leaked

\* "Reserve the space in the transaction that creates the session, so that
\* concurrent requests cannot get around the quota."
QuotaKept == once /\ quota > 0 => used <= quota

\* "If all chunks have been uploaded, create the Entry."
AllChunksUploaded == calm /\ ~s3 => \A s \in entries : data[s] = Chunks
=============================================================================
