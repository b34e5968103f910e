---------------------------- MODULE UploadsProofs ----------------------------
(***************************************************************************)
(* Type correctness of Uploads; that the charge and the reservations add   *)
(* up; and that every file an upload made is there with all its chunks.    *)
(*                                                                         *)
(* Base says what requests may know of sessions in any run.  Kept adds to  *)
(* the charge that a request which cancels has its sessions to itself and  *)
(* one that uploads has its session somewhere: then what is given back is  *)
(* what was reserved.  The content has two invariants of its own, one for  *)
(* each kind of storage.  In a bucket the count that was read is still the *)
(* session's when the next part goes up, so the count says how many parts  *)
(* there are.  On a disk requests may overlap: then either more is missing *)
(* than the count and the chunks still to be sent can ever make up         *)
(* (Behind), so that such a session is never completed, or nothing has     *)
(* been lost so far (Quiet, OneSender).                                    *)
(***************************************************************************)
EXTENDS Uploads, Sums, TLAPS

-----------------------------------------------------------------------------
(* The inductive invariant of the rows and the requests *)

\* Requests name sessions that were created, and chunks there are.
Known == \A r \in Reqs :
            /\ req[r].pc \notin {"idle", "calibrate"} => req[r].on \in born
            /\ req[r].pc \in {"idle", "calibrate"} => req[r].on = NoSession
            /\ req[r].rest \subseteq born \ {req[r].on}
            /\ req[r].pc \notin Cancelling => req[r].rest = {}
            /\ req[r].pc \in {"read", "looked"} => req[r].chunk \in Chunks

\* A session that is being created is nobody else's yet.
Unshared == \A r \in Reqs : At(r, "checked") =>
            /\ req[r].on \notin open \union orphaned \union entries
            /\ \A q \in Reqs \ {r} : req[r].on \notin Busy(q)

Base == TypeOK /\ Known /\ Unshared /\ open \intersect entries = {}

-----------------------------------------------------------------------------

LEMMA IdleIs ==
    /\ Idle \in Request
    /\ Idle.pc = "idle" /\ Idle.on = NoSession /\ Idle.rest = {} /\ Idle.list = {}
    /\ Idle.count = 0 /\ Idle.chunk = 0
  BY DEF Idle, Request, Steps

\* What becomes of the requests when one of them changes.
LEMMA Written ==
    ASSUME TypeOK, NEW r \in Reqs, NEW new, req' = [req EXCEPT ![r] = new]
    PROVE  /\ req'[r] = new
           /\ \A q \in Reqs \ {r} : req'[q] = req[q]
           /\ new \in Request => req' \in [Reqs -> Request]
  BY DEF TypeOK

\* The types of what a request remembers.
LEMMA Fields ==
    ASSUME TypeOK, NEW r \in Reqs
    PROVE  /\ req[r] \in Request
           /\ req[r].pc \in Steps /\ req[r].on \in Sessions \union {NoSession}
           /\ req[r].count \in Nat /\ req[r].bytes \in Nat
           /\ req[r].chunk \in Nat /\ req[r].len \in Nat
           /\ req[r].list \in SUBSET Chunks /\ req[r].wb \in BOOLEAN
           /\ req[r].rest \in SUBSET Sessions
  BY DEF TypeOK, Request

\* What a request that becomes new must satisfy for Known and Unshared to hold.
LEMMA KnownStep ==
    ASSUME Base, NEW r \in Reqs, NEW new, req' = [req EXCEPT ![r] = new],
           born \subseteq born', 
           new.pc \notin {"idle", "calibrate"} => new.on \in born',
           new.pc \in {"idle", "calibrate"} => new.on = NoSession,
           new.rest \subseteq born' \ {new.on},
           new.pc \notin Cancelling => new.rest = {},
           new.pc \in {"read", "looked"} => new.chunk \in Chunks
    PROVE  Known'
  <1> SUFFICES ASSUME NEW q \in Reqs
               PROVE  /\ req'[q].pc \notin {"idle", "calibrate"} => req'[q].on \in born'
                      /\ req'[q].pc \in {"idle", "calibrate"} => req'[q].on = NoSession
                      /\ req'[q].rest \subseteq born' \ {req'[q].on}
                      /\ req'[q].pc \notin Cancelling => req'[q].rest = {}
                      /\ req'[q].pc \in {"read", "looked"} => req'[q].chunk \in Chunks
    BY DEF Known, Chunks, Cancelling
  <1>1. CASE q = r
    <2>1. req'[q] = new
      BY <1>1, Written DEF Base
    <2> QED
      BY <2>1
  <1>2. CASE q # r
    <2>1. req'[q] = req[q]
      BY <1>2, Written DEF Base
    <2> QED
      BY <2>1 DEF Base, Known
  <1> QED
    BY <1>1, <1>2

\* A request goes on, with sessions that are in the table or were its own.
LEMMA UnsharedStep ==
    ASSUME Base, NEW r \in Reqs, NEW new, req' = [req EXCEPT ![r] = new],
           new.pc # "checked",
           \A s \in Sessions : s \in ({new.on} \union new.rest) =>
                s \in open \/ s \in Busy(r),
           \A q \in Reqs \ {r} : At(q, "checked") =>
                req[q].on \notin open' \union orphaned' \union entries'
    PROVE  Unshared'
  <1> SUFFICES ASSUME NEW q \in Reqs, At(q, "checked")'
               PROVE  /\ req'[q].on \notin open' \union orphaned' \union entries'
                      /\ \A p \in Reqs \ {q} : req'[q].on \notin Busy(p)'
    BY DEF Unshared
  <1>1. q # r /\ req'[q] = req[q] /\ At(q, "checked")
    BY Written DEF Base, At
  <1>2. req[q].on \in Sessions
    BY <1>1 DEF Base, Known, TypeOK, At
  <1>3. ASSUME NEW p \in Reqs \ {q} PROVE req'[q].on \notin Busy(p)'
    <2>1. CASE p = r
      <3>1. Busy(p)' = {new.on} \union new.rest
        BY <2>1, Written DEF Base, Busy
      <3>2. req[q].on \notin open /\ req[q].on \notin Busy(r)
        BY <1>1 DEF Base, Unshared
      <3> QED
        BY <1>1, <1>2, <3>1, <3>2
    <2>2. CASE p # r
      <3>1. Busy(p)' = Busy(p)
        BY <2>2, Written DEF Base, Busy
      <3> QED
        BY <1>1, <3>1 DEF Base, Unshared
    <2> QED
      BY <2>1, <2>2
  <1> QED
    BY <1>1, <1>3

-----------------------------------------------------------------------------
(* Base is inductive *)

\* The charge as a sum over a function, now and in the next state.
LEMMA ChargeIs == Charge(entries) = SumOf(length, entries)
  BY DEF Charge, SumOf

LEMMA ChargeNext == Charge(entries)' = SumOf(length', entries')
  <1>1. (Charge(entries) = SumOf(length, entries))'
    BY ChargeIs, PTL
  <1> QED
    BY <1>1

\* A charge is a number.
LEMMA ChargeNat ==
    ASSUME TypeOK, NEW S \in SUBSET Sessions
    PROVE  Charge(S) \in Nat /\ Charge(S) = SumOf(length, S)
  <1>1. Charge(S) = SumOf(length, S)
    BY DEF Charge, SumOf
  <1>2. IsFiniteSet(S) /\ \A s \in S : length[s] \in Nat
    BY FS_Subset, UploadConstants DEF TypeOK
  <1> QED
    BY <1>1, <1>2, SumType

\* What is added to the charge is added, unless it would become negative.
LEMMA AdjustNat ==
    ASSUME NEW delta \in Int, used \in Nat, Adjust(delta)
    PROVE  /\ used' \in Nat
           /\ used + delta >= 0 => used' = used + delta
  BY Positive DEF Adjust

LEMMA BaseCreateCheck ==
    ASSUME Base, NEW r \in Reqs, NEW s \in Sessions, CreateCheck(r, s)
    PROVE  Base'
  <1> DEFINE new == [Idle EXCEPT !.pc = "checked", !.on = s]
  <1>1. req' = [req EXCEPT ![r] = new]
    BY DEF CreateCheck
  <1>2. new \in Request /\ new.pc = "checked" /\ new.on = s /\ new.rest = {}
    BY DEF Idle, Request, Steps
  <1> HIDE DEF new
  <1>3. req' \in [Reqs -> Request]
    BY <1>1, <1>2, Written DEF Base
  <1>4. TypeOK'
    BY <1>3 DEF Base, TypeOK, CreateCheck, StartStorage, StartParts, entryVars, client, fixed
  <1>5. Known'
    BY <1>1, <1>2, KnownStep DEF CreateCheck, Cancelling
  <1>6. \A q \in Reqs : s \notin Busy(q)
    BY UploadConstants, Fields DEF Base, Known, TypeOK, CreateCheck, Busy
  <1>7. Unshared'
    <2> SUFFICES ASSUME NEW q \in Reqs, At(q, "checked")'
                 PROVE  /\ req'[q].on \notin open' \union orphaned' \union entries'
                        /\ \A p \in Reqs \ {q} : req'[q].on \notin Busy(p)'
      BY DEF Unshared
    <2>1. \A p \in Reqs : Busy(p)' = IF p = r THEN {s} ELSE Busy(p)
      BY <1>1, <1>2, Written DEF Base, Busy
    <2>2. CASE q = r
      BY <1>1, <1>2, <1>6, <2>1, <2>2, Written DEF Base, TypeOK, CreateCheck, entryVars
    <2>3. CASE q # r
      <3>1. req'[q] = req[q] /\ At(q, "checked") /\ req[q].on # s
        BY <1>1, <1>6, <2>3, Written DEF Base, At, Busy
      <3> QED
        BY <2>1, <3>1 DEF Base, Unshared, CreateCheck, entryVars
    <2> QED
      BY <2>2, <2>3
  <1> QED
    BY <1>4, <1>5, <1>7 DEF Base, CreateCheck, entryVars

LEMMA BaseCreateCommit ==
    ASSUME Base, NEW r \in Reqs, CreateCommit(r)
    PROVE  Base'
  <1>1. req' = [req EXCEPT ![r] = Idle] /\ At(r, "checked")
    BY DEF CreateCommit, Done
  <1>2. req' \in [Reqs -> Request]
    BY <1>1, IdleIs, Written DEF Base
  <1>3. /\ req[r].on \in born /\ req[r].on \notin open \union orphaned \union entries
        /\ \A q \in Reqs \ {r} : req[r].on \notin Busy(q)
    BY <1>1 DEF Base, Known, Unshared, At
  <1>4. used' \in Nat
    BY AdjustNat, UploadConstants DEF CreateCommit, Base, TypeOK
  <1>5. TypeOK'
    BY <1>2, <1>3, <1>4 DEF Base, TypeOK, CreateCommit, disk, entryVars, client, fixed
  <1>6. Known'
    BY <1>1, IdleIs, KnownStep DEF CreateCommit, Cancelling
  <1>7. Unshared'
    <2>1. \A q \in Reqs \ {r} : At(q, "checked") =>
               req[q].on \notin open' \union orphaned' \union entries'
      BY <1>3 DEF CreateCommit, entryVars, Base, Unshared, Busy
    <2>2. \A s \in Sessions : s \notin {Idle.on} \union Idle.rest
      BY IdleIs, UploadConstants
    <2> QED
      BY <1>1, <2>1, <2>2, IdleIs, UnsharedStep
  <1> QED
    BY <1>3, <1>5, <1>6, <1>7 DEF Base, CreateCommit, entryVars

LEMMA BaseCancelRead ==
    ASSUME Base, NEW r \in Reqs, NEW s \in Sessions, CancelRead(r, s)
    PROVE  Base'
  <1> DEFINE new == [Idle EXCEPT !.pc = "cancel", !.on = s]
  <1>1. req' = [req EXCEPT ![r] = new]
    BY DEF CancelRead
  <1>2. new \in Request /\ new.pc = "cancel" /\ new.on = s /\ new.rest = {}
    BY DEF Idle, Request, Steps, Cancelling
  <1> HIDE DEF new
  <1>3. TypeOK'
    BY <1>1, <1>2, Written DEF Base, TypeOK, CancelRead, rowVars, disk, entryVars, client, fixed
  <1>4. Known'
    BY <1>1, <1>2, KnownStep DEF CancelRead, rowVars, Cancelling, Base, TypeOK
  <1>5. Unshared'
    BY <1>1, <1>2, UnsharedStep DEF CancelRead, rowVars, entryVars, Base, Unshared
  <1> QED
    BY <1>3, <1>4, <1>5 DEF Base, CancelRead, entryVars, rowVars

LEMMA BaseClearRead ==
    ASSUME Base, NEW r \in Reqs, NEW s \in Sessions, ClearRead(r, s)
    PROVE  Base'
  <1> DEFINE new == [Idle EXCEPT !.pc = "cancel", !.on = s, !.rest = open \ {s}]
  <1>1. req' = [req EXCEPT ![r] = new]
    BY DEF ClearRead
  <1>2. /\ new \in Request
        /\ new.pc = "cancel" /\ new.on = s /\ new.rest = open \ {s}
    BY Fields DEF ClearRead, Base, Known, At, Idle, Request, Steps, Uploading, Cancelling, TypeOK
  <1> HIDE DEF new
  <1>3. TypeOK'
    BY <1>1, <1>2, Written
       DEF Base, TypeOK, ClearRead, rowVars, disk, entryVars, client, fixed
  <1>4. Known'
    BY <1>1, <1>2, KnownStep DEF ClearRead, rowVars, Cancelling, Base, TypeOK
  <1>5. Unshared'
    <2>1. \A q \in Reqs \ {r} : At(q, "checked") =>
               req[q].on \notin open' \union orphaned' \union entries'
      BY DEF ClearRead, rowVars, entryVars, Base, Unshared, Busy
    <2>2. \A w \in Sessions : w \in ({new.on} \union new.rest) =>
               w \in open \/ w \in Busy(r)
      BY <1>2, UploadConstants DEF ClearRead, Busy
    <2> QED
      BY <1>1, <1>2, <2>1, <2>2, UnsharedStep
  <1> QED
    BY <1>3, <1>4, <1>5 DEF Base, ClearRead, entryVars, rowVars

LEMMA BaseCancelAbort ==
    ASSUME Base, NEW r \in Reqs, CancelAbort(r)
    PROVE  Base'
  <1> DEFINE new == [Idle EXCEPT !.pc = "aborted", !.on = req[r].on, !.rest = req[r].rest]
  <1>1. req' = [req EXCEPT ![r] = new]
    BY DEF CancelAbort, Go
  <1>2. /\ new \in Request
        /\ new.pc = "aborted" /\ new.on = req[r].on /\ new.rest = req[r].rest
        /\ req[r].on \in born /\ req[r].rest \subseteq born \ {req[r].on}
    BY Fields DEF CancelAbort, Base, Known, At, Idle, Request, Steps, Uploading, Cancelling
  <1> HIDE DEF new
  <1>3. TypeOK'
    BY <1>1, <1>2, Written
       DEF Base, TypeOK, CancelAbort, rowVars, disk, entryVars, client, fixed, AbortParts, AbortFile
  <1>4. Known'
    BY <1>1, <1>2, KnownStep DEF CancelAbort, rowVars, Cancelling
  <1>5. Unshared'
    <2>1. \A q \in Reqs \ {r} : At(q, "checked") =>
               req[q].on \notin open' \union orphaned' \union entries'
      BY DEF CancelAbort, rowVars, entryVars, Base, Unshared, Busy
    <2>2. \A s \in Sessions : s \in ({new.on} \union new.rest) =>
               s \in open \/ s \in Busy(r)
      BY <1>2, UploadConstants DEF CancelAbort, Busy
    <2> QED
      BY <1>1, <1>2, <2>1, <2>2, UnsharedStep
  <1> QED
    BY <1>3, <1>4, <1>5 DEF Base, CancelAbort, entryVars, rowVars

LEMMA BaseCancelRelease ==
    ASSUME Base, NEW r \in Reqs, CancelRelease(r)
    PROVE  Base'
  <1> DEFINE new == [Idle EXCEPT !.pc = "released", !.on = req[r].on, !.rest = req[r].rest]
  <1>1. req' = [req EXCEPT ![r] = new]
    BY DEF CancelRelease, Go
  <1>2. /\ new \in Request
        /\ new.pc = "released" /\ new.on = req[r].on /\ new.rest = req[r].rest
        /\ req[r].on \in born /\ req[r].rest \subseteq born \ {req[r].on}
    BY Fields DEF CancelRelease, Base, Known, At, Idle, Request, Steps, Uploading, Cancelling
  <1> HIDE DEF new
  <1>a. used' \in Nat
    BY AdjustNat, UploadConstants DEF CancelRelease, Base, TypeOK
  <1>3. TypeOK'
    BY <1>1, <1>2, Written, <1>a
       DEF Base, TypeOK, CancelRelease, rowVars, disk, entryVars, client, fixed
  <1>4. Known'
    BY <1>1, <1>2, KnownStep DEF CancelRelease, rowVars, Cancelling
  <1>5. Unshared'
    <2>1. \A q \in Reqs \ {r} : At(q, "checked") =>
               req[q].on \notin open' \union orphaned' \union entries'
      BY DEF CancelRelease, rowVars, entryVars, Base, Unshared, Busy
    <2>2. \A s \in Sessions : s \in ({new.on} \union new.rest) =>
               s \in open \/ s \in Busy(r)
      BY <1>2, UploadConstants DEF CancelRelease, Busy
    <2> QED
      BY <1>1, <1>2, <2>1, <2>2, UnsharedStep
  <1> QED
    BY <1>3, <1>4, <1>5 DEF Base, CancelRelease, entryVars, rowVars

LEMMA BaseCancelDelete ==
    ASSUME Base, NEW r \in Reqs, CancelDelete(r)
    PROVE  Base'
  <1>1. PICK new : /\ req' = [req EXCEPT ![r] = new] /\ new \in Request
                   /\ \/ new = Idle
                      \/ /\ new.pc = "cancel" /\ new.on \in req[r].rest
                         /\ new.rest = req[r].rest \ {new.on}
    <2>1. CASE req[r].rest = {}
      BY <2>1, IdleIs DEF CancelDelete, Done
    <2>2. CASE req[r].rest # {}
      <3>1. PICK s \in req[r].rest : req' = [req EXCEPT ![r] =
                 [Idle EXCEPT !.pc = "cancel", !.on = s, !.rest = req[r].rest \ {s}]]
        BY <2>2 DEF CancelDelete
      <3>2. s \in Sessions /\ req[r].rest \in SUBSET Sessions
        BY Fields DEF Base
      <3> DEFINE n == [Idle EXCEPT !.pc = "cancel", !.on = s, !.rest = req[r].rest \ {s}]
      <3>3. n \in Request /\ n.pc = "cancel" /\ n.on = s /\ n.rest = req[r].rest \ {s}
        BY <3>2 DEF Idle, Request, Steps, Cancelling
      <3> HIDE DEF n
      <3> QED
        BY <3>1, <3>3 DEF n
    <2> QED
      BY <2>1, <2>2
  <1>2. req[r].rest \subseteq born
    BY DEF Base, Known
  <1>3. TypeOK'
    BY <1>1, Written DEF Base, TypeOK, CancelDelete, DropRow, disk, entryVars, client, fixed
  <1>4. Known'
    BY <1>1, <1>2, IdleIs, KnownStep DEF CancelDelete, Cancelling
  <1>5. Unshared'
    <2>1. \A q \in Reqs \ {r} : At(q, "checked") =>
               req[q].on \notin open' \union orphaned' \union entries'
      BY DEF CancelDelete, DropRow, entryVars, Base, Unshared
    <2>2. \A s \in Sessions : s \in ({new.on} \union new.rest) =>
               s \in open \/ s \in Busy(r)
      BY <1>1, IdleIs, UploadConstants DEF Busy
    <2>3. new.pc # "checked"
      BY <1>1, IdleIs
    <2> QED
      BY <1>1, <2>1, <2>2, <2>3, UnsharedStep
  <1> QED
    BY <1>3, <1>4, <1>5 DEF Base, CancelDelete, DropRow, entryVars

LEMMA BaseChunkRead ==
    ASSUME Base, NEW r \in Reqs, NEW s \in Sessions,
           NEW i \in Chunks, NEW l \in Lengths, ChunkRead(r, s, i, l)
    PROVE  Base'
  <1> DEFINE new == [pc |-> "read", on |-> s, chunk |-> i, len |-> l, count |-> count[s],
                     bytes |-> bytes[s], list |-> etags[s], wb |-> FALSE, rest |-> {}]
  <1>1. req' = [req EXCEPT ![r] = new]
    BY DEF ChunkRead
  <1>2. /\ new \in Request
        /\ new.pc = "read" /\ new.on = s /\ new.rest = {} /\ new.chunk = i
    BY Fields, UploadConstants DEF ChunkRead, Base, Known, At, Idle, Request, Steps, Uploading, Cancelling, TypeOK, Chunks
  <1> HIDE DEF new
  <1>3. TypeOK'
    <2>1. req' \in [Reqs -> Request]
      BY <1>1, <1>2, Written DEF Base
    <2>2. sent' \in [Sessions -> SUBSET Chunks]
      BY DEF Base, TypeOK, ChunkRead
    <2> QED
      BY <2>1, <2>2
       DEF Base, TypeOK, ChunkRead, rowVars, disk, entryVars, client, fixed
  <1>4. Known'
    BY <1>1, <1>2, KnownStep DEF ChunkRead, rowVars, Cancelling, Base, TypeOK
  <1>5. Unshared'
    <2>1. \A q \in Reqs \ {r} : At(q, "checked") =>
               req[q].on \notin open' \union orphaned' \union entries'
      BY DEF ChunkRead, rowVars, entryVars, Base, Unshared, Busy
    <2>2. \A w \in Sessions : w \in ({new.on} \union new.rest) =>
               w \in open \/ w \in Busy(r)
      BY <1>2, UploadConstants DEF ChunkRead, Busy
    <2> QED
      BY <1>1, <1>2, <2>1, <2>2, UnsharedStep
  <1> QED
    BY <1>3, <1>4, <1>5 DEF Base, ChunkRead, entryVars, rowVars

LEMMA BaseChunkLook ==
    ASSUME Base, NEW r \in Reqs, ChunkLook(r)
    PROVE  Base'
  <1> DEFINE new == [req[r] EXCEPT !.pc = "looked", !.wb = req[r].on \notin stored]
  <1>1. req' = [req EXCEPT ![r] = new]
    BY DEF ChunkLook
  <1>2. /\ new \in Request
        /\ new.pc = "looked" /\ new.on = req[r].on /\ new.rest = {}
        /\ req[r].on \in born
        /\ new.chunk \in Chunks
    BY Fields DEF ChunkLook, Base, Known, At, Idle, Request, Steps, Uploading, Cancelling
  <1> HIDE DEF new
  <1>3. TypeOK'
    BY <1>1, <1>2, Written
       DEF Base, TypeOK, ChunkLook, rowVars, disk, entryVars, client, fixed
  <1>4. Known'
    BY <1>1, <1>2, KnownStep DEF ChunkLook, rowVars, Cancelling
  <1>5. Unshared'
    <2>1. \A q \in Reqs \ {r} : At(q, "checked") =>
               req[q].on \notin open' \union orphaned' \union entries'
      BY DEF ChunkLook, rowVars, entryVars, Base, Unshared, Busy
    <2>2. \A s \in Sessions : s \in ({new.on} \union new.rest) =>
               s \in open \/ s \in Busy(r)
      BY <1>2, UploadConstants DEF ChunkLook, Busy
    <2> QED
      BY <1>1, <1>2, <2>1, <2>2, UnsharedStep
  <1> QED
    BY <1>3, <1>4, <1>5 DEF Base, ChunkLook, entryVars, rowVars

LEMMA BaseChunkWrite ==
    ASSUME Base, NEW r \in Reqs, ChunkWrite(r)
    PROVE  Base'
  <1> DEFINE new == [req[r] EXCEPT !.pc = "written", !.chunk = 0, !.wb = FALSE]
  <1>1. req' = [req EXCEPT ![r] = new]
    BY DEF ChunkWrite
  <1>2. /\ new \in Request
        /\ new.pc = "written" /\ new.on = req[r].on /\ new.rest = {}
        /\ req[r].on \in born
        /\ req[r].on \in Sessions /\ req[r].chunk \in Chunks
    BY Fields DEF ChunkWrite, Base, Known, At, Idle, Request, Steps, Uploading, Cancelling, TypeOK
  <1> HIDE DEF new
  <1>3. TypeOK'
    BY <1>1, <1>2, Written
       DEF Base, TypeOK, ChunkWrite, rowVars, disk, entryVars, client, fixed
  <1>4. Known'
    BY <1>1, <1>2, KnownStep DEF ChunkWrite, rowVars, Cancelling
  <1>5. Unshared'
    <2>1. \A q \in Reqs \ {r} : At(q, "checked") =>
               req[q].on \notin open' \union orphaned' \union entries'
      BY DEF ChunkWrite, rowVars, entryVars, Base, Unshared, Busy
    <2>2. \A s \in Sessions : s \in ({new.on} \union new.rest) =>
               s \in open \/ s \in Busy(r)
      BY <1>2, UploadConstants DEF ChunkWrite, Busy
    <2> QED
      BY <1>1, <1>2, <2>1, <2>2, UnsharedStep
  <1> QED
    BY <1>3, <1>4, <1>5 DEF Base, ChunkWrite, entryVars, rowVars

LEMMA BasePartUpload ==
    ASSUME Base, NEW r \in Reqs, PartUpload(r)
    PROVE  Base'
  <1> DEFINE new == [req[r] EXCEPT !.pc = "written", !.chunk = 0, !.list = @ \union {req[r].chunk}]
  <1>1. req' = [req EXCEPT ![r] = new]
    BY DEF PartUpload
  <1>2. /\ new \in Request
        /\ new.pc = "written" /\ new.on = req[r].on /\ new.rest = {}
        /\ req[r].on \in born
        /\ req[r].on \in Sessions /\ req[r].chunk \in Chunks
    <2>1. /\ req[r].on \in born /\ req[r].on \in Sessions /\ req[r].rest = {}
          /\ req[r] \in Request
      BY Fields DEF PartUpload, Base, TypeOK, Known, At, Cancelling
    <2>2. req[r].chunk \in Chunks /\ req[r].list \union {req[r].chunk} \in SUBSET Chunks
      BY Fields DEF PartUpload, Base, Known, At
    <2> QED
      BY <2>1, <2>2 DEF Idle, Request, Steps, Uploading
  <1> HIDE DEF new
  <1>3. TypeOK'
    BY <1>1, <1>2, Written
       DEF Base, TypeOK, PartUpload, rowVars, disk, entryVars, client, fixed, PutPart
  <1>4. Known'
    BY <1>1, <1>2, KnownStep DEF PartUpload, rowVars, Cancelling
  <1>5. Unshared'
    <2>1. \A q \in Reqs \ {r} : At(q, "checked") =>
               req[q].on \notin open' \union orphaned' \union entries'
      BY DEF PartUpload, rowVars, entryVars, Base, Unshared, Busy
    <2>2. \A s \in Sessions : s \in ({new.on} \union new.rest) =>
               s \in open \/ s \in Busy(r)
      BY <1>2, UploadConstants DEF PartUpload, Busy
    <2> QED
      BY <1>1, <1>2, <2>1, <2>2, UnsharedStep
  <1> QED
    BY <1>3, <1>4, <1>5 DEF Base, PartUpload, entryVars, rowVars

LEMMA BaseChunkSave ==
    ASSUME Base, NEW r \in Reqs, ChunkSave(r)
    PROVE  Base'
  <1> DEFINE new == [Idle EXCEPT !.pc = "saved", !.on = req[r].on, !.list = req[r].list,
                               !.count = IF s3 THEN req[r].count + 1 ELSE 0]
  <1>1. req' = [req EXCEPT ![r] = new]
    BY DEF ChunkSave, SaveList
  <1>2. /\ new \in Request
        /\ new.pc = "saved" /\ new.on = req[r].on /\ new.rest = {}
        /\ req[r].on \in born
        /\ req[r].count + 1 \in Nat /\ req[r].bytes + req[r].len \in Nat /\ req[r].list \in SUBSET Chunks
    <2>1. /\ req[r].on \in born /\ req[r].on \in Sessions /\ req[r].rest = {}
          /\ req[r] \in Request
      BY Fields DEF ChunkSave, Base, TypeOK, Known, At, Cancelling
    <2>2. req[r].count + 1 \in Nat /\ req[r].bytes + req[r].len \in Nat /\ req[r].list \in SUBSET Chunks
      BY Fields DEF ChunkSave, Base, Known, At
    <2> QED
      BY <2>1, <2>2 DEF Idle, Request, Steps, Uploading
  <1> HIDE DEF new
  <1>3. TypeOK'
    BY <1>1, <1>2, Written
       DEF Base, TypeOK, ChunkSave, rowVars, disk, entryVars, client, fixed, SaveList
  <1>4. Known'
    BY <1>1, <1>2, KnownStep DEF ChunkSave, rowVars, Cancelling
  <1>5. Unshared'
    <2>1. \A q \in Reqs \ {r} : At(q, "checked") =>
               req[q].on \notin open' \union orphaned' \union entries'
      BY DEF ChunkSave, rowVars, entryVars, Base, Unshared, Busy
    <2>2. \A s \in Sessions : s \in ({new.on} \union new.rest) =>
               s \in open \/ s \in Busy(r)
      BY <1>2, UploadConstants DEF ChunkSave, Busy
    <2> QED
      BY <1>1, <1>2, <2>1, <2>2, UnsharedStep
  <1> QED
    BY <1>3, <1>4, <1>5 DEF Base, ChunkSave, entryVars, rowVars

LEMMA BaseChunkRefresh ==
    ASSUME Base, NEW r \in Reqs, ChunkRefresh(r)
    PROVE  Base'
  <1>1. PICK new : /\ req' = [req EXCEPT ![r] = new] /\ new \in Request
                   /\ new.rest = {}
                   /\ \/ new = Idle
                      \/ new.pc = "full" /\ new.on = req[r].on /\ req[r].on \in born
    <2>1. CASE count[req[r].on] >= Size
      <3> DEFINE n == [req[r] EXCEPT !.pc = "full", !.bytes = bytes[req[r].on]]
      <3>1. req' = [req EXCEPT ![r] = n]
        BY <2>1 DEF ChunkRefresh
      <3>2. bytes[req[r].on] \in Nat /\ req[r].on \in born /\ req[r].rest = {}
        BY DEF Base, TypeOK, Known, ChunkRefresh, At, Cancelling
      <3>3. n \in Request /\ n.pc = "full" /\ n.on = req[r].on /\ n.rest = {}
        BY <3>2, Fields DEF Base, Request, Steps, Uploading
      <3> HIDE DEF n
      <3> QED
        BY <3>1, <3>2, <3>3
    <2>2. CASE ~(count[req[r].on] >= Size)
      BY <2>2, IdleIs DEF ChunkRefresh, Done
    <2> QED
      BY <2>1, <2>2
  <1>2. TypeOK'
    BY <1>1, Written DEF Base, TypeOK, ChunkRefresh, rowVars, disk, entryVars, client, fixed
  <1>3. Known'
    BY <1>1, IdleIs, KnownStep DEF ChunkRefresh, rowVars
  <1>4. Unshared'
    <2>1. \A s \in Sessions : s \in ({new.on} \union new.rest) =>
               s \in open \/ s \in Busy(r)
      BY <1>1, IdleIs, UploadConstants DEF Busy
    <2> QED
      BY <1>1, <2>1, IdleIs, UnsharedStep DEF ChunkRefresh, rowVars, entryVars, Base, Unshared
  <1> QED
    BY <1>2, <1>3, <1>4 DEF Base, ChunkRefresh, entryVars, rowVars

LEMMA BasePartsComplete ==
    ASSUME Base, NEW r \in Reqs, PartsComplete(r)
    PROVE  Base'
  <1> DEFINE new == [req[r] EXCEPT !.pc = "merged", !.list = {}, !.count = 0]
  <1>1. req' = [req EXCEPT ![r] = new]
    BY DEF PartsComplete
  <1>2. /\ new \in Request
        /\ new.pc = "merged" /\ new.on = req[r].on /\ new.rest = {}
        /\ req[r].on \in born
        /\ req[r].on \in Sessions /\ req[r].list \in SUBSET Chunks
    <2>1. /\ req[r].on \in born /\ req[r].on \in Sessions /\ req[r].rest = {}
          /\ req[r] \in Request
      BY Fields DEF PartsComplete, Base, TypeOK, Known, At, Cancelling
    <2>2. req[r].list \in SUBSET Chunks
      BY Fields DEF PartsComplete, Base, Known, At
    <2> QED
      BY <2>1, <2>2 DEF Idle, Request, Steps, Uploading
  <1> HIDE DEF new
  <1>3. TypeOK'
    BY <1>1, <1>2, Written
       DEF Base, TypeOK, PartsComplete, rowVars, disk, entryVars, client, fixed
  <1>4. Known'
    BY <1>1, <1>2, KnownStep DEF PartsComplete, rowVars, Cancelling
  <1>5. Unshared'
    <2>1. \A q \in Reqs \ {r} : At(q, "checked") =>
               req[q].on \notin open' \union orphaned' \union entries'
      BY DEF PartsComplete, rowVars, entryVars, Base, Unshared, Busy
    <2>2. \A s \in Sessions : s \in ({new.on} \union new.rest) =>
               s \in open \/ s \in Busy(r)
      BY <1>2, UploadConstants DEF PartsComplete, Busy
    <2> QED
      BY <1>1, <1>2, <2>1, <2>2, UnsharedStep
  <1> QED
    BY <1>3, <1>4, <1>5 DEF Base, PartsComplete, entryVars, rowVars

LEMMA BaseComplete ==
    ASSUME Base, NEW r \in Reqs, Complete(r)
    PROVE  Base'
  <1> DEFINE new == Idle
  <1>1. req' = [req EXCEPT ![r] = new]
    BY DEF Complete, Done
  <1>2. /\ new \in Request
        /\ new.pc = "idle" /\ new.on = NoSession /\ new.rest = {}
        /\ req[r].on \in born /\ req[r].pc # "checked"
        /\ req[r].bytes \in Nat
    BY Fields DEF Complete, Base, Known, At, Idle, Request, Steps, Uploading, Cancelling
  <1> HIDE DEF new
  <1>a. used' \in Nat
    BY <1>2, AdjustNat, UploadConstants DEF Complete, Base, TypeOK
  <1>3. TypeOK'
    BY <1>1, <1>2, Written, <1>a
       DEF Base, TypeOK, Complete, rowVars, disk, entryVars, client, fixed, DropRow
  <1>4. Known'
    BY <1>1, <1>2, KnownStep DEF Complete, rowVars, Cancelling
  <1>5. Unshared'
    <2>1. \A q \in Reqs \ {r} : At(q, "checked") =>
               req[q].on \notin open' \union orphaned' \union entries'
      BY DEF Complete, rowVars, entryVars, Base, Unshared, Busy, DropRow
    <2>2. \A s \in Sessions : s \in ({new.on} \union new.rest) =>
               s \in open \/ s \in Busy(r)
      BY <1>2, UploadConstants DEF Complete, Busy
    <2> QED
      BY <1>1, <1>2, <2>1, <2>2, UnsharedStep
  <1> QED
    BY <1>3, <1>4, <1>5 DEF Base, Complete, entryVars, rowVars, DropRow

LEMMA BasePurgeParent ==
    ASSUME Base, NEW s \in Sessions, PurgeParent(s)
    PROVE  Base'
  <1>1. TypeOK'
    BY UploadConstants DEF Base, TypeOK, PurgeParent, DropRow, disk, entryVars, client, fixed
  <1>2. Known'
    BY DEF Base, Known, PurgeParent, Cancelling, Chunks
  <1>3. Unshared'
    BY DEF Base, Unshared, PurgeParent, DropRow, entryVars, At, Busy
  <1> QED
    BY <1>1, <1>2, <1>3 DEF Base, PurgeParent, DropRow, entryVars

LEMMA BasePurgeEntry ==
    ASSUME Base, NEW s \in Sessions, PurgeEntry(s)
    PROVE  Base'
  <1>1. used' \in Nat
    BY AdjustNat DEF PurgeEntry, Base, TypeOK
  <1>2. TypeOK'
    BY <1>1 DEF Base, TypeOK, PurgeEntry, rowVars, client, fixed
  <1>3. Known'
    BY DEF Base, Known, PurgeEntry, rowVars, Cancelling, Chunks
  <1>4. Unshared'
    BY DEF Base, Unshared, PurgeEntry, rowVars, At, Busy
  <1> QED
    BY <1>2, <1>3, <1>4 DEF Base, PurgeEntry, rowVars

LEMMA BaseCalibrateRead ==
    ASSUME Base, NEW r \in Reqs, CalibrateRead(r)
    PROVE  Base'
  <1> DEFINE new == [Idle EXCEPT !.pc = "calibrate", !.count = Charge(entries)]
  <1>1. req' = [req EXCEPT ![r] = new]
    BY DEF CalibrateRead
  <1>2. /\ new \in Request
        /\ new.pc = "calibrate" /\ new.on = NoSession /\ new.rest = {}
    BY Fields, ChargeNat DEF CalibrateRead, Base, Known, At, Idle, Request, Steps, Uploading, Cancelling, TypeOK
  <1> HIDE DEF new
  <1>3. TypeOK'
    BY <1>1, <1>2, Written
       DEF Base, TypeOK, CalibrateRead, rowVars, disk, entryVars, client, fixed
  <1>4. Known'
    BY <1>1, <1>2, KnownStep DEF CalibrateRead, rowVars, Cancelling
  <1>5. Unshared'
    <2>1. \A q \in Reqs \ {r} : At(q, "checked") =>
               req[q].on \notin open' \union orphaned' \union entries'
      BY DEF CalibrateRead, rowVars, entryVars, Base, Unshared, Busy
    <2>2. \A s \in Sessions : s \in ({new.on} \union new.rest) =>
               s \in open \/ s \in Busy(r)
      BY <1>2, UploadConstants DEF CalibrateRead, Busy
    <2> QED
      BY <1>1, <1>2, <2>1, <2>2, UnsharedStep
  <1> QED
    BY <1>3, <1>4, <1>5 DEF Base, CalibrateRead, entryVars, rowVars

LEMMA BaseCalibrateSave ==
    ASSUME Base, NEW r \in Reqs, CalibrateSave(r)
    PROVE  Base'
  <1> DEFINE new == Idle
  <1>1. req' = [req EXCEPT ![r] = new]
    BY DEF CalibrateSave, Done
  <1>2. /\ new \in Request
        /\ new.pc = "idle" /\ new.on = NoSession /\ new.rest = {}
        /\ req[r].count \in Nat
    BY Fields DEF CalibrateSave, Base, Known, At, Idle, Request, Steps, Uploading, Cancelling
  <1> HIDE DEF new
  <1>3. TypeOK'
    BY <1>1, <1>2, Written
       DEF Base, TypeOK, CalibrateSave, rowVars, disk, entryVars, client, fixed
  <1>4. Known'
    BY <1>1, <1>2, KnownStep DEF CalibrateSave, rowVars, Cancelling
  <1>5. Unshared'
    <2>1. \A q \in Reqs \ {r} : At(q, "checked") =>
               req[q].on \notin open' \union orphaned' \union entries'
      BY DEF CalibrateSave, rowVars, entryVars, Base, Unshared, Busy
    <2>2. \A s \in Sessions : s \in ({new.on} \union new.rest) =>
               s \in open \/ s \in Busy(r)
      BY <1>2, UploadConstants DEF CalibrateSave, Busy
    <2> QED
      BY <1>1, <1>2, <2>1, <2>2, UnsharedStep
  <1> QED
    BY <1>3, <1>4, <1>5 DEF Base, CalibrateSave, entryVars, rowVars

LEMMA BaseFail ==
    ASSUME Base, NEW r \in Reqs, Fail(r)
    PROVE  Base'
  <1> DEFINE new == Idle
  <1>1. req' = [req EXCEPT ![r] = new]
    BY DEF Fail, Done
  <1>2. /\ new \in Request
        /\ new.pc = "idle" /\ new.on = NoSession /\ new.rest = {}
    BY Fields DEF Fail, Base, Known, At, Idle, Request, Steps, Uploading, Cancelling
  <1> HIDE DEF new
  <1>3. TypeOK'
    BY <1>1, <1>2, Written
       DEF Base, TypeOK, Fail, rowVars, disk, entryVars, client, fixed
  <1>4. Known'
    BY <1>1, <1>2, KnownStep DEF Fail, rowVars, Cancelling
  <1>5. Unshared'
    <2>1. \A q \in Reqs \ {r} : At(q, "checked") =>
               req[q].on \notin open' \union orphaned' \union entries'
      BY DEF Fail, rowVars, entryVars, Base, Unshared, Busy
    <2>2. \A s \in Sessions : s \in ({new.on} \union new.rest) =>
               s \in open \/ s \in Busy(r)
      BY <1>2, UploadConstants DEF Fail, Busy
    <2> QED
      BY <1>1, <1>2, <2>1, <2>2, UnsharedStep
  <1> QED
    BY <1>3, <1>4, <1>5 DEF Base, Fail, entryVars, rowVars

LEMMA BaseStep == Base /\ [Next]_vars => Base'
  <1> SUFFICES ASSUME Base, [Next]_vars PROVE Base'
    OBVIOUS
  <1>1. CASE UNCHANGED vars
    BY <1>1 DEF Base, TypeOK, Known, Unshared, At, Busy, Chunks, vars, rowVars, disk, entryVars, client, fixed
  <1>2. CASE Next
    BY <1>2, BaseCreateCheck, BaseCreateCommit, BaseCancelRead, BaseClearRead, BaseCancelAbort, BaseCancelRelease, BaseCancelDelete,
       BaseChunkRead, BaseChunkLook, BaseChunkWrite, BasePartUpload, BaseChunkSave, BaseChunkRefresh, BasePartsComplete, BaseComplete,
       BasePurgeParent, BasePurgeEntry, BaseCalibrateRead, BaseCalibrateSave, BaseFail DEF Next
  <1> QED
    BY <1>1, <1>2

LEMMA BaseInit == Init => Base
  BY IdleIs, UploadConstants
     DEF Init, Base, TypeOK, Known, Unshared, At, Cancelling

\* The rows, the storage and the requests have their types, and no session is at
\* once purged and open, whatever order the steps of any number of requests take.
THEOREM UploadsTypeOK == Spec => []TypeOK
  <1>1. Base => TypeOK
    BY DEF Base
  <1> QED
    BY <1>1, BaseInit, BaseStep, PTL DEF Spec

-----------------------------------------------------------------------------
(* What the user is charged *)

\* A cancel has its sessions to itself, as long as they are open.
CancelAlone == \A r \in Reqs : req[r].pc \in Cancelling =>
            /\ Busy(r) \subseteq open
            /\ \A q \in Reqs \ {r} : Busy(q) \intersect Busy(r) = {}

\* The session of a chunk request is open, or is known to have gone.
Placed == \A r \in Reqs : req[r].pc \in Uploading =>
            req[r].on \in open \union entries \union orphaned

\* A calibration runs alone, and its sum stays true.
CalibrateAlone == \A r \in Reqs : At(r, "calibrate") =>
            /\ open = {}
            /\ req[r].count = Charge(entries)
            /\ \A q \in Reqs \ {r} : At(q, "idle")

Kept == CancelAlone /\ Placed /\ CalibrateAlone /\ Charged

Accounts == Base /\ (calm => Kept)

GivenBack == {req[r].on : r \in {q \in Reqs : At(q, "released")}}

\* One session more reserves Size more.
LEMMA Times ==
    ASSUME NEW n \in Nat, NEW k \in Nat
    PROVE  n * k \in Nat /\ n * (k + 1) = n * k + n
  OBVIOUS

\* The sessions with a reservation can be counted.
LEMMA ReservedNat ==
    ASSUME TypeOK
    PROVE  /\ IsFiniteSet(Reserved) /\ Cardinality(Reserved) \in Nat
           /\ Reserved = open \ GivenBack
           /\ Size * Cardinality(Reserved) \in Nat
  <1>1. Reserved \in SUBSET Sessions
    BY DEF TypeOK, Reserved
  <1>2. IsFiniteSet(Reserved) /\ Cardinality(Reserved) \in Nat
    BY <1>1, UploadConstants, FS_Subset, FS_CardinalityType
  <1> QED
    BY <1>2, UploadConstants, Times DEF Reserved, GivenBack

\* How a step of r changes the reservations that are given back already.
LEMMA GivenBackStep ==
    ASSUME TypeOK, NEW r \in Reqs, NEW new, req' = [req EXCEPT ![r] = new]
    PROVE  /\ ~At(r, "released") /\ new.pc # "released" => GivenBack' = GivenBack
           /\ ~At(r, "released") /\ new.pc = "released" =>
                 GivenBack' = GivenBack \union {new.on}
           /\ At(r, "released") /\ new.pc # "released" =>
                 GivenBack' \union {req[r].on} = GivenBack
  <1>1. req'[r] = new /\ \A q \in Reqs \ {r} : req'[q] = req[q]
    BY Written
  <1>2. \A x : x \in GivenBack <=> \E q \in Reqs : req[q].pc = "released" /\ x = req[q].on
    BY DEF GivenBack, At
  <1>3. \A x : x \in GivenBack' <=> \E q \in Reqs : req'[q].pc = "released" /\ x = req'[q].on
    BY DEF GivenBack, At
  <1> HIDE DEF GivenBack
  <1>4. ASSUME ~At(r, "released"), new.pc # "released" PROVE GivenBack' = GivenBack
    <2>1. \A x : x \in GivenBack' <=> x \in GivenBack
      BY <1>1, <1>2, <1>3, <1>4 DEF At
    <2> QED
      BY <2>1
  <1>5. ASSUME ~At(r, "released"), new.pc = "released"
        PROVE  GivenBack' = GivenBack \union {new.on}
    <2>1. \A x : x \in GivenBack' <=> x \in GivenBack \/ x = new.on
      BY <1>1, <1>2, <1>3, <1>5 DEF At
    <2> QED
      BY <2>1
  <1>6. ASSUME At(r, "released"), new.pc # "released"
        PROVE  GivenBack' \union {req[r].on} = GivenBack
    <2>1. \A x : x \in GivenBack <=> x \in GivenBack' \/ x = req[r].on
      BY <1>1, <1>2, <1>3, <1>6 DEF At
    <2> QED
      BY <2>1
  <1> QED
    BY <1>4, <1>5, <1>6

\* A request goes on and the others that cancel keep their sessions to themselves.
LEMMA CancelAloneStep ==
    ASSUME Accounts, calm, NEW r \in Reqs, NEW new, req' = [req EXCEPT ![r] = new],
           \A q \in Reqs \ {r} : req[q].pc \in Cancelling =>
                /\ Busy(q) \subseteq open'
                /\ Busy(q) \intersect ({new.on} \union new.rest) = {},
           new.pc \in Cancelling =>
                /\ {new.on} \union new.rest \subseteq open'
                /\ \A q \in Reqs \ {r} : Busy(q) \intersect ({new.on} \union new.rest) = {}
    PROVE  CancelAlone'
  <1>1. req'[r] = new /\ \A q \in Reqs \ {r} : req'[q] = req[q]
    BY Written DEF Accounts, Base
  <1>2. /\ Busy(r)' = {new.on} \union new.rest
        /\ \A q \in Reqs \ {r} : Busy(q)' = Busy(q)
    BY <1>1 DEF Busy
  <1> SUFFICES ASSUME NEW q \in Reqs, req'[q].pc \in Cancelling
               PROVE  /\ Busy(q)' \subseteq open'
                      /\ \A p \in Reqs \ {q} : Busy(p)' \intersect Busy(q)' = {}
    BY DEF CancelAlone, Cancelling
  <1>3. CASE q = r
    BY <1>1, <1>2, <1>3
  <1>4. CASE q # r
    <2>1. Busy(q)' = Busy(q) /\ req[q].pc \in Cancelling
      BY <1>1, <1>2, <1>4
    <2>2. \A p \in Reqs \ {q} : Busy(p) \intersect Busy(q) = {}
      BY <2>1 DEF Accounts, Kept, CancelAlone
    <2> QED
      BY <1>2, <1>4, <2>1, <2>2
  <1> QED
    BY <1>3, <1>4

\* A request goes on and the sessions of the others stay where they are.
LEMMA PlacedStep ==
    ASSUME Accounts, calm, NEW r \in Reqs, NEW new, req' = [req EXCEPT ![r] = new],
           \A q \in Reqs \ {r} : req[q].pc \in Uploading =>
                req[q].on \in open' \union entries' \union orphaned',
           new.pc \in Uploading => new.on \in open' \union entries' \union orphaned'
    PROVE  Placed'
  <1>1. req'[r] = new /\ \A q \in Reqs \ {r} : req'[q] = req[q]
    BY Written DEF Accounts, Base
  <1> QED
    BY <1>1 DEF Placed, Uploading

\* Only a calibration's first step leaves a calibration running.
LEMMA NoCalibration ==
    ASSUME Accounts, calm, NEW r \in Reqs, NEW new, req' = [req EXCEPT ![r] = new],
           new.pc # "calibrate",
           \/ ~At(r, "idle")
           \/ open # {}
           \/ \A q \in Reqs \ {r} : ~At(q, "calibrate")
    PROVE  CalibrateAlone'
  <1>1. req'[r] = new /\ \A q \in Reqs \ {r} : req'[q] = req[q]
    BY Written DEF Accounts, Base
  <1> QED
    BY <1>1 DEF CalibrateAlone, Accounts, Kept, At

\* A step that leaves rows, entries and charges alone.
LEMMA ChargedSame ==
    ASSUME Accounts, calm, Reserved' = Reserved,
           UNCHANGED <<used, leaked, entries, length, calm>>
    PROVE  Charged'
  <1>1. Charge(entries)' = Charge(entries)
    BY ChargeIs, ChargeNext
  <1> QED
    BY <1>1 DEF Charged, Accounts, Kept

\* A request that cancels has its sessions in the table, and to itself.
LEMMA CancelOwns ==
    ASSUME Accounts, calm, NEW r \in Reqs, req[r].pc \in Cancelling
    PROVE  /\ req[r].on \in open /\ req[r].rest \subseteq open /\ req[r].on \notin req[r].rest
           /\ ~At(r, "released") => req[r].on \notin GivenBack
           /\ \A q \in Reqs \ {r} : Busy(q) \intersect Busy(r) = {}
  <1>1. req[r].on \notin req[r].rest
    BY DEF Accounts, Base, Known
  <1>2. /\ Busy(r) \subseteq open
        /\ \A q \in Reqs \ {r} : Busy(q) \intersect Busy(r) = {}
    BY DEF Accounts, Kept, CancelAlone
  <1>3. \A q \in Reqs \ {r} : req[q].on # req[r].on
    BY <1>2 DEF Busy
  <1> QED
    BY <1>1, <1>2, <1>3 DEF Busy, GivenBack, At

\* A request goes on, or ends, and touches neither rows, nor entries, nor charges.
LEMMA QuietStep ==
    ASSUME Accounts, calm, NEW r \in Reqs, NEW new, req' = [req EXCEPT ![r] = new],
           UNCHANGED <<used, leaked, entries, length, open, orphaned, calm>>,
           req[r].pc \notin {"idle", "released"}, new.pc \notin {"calibrate", "released"},
           {new.on} \union new.rest \subseteq Busy(r) \union {NoSession},
           new.pc \in Uploading => req[r].pc \in Uploading /\ new.on = req[r].on,
           new.pc \in Cancelling =>
                req[r].pc \in Cancelling /\ {new.on} \union new.rest \subseteq Busy(r)
    PROVE  Kept'
  <1>1. \A q \in Reqs : req[q].pc \in Cancelling =>
            Busy(q) \subseteq open /\ NoSession \notin Busy(q)
    BY UploadConstants DEF Accounts, Kept, CancelAlone, Base, TypeOK
  <1>2. CancelAlone'
    <2>1. ASSUME NEW q \in Reqs \ {r}, req[q].pc \in Cancelling
          PROVE  /\ Busy(q) \subseteq open'
                 /\ Busy(q) \intersect ({new.on} \union new.rest) = {}
      <3>1. Busy(q) \intersect Busy(r) = {}
        BY <2>1 DEF Accounts, Kept, CancelAlone
      <3> QED
        BY <1>1, <2>1, <3>1
    <2>2. ASSUME new.pc \in Cancelling
          PROVE  /\ {new.on} \union new.rest \subseteq open'
                 /\ \A q \in Reqs \ {r} : Busy(q) \intersect ({new.on} \union new.rest) = {}
      <3>1. \A q \in Reqs \ {r} : Busy(q) \intersect Busy(r) = {}
        BY <2>2 DEF Accounts, Kept, CancelAlone
      <3> QED
        BY <1>1, <2>2, <3>1
    <2> QED
      BY <2>1, <2>2, CancelAloneStep
  <1>3. Placed'
    <2>1. \A q \in Reqs : req[q].pc \in Uploading =>
              req[q].on \in open' \union entries' \union orphaned'
      BY DEF Accounts, Kept, Placed
    <2> QED
      BY <2>1, PlacedStep
  <1>4. CalibrateAlone'
    BY NoCalibration DEF At
  <1>5. Charged'
    <2>1. GivenBack' = GivenBack
      BY GivenBackStep DEF At, Accounts, Base
    <2>2. Reserved' = Reserved
      BY <2>1 DEF Reserved, GivenBack
    <2> QED
      BY <2>2, ChargedSame
  <1> QED
    BY <1>2, <1>3, <1>4, <1>5 DEF Kept

-----------------------------------------------------------------------------
(* Kept is inductive *)

LEMMA KeptCancelAbort ==
    ASSUME Accounts, calm, NEW r \in Reqs, CancelAbort(r)
    PROVE  Kept'
  <1> DEFINE new == [Idle EXCEPT !.pc = "aborted", !.on = req[r].on, !.rest = req[r].rest]
  <1>1. req' = [req EXCEPT ![r] = new]
    BY DEF CancelAbort, Go
  <1>2. new.pc = "aborted" /\ new.on = req[r].on /\ new.rest = req[r].rest
    BY Fields DEF CancelAbort, Idle, Request, At, Accounts, Base
  <1> HIDE DEF new
  <1> QED
    BY <1>1, <1>2, QuietStep DEF CancelAbort, At, Uploading, Cancelling, Busy, rowVars, entryVars, client, fixed

LEMMA KeptChunkLook ==
    ASSUME Accounts, calm, NEW r \in Reqs, ChunkLook(r)
    PROVE  Kept'
  <1> DEFINE new == [req[r] EXCEPT !.pc = "looked", !.wb = req[r].on \notin stored]
  <1>1. req' = [req EXCEPT ![r] = new]
    BY DEF ChunkLook
  <1>2. new.pc = "looked" /\ new.on = req[r].on /\ new.rest = req[r].rest
    BY Fields DEF ChunkLook, Idle, Request, At, Accounts, Base
  <1> HIDE DEF new
  <1> QED
    BY <1>1, <1>2, QuietStep DEF ChunkLook, At, Uploading, Cancelling, Busy, rowVars, entryVars, client, fixed

LEMMA KeptChunkWrite ==
    ASSUME Accounts, calm, NEW r \in Reqs, ChunkWrite(r)
    PROVE  Kept'
  <1> DEFINE new == [req[r] EXCEPT !.pc = "written", !.chunk = 0, !.wb = FALSE]
  <1>1. req' = [req EXCEPT ![r] = new]
    BY DEF ChunkWrite
  <1>2. new.pc = "written" /\ new.on = req[r].on /\ new.rest = req[r].rest
    BY Fields DEF ChunkWrite, Idle, Request, At, Accounts, Base
  <1> HIDE DEF new
  <1> QED
    BY <1>1, <1>2, QuietStep DEF ChunkWrite, At, Uploading, Cancelling, Busy, rowVars, entryVars, client, fixed

LEMMA KeptPartUpload ==
    ASSUME Accounts, calm, NEW r \in Reqs, PartUpload(r)
    PROVE  Kept'
  <1> DEFINE new == [req[r] EXCEPT !.pc = "written", !.chunk = 0, !.list = @ \union {req[r].chunk}]
  <1>1. req' = [req EXCEPT ![r] = new]
    BY DEF PartUpload
  <1>2. new.pc = "written" /\ new.on = req[r].on /\ new.rest = req[r].rest
    BY Fields DEF PartUpload, Idle, Request, At, Accounts, Base
  <1> HIDE DEF new
  <1> QED
    BY <1>1, <1>2, QuietStep DEF PartUpload, At, Uploading, Cancelling, Busy, rowVars, entryVars, client, fixed

LEMMA KeptChunkSave ==
    ASSUME Accounts, calm, NEW r \in Reqs, ChunkSave(r)
    PROVE  Kept'
  <1> DEFINE new == [Idle EXCEPT !.pc = "saved", !.on = req[r].on, !.list = req[r].list,
                               !.count = IF s3 THEN req[r].count + 1 ELSE 0]
  <1>1. req' = [req EXCEPT ![r] = new]
    BY DEF ChunkSave, SaveList
  <1>2. new.pc = "saved" /\ new.on = req[r].on /\ new.rest = {}
    BY Fields DEF ChunkSave, Idle, Request, At, Accounts, Base
  <1> HIDE DEF new
  <1> QED
    BY <1>1, <1>2, QuietStep DEF ChunkSave, At, Uploading, Cancelling, Busy, rowVars, entryVars, client, fixed

LEMMA KeptPartsComplete ==
    ASSUME Accounts, calm, NEW r \in Reqs, PartsComplete(r)
    PROVE  Kept'
  <1> DEFINE new == [req[r] EXCEPT !.pc = "merged", !.list = {}, !.count = 0]
  <1>1. req' = [req EXCEPT ![r] = new]
    BY DEF PartsComplete
  <1>2. new.pc = "merged" /\ new.on = req[r].on /\ new.rest = req[r].rest
    BY Fields DEF PartsComplete, Idle, Request, At, Accounts, Base
  <1> HIDE DEF new
  <1> QED
    BY <1>1, <1>2, QuietStep DEF PartsComplete, At, Uploading, Cancelling, Busy, rowVars, entryVars, client, fixed

LEMMA KeptChunkRefresh ==
    ASSUME Accounts, calm, NEW r \in Reqs, ChunkRefresh(r)
    PROVE  Kept'
  <1>1. PICK new : /\ req' = [req EXCEPT ![r] = new]
                   /\ \/ new = Idle
                      \/ new.pc = "full" /\ new.on = req[r].on /\ new.rest = req[r].rest
    <2>1. CASE count[req[r].on] >= Size
      <3> DEFINE n == [req[r] EXCEPT !.pc = "full", !.bytes = bytes[req[r].on]]
      <3>1. req' = [req EXCEPT ![r] = n]
        BY <2>1 DEF ChunkRefresh
      <3>2. n.pc = "full" /\ n.on = req[r].on /\ n.rest = req[r].rest
        BY Fields DEF Request, Accounts, Base
      <3> HIDE DEF n
      <3> QED
        BY <3>1, <3>2
    <2>2. CASE ~(count[req[r].on] >= Size)
      BY <2>2 DEF ChunkRefresh, Done
    <2> QED
      BY <2>1, <2>2
  <1> QED
    BY <1>1, IdleIs, QuietStep
       DEF ChunkRefresh, At, Uploading, Cancelling, Busy, rowVars, entryVars, client, fixed

LEMMA KeptFail ==
    ASSUME Accounts, calm, NEW r \in Reqs, Fail(r)
    PROVE  Kept'
  <1>1. req' = [req EXCEPT ![r] = Idle]
    BY DEF Fail, Done
  <1> QED
    BY <1>1, IdleIs, QuietStep
       DEF Fail, At, Uploading, Cancelling, rowVars, entryVars, client, fixed

LEMMA KeptCreateCheck ==
    ASSUME Accounts, calm, NEW r \in Reqs, NEW s \in Sessions, CreateCheck(r, s)
    PROVE  Kept'
  <1> DEFINE new == [Idle EXCEPT !.pc = "checked", !.on = s]
  <1>1. req' = [req EXCEPT ![r] = new] /\ At(r, "idle")
    BY DEF CreateCheck
  <1>2. new.pc = "checked" /\ new.on = s /\ new.rest = {}
    BY DEF Idle
  <1> HIDE DEF new
  <1>3. \A q \in Reqs \ {r} : ~At(q, "calibrate")
    BY DEF CreateCheck, StepsElsewhere, At
  <1>4. \A q \in Reqs : req[q].pc \in Cancelling => Busy(q) \subseteq open /\ s \notin open
    BY DEF CreateCheck, Accounts, Kept, CancelAlone, Base, TypeOK
  <1>5. UNCHANGED <<used, leaked, entries, length, open, orphaned, calm>>
    BY DEF CreateCheck, entryVars, client, fixed
  <1>6. CancelAlone'
    <2>2. \A q \in Reqs \ {r} : req[q].pc \in Cancelling =>
              /\ Busy(q) \subseteq open'
              /\ Busy(q) \intersect ({new.on} \union new.rest) = {}
      BY <1>2, <1>4, <1>5
    <2>3. new.pc \in Cancelling =>
              /\ {new.on} \union new.rest \subseteq open'
              /\ \A q \in Reqs \ {r} : Busy(q) \intersect ({new.on} \union new.rest) = {}
      BY <1>2 DEF Cancelling
    <2> QED
      BY <1>1, <2>2, <2>3, CancelAloneStep
  <1>7. Placed'
    BY <1>1, <1>2, <1>5, PlacedStep DEF Uploading, Accounts, Kept, Placed
  <1>8. CalibrateAlone'
    BY <1>1, <1>2, <1>3, NoCalibration
  <1>9. Reserved' = Reserved
    BY <1>1, <1>2, <1>5, GivenBackStep DEF At, Accounts, Base, Reserved, GivenBack
  <1> QED
    BY <1>5, <1>6, <1>7, <1>8, <1>9, ChargedSame DEF Kept

LEMMA KeptCancelRead ==
    ASSUME Accounts, calm, NEW r \in Reqs, NEW s \in Sessions, CancelRead(r, s)
    PROVE  Kept'
  <1> DEFINE new == [Idle EXCEPT !.pc = "cancel", !.on = s]
  <1>1. req' = [req EXCEPT ![r] = new] /\ At(r, "idle") /\ s \in open
    BY DEF CancelRead
  <1>2. new.pc = "cancel" /\ new.on = s /\ new.rest = {}
    BY DEF Idle
  <1> HIDE DEF new
  <1>3. \A q \in Reqs \ {r} : s \notin Busy(q)
    BY DEF CancelRead, StepsOn
  <1>4. UNCHANGED <<used, leaked, entries, length, open, orphaned, calm>>
    BY DEF CancelRead, rowVars, entryVars, client, fixed
  <1>5. CancelAlone'
    <2>1. \A q \in Reqs : req[q].pc \in Cancelling => Busy(q) \subseteq open'
      BY <1>4 DEF Accounts, Kept, CancelAlone
    <2>2. \A q \in Reqs \ {r} : req[q].pc \in Cancelling =>
              /\ Busy(q) \subseteq open'
              /\ Busy(q) \intersect ({new.on} \union new.rest) = {}
      BY <1>2, <1>3, <1>4, <2>1
    <2>3. new.pc \in Cancelling =>
              /\ {new.on} \union new.rest \subseteq open'
              /\ \A q \in Reqs \ {r} : Busy(q) \intersect ({new.on} \union new.rest) = {}
      BY <1>1, <1>2, <1>3, <1>4
    <2> QED
      BY <1>1, <2>2, <2>3, CancelAloneStep
  <1>6. Placed'
    BY <1>1, <1>2, <1>4, PlacedStep DEF Uploading, Accounts, Kept, Placed
  <1>7. CalibrateAlone'
    BY <1>1, <1>2, NoCalibration
  <1>8. Reserved' = Reserved
    BY <1>1, <1>2, <1>4, GivenBackStep DEF At, Accounts, Base, Reserved, GivenBack
  <1> QED
    BY <1>4, <1>5, <1>6, <1>7, <1>8, ChargedSame DEF Kept

LEMMA KeptClearRead ==
    ASSUME Accounts, calm, NEW r \in Reqs, NEW s \in Sessions, ClearRead(r, s)
    PROVE  Kept'
  <1> DEFINE new == [Idle EXCEPT !.pc = "cancel", !.on = s, !.rest = open \ {s}]
  <1>1. req' = [req EXCEPT ![r] = new] /\ At(r, "idle") /\ s \in open
    BY DEF ClearRead
  <1>2. new.pc = "cancel" /\ new.on = s /\ new.rest = open \ {s}
    BY DEF Idle
  <1> HIDE DEF new
  <1>3. \A q \in Reqs \ {r} : open \intersect Busy(q) = {}
    BY DEF ClearRead, StepsOn
  <1>4. UNCHANGED <<used, leaked, entries, length, open, orphaned, calm>>
    BY DEF ClearRead, rowVars, entryVars, client, fixed
  <1>5. CancelAlone'
    <2>1. \A q \in Reqs : req[q].pc \in Cancelling => Busy(q) \subseteq open'
      BY <1>4 DEF Accounts, Kept, CancelAlone
    <2>2. \A q \in Reqs \ {r} : req[q].pc \in Cancelling =>
              /\ Busy(q) \subseteq open'
              /\ Busy(q) \intersect ({new.on} \union new.rest) = {}
      BY <1>2, <1>3, <1>4, <2>1
    <2>3. new.pc \in Cancelling =>
              /\ {new.on} \union new.rest \subseteq open'
              /\ \A q \in Reqs \ {r} : Busy(q) \intersect ({new.on} \union new.rest) = {}
      BY <1>1, <1>2, <1>3, <1>4
    <2> QED
      BY <1>1, <2>2, <2>3, CancelAloneStep
  <1>6. Placed'
    BY <1>1, <1>2, <1>4, PlacedStep DEF Uploading, Accounts, Kept, Placed
  <1>7. CalibrateAlone'
    BY <1>1, <1>2, NoCalibration
  <1>8. Reserved' = Reserved
    BY <1>1, <1>2, <1>4, GivenBackStep DEF At, Accounts, Base, Reserved, GivenBack
  <1> QED
    BY <1>4, <1>5, <1>6, <1>7, <1>8, ChargedSame DEF Kept

LEMMA KeptChunkRead ==
    ASSUME Accounts, calm, NEW r \in Reqs, NEW s \in Sessions, NEW i \in Chunks,
           NEW l \in Lengths, ChunkRead(r, s, i, l)
    PROVE  Kept'
  <1> DEFINE new == [pc |-> "read", on |-> s, chunk |-> i, len |-> l, count |-> count[s],
                     bytes |-> bytes[s], list |-> etags[s], wb |-> FALSE, rest |-> {}]
  <1>1. req' = [req EXCEPT ![r] = new] /\ At(r, "idle") /\ s \in open
    BY DEF ChunkRead
  <1>2. new.pc = "read" /\ new.on = s /\ new.rest = {}
    OBVIOUS
  <1> HIDE DEF new
  <1>3. \A q \in Reqs \ {r} : req[q].pc \in Cancelling => s \notin Busy(q)
    BY DEF ChunkRead, StepsOn
  <1>4. UNCHANGED <<used, leaked, entries, length, open, orphaned, calm>>
    BY DEF ChunkRead, rowVars, entryVars, fixed
  <1>5. CancelAlone'
    <2>1. \A q \in Reqs : req[q].pc \in Cancelling => Busy(q) \subseteq open'
      BY <1>4 DEF Accounts, Kept, CancelAlone
    <2>2. \A q \in Reqs \ {r} : req[q].pc \in Cancelling =>
              /\ Busy(q) \subseteq open'
              /\ Busy(q) \intersect ({new.on} \union new.rest) = {}
      BY <1>2, <1>3, <1>4, <2>1
    <2>3. new.pc \in Cancelling =>
              /\ {new.on} \union new.rest \subseteq open'
              /\ \A q \in Reqs \ {r} : Busy(q) \intersect ({new.on} \union new.rest) = {}
      BY <1>2 DEF Cancelling
    <2> QED
      BY <1>1, <2>2, <2>3, CancelAloneStep
  <1>6. Placed'
    BY <1>1, <1>2, <1>4, PlacedStep DEF Uploading, Accounts, Kept, Placed
  <1>7. CalibrateAlone'
    BY <1>1, <1>2, NoCalibration
  <1>8. Reserved' = Reserved
    BY <1>1, <1>2, <1>4, GivenBackStep DEF At, Accounts, Base, Reserved, GivenBack
  <1> QED
    BY <1>4, <1>5, <1>6, <1>7, <1>8, ChargedSame DEF Kept

\* The reservation is added to the charge.
LEMMA KeptCreateCommit ==
    ASSUME Accounts, calm, NEW r \in Reqs, CreateCommit(r)
    PROVE  Kept'
  <1>1. req' = [req EXCEPT ![r] = Idle] /\ At(r, "checked")
    BY DEF CreateCommit, Done
  <1>2. /\ UNCHANGED <<leaked, entries, length, orphaned, calm>>
        /\ open' = open \union {req[r].on}
    BY DEF CreateCommit, entryVars, client, fixed
  <1>3. /\ req[r].on \notin open /\ req[r].on \in Sessions
        /\ \A q \in Reqs \ {r} : req[r].on \notin Busy(q)
    BY <1>1 DEF Accounts, Base, TypeOK, Known, Unshared, At
  <1>4. CancelAlone'
    <2>1. \A q \in Reqs : req[q].pc \in Cancelling =>
              Busy(q) \subseteq open /\ NoSession \notin Busy(q)
      BY UploadConstants DEF Accounts, Kept, CancelAlone, Base, TypeOK
    <2>2. \A q \in Reqs \ {r} : req[q].pc \in Cancelling =>
              /\ Busy(q) \subseteq open'
              /\ Busy(q) \intersect ({Idle.on} \union Idle.rest) = {}
      BY <1>2, <2>1, IdleIs
    <2>3. Idle.pc \in Cancelling =>
              /\ {Idle.on} \union Idle.rest \subseteq open'
              /\ \A q \in Reqs \ {r} : Busy(q) \intersect ({Idle.on} \union Idle.rest) = {}
      BY IdleIs DEF Cancelling
    <2> QED
      BY <1>1, <2>2, <2>3, CancelAloneStep
  <1>5. Placed'
    BY <1>1, <1>2, IdleIs, PlacedStep DEF Uploading, Accounts, Kept, Placed
  <1>6. CalibrateAlone'
    BY <1>1, IdleIs, NoCalibration DEF At
  <1>7. Reserved' = Reserved \union {req[r].on} /\ req[r].on \notin Reserved
    <2>1. GivenBack' = GivenBack
      BY <1>1, IdleIs, GivenBackStep DEF At, Accounts, Base
    <2>2. req[r].on \notin GivenBack
      BY <1>1, <1>3 DEF GivenBack, At, Busy
    <2> QED
      BY <1>2, <1>3, <2>1, <2>2 DEF Reserved, GivenBack
  <1>8. Cardinality(Reserved') = Cardinality(Reserved) + 1
    BY <1>7, ReservedNat, FS_AddElement DEF Accounts, Base
  <1>9. used' = used + Size
    BY AdjustNat, UploadConstants DEF CreateCommit, Accounts, Base, TypeOK
  <1>10. Charge(entries)' = Charge(entries) /\ Charge(entries) \in Nat
    BY <1>2, ChargeIs, ChargeNext, ChargeNat DEF Accounts, Base, TypeOK
  <1>11. Charged'
    <2>1. used = Charge(entries) + Size * Cardinality(Reserved) + leaked
      BY DEF Accounts, Kept, Charged
    <2>2. Size * Cardinality(Reserved') = Size * Cardinality(Reserved) + Size
      BY <1>8, ReservedNat, Times, UploadConstants DEF Accounts, Base
    <2>3. used' = Charge(entries)' + Size * Cardinality(Reserved') + leaked'
      BY <1>2, <1>9, <1>10, <2>1, <2>2, ReservedNat, UploadConstants DEF Accounts, Base, TypeOK
    <2> QED
      BY <2>3 DEF Charged
  <1> QED
    BY <1>4, <1>5, <1>6, <1>11 DEF Kept

LEMMA KeptCancelRelease ==
    ASSUME Accounts, calm, NEW r \in Reqs, CancelRelease(r)
    PROVE  Kept'
  <1> DEFINE new == [Idle EXCEPT !.pc = "released", !.on = req[r].on, !.rest = req[r].rest]
  <1>1. req' = [req EXCEPT ![r] = new] /\ At(r, "aborted")
    BY DEF CancelRelease, Go
  <1>2. new.pc = "released" /\ new.on = req[r].on /\ new.rest = req[r].rest
    BY DEF Idle
  <1> HIDE DEF new
  <1>3. UNCHANGED <<leaked, entries, length, open, orphaned, calm>>
    BY DEF CancelRelease, rowVars, entryVars, client, fixed
  <1>4. /\ req[r].on \in open /\ req[r].on \notin GivenBack
        /\ \A q \in Reqs \ {r} : Busy(q) \intersect Busy(r) = {}
    BY <1>1, CancelOwns DEF At, Cancelling
  <1>5. CancelAlone'
    <2>1. \A q \in Reqs : req[q].pc \in Cancelling => Busy(q) \subseteq open
      BY DEF Accounts, Kept, CancelAlone
    <2>2. {new.on} \union new.rest = Busy(r)
      BY <1>2 DEF Busy
    <2> QED
      BY <1>1, <1>3, <1>4, <2>1, <2>2, CancelAloneStep DEF At, Cancelling
  <1>6. Placed'
    BY <1>1, <1>2, <1>3, PlacedStep DEF Uploading, Accounts, Kept, Placed
  <1>7. CalibrateAlone'
    BY <1>1, <1>2, NoCalibration DEF At
  <1>8. Reserved' = Reserved \ {req[r].on} /\ req[r].on \in Reserved
    <2>1. GivenBack' = GivenBack \union {req[r].on}
      BY <1>1, <1>2, GivenBackStep DEF At, Accounts, Base
    <2> QED
      BY <1>3, <1>4, <2>1 DEF Reserved, GivenBack
  <1>9. Cardinality(Reserved) = Cardinality(Reserved') + 1 /\ Cardinality(Reserved') \in Nat
    <2>1. Cardinality(Reserved') = Cardinality(Reserved) - 1
      BY <1>8, ReservedNat, FS_RemoveElement DEF Accounts, Base
    <2>2. IsFiniteSet(Reserved')
      BY <1>8, ReservedNat, FS_RemoveElement DEF Accounts, Base
    <2> QED
      BY <2>1, <2>2, ReservedNat, FS_CardinalityType DEF Accounts, Base
  <1>10. Charge(entries)' = Charge(entries) /\ Charge(entries) \in Nat
    BY <1>3, ChargeIs, ChargeNext, ChargeNat DEF Accounts, Base, TypeOK
  <1>11. Charged'
    <2>1. used = Charge(entries) + Size * Cardinality(Reserved) + leaked
      BY DEF Accounts, Kept, Charged
    <2>2. /\ Size * Cardinality(Reserved) = Size * Cardinality(Reserved') + Size
          /\ Size * Cardinality(Reserved') \in Nat
      BY <1>9, Times, UploadConstants
    <2>3. used \in Nat /\ leaked \in Nat /\ Size \in Nat
      BY UploadConstants DEF Accounts, Base, TypeOK
    <2>4. used + (-Size) >= 0
      BY <1>10, <2>1, <2>2, <2>3
    <2>5. used' = used + (-Size)
      BY <2>3, <2>4, AdjustNat DEF CancelRelease
    <2>6. used' = Charge(entries)' + Size * Cardinality(Reserved') + leaked'
      BY <1>3, <1>10, <2>1, <2>2, <2>3, <2>5
    <2> QED
      BY <2>6 DEF Charged
  <1> QED
    BY <1>5, <1>6, <1>7, <1>11 DEF Kept

\* The row goes after its reservation was given back: no charge changes.
LEMMA KeptCancelDelete ==
    ASSUME Accounts, calm, NEW r \in Reqs, CancelDelete(r)
    PROVE  Kept'
  <1>1. PICK new : /\ req' = [req EXCEPT ![r] = new]
                   /\ \/ new = Idle
                      \/ /\ new.pc = "cancel" /\ new.on \in req[r].rest
                         /\ new.rest = req[r].rest \ {new.on}
    <2>1. CASE req[r].rest = {}
      BY <2>1 DEF CancelDelete, Done
    <2>2. CASE req[r].rest # {}
      <3>1. PICK s \in req[r].rest : req' = [req EXCEPT ![r] =
                 [Idle EXCEPT !.pc = "cancel", !.on = s, !.rest = req[r].rest \ {s}]]
        BY <2>2 DEF CancelDelete
      <3> DEFINE n == [Idle EXCEPT !.pc = "cancel", !.on = s, !.rest = req[r].rest \ {s}]
      <3>2. n.pc = "cancel" /\ n.on = s /\ n.rest = req[r].rest \ {s}
        BY DEF Idle
      <3> HIDE DEF n
      <3> QED
        BY <3>1, <3>2 DEF n
    <2> QED
      BY <2>1, <2>2
  <1>2. /\ UNCHANGED <<used, leaked, entries, length, orphaned, calm>>
        /\ open' = open \ {req[r].on} /\ At(r, "released")
    BY DEF CancelDelete, DropRow, entryVars, client, fixed
  <1>3. /\ req[r].on \in open /\ req[r].rest \subseteq open /\ req[r].on \notin req[r].rest
        /\ \A q \in Reqs \ {r} : Busy(q) \intersect Busy(r) = {}
    BY <1>2, CancelOwns DEF At, Cancelling
  <1>4. CancelAlone'
    <2>1. \A q \in Reqs \ {r} : req[q].pc \in Cancelling =>
              Busy(q) \subseteq open' /\ NoSession \notin Busy(q)
      BY <1>2, <1>3, UploadConstants DEF Accounts, Kept, CancelAlone, Base, TypeOK, Busy
    <2>2. {new.on} \union new.rest \subseteq req[r].rest \union {NoSession}
      BY <1>1, IdleIs
    <2>3. \A q \in Reqs \ {r} : req[q].pc \in Cancelling =>
              /\ Busy(q) \subseteq open'
              /\ Busy(q) \intersect ({new.on} \union new.rest) = {}
      BY <1>3, <2>1, <2>2 DEF Busy
    <2>4. new.pc \in Cancelling =>
              /\ {new.on} \union new.rest \subseteq open'
              /\ \A q \in Reqs \ {r} : Busy(q) \intersect ({new.on} \union new.rest) = {}
      BY <1>1, <1>2, <1>3, IdleIs DEF Cancelling, Busy
    <2> QED
      BY <1>1, <2>3, <2>4, CancelAloneStep
  <1>5. Placed'
    <2>1. \A q \in Reqs \ {r} : req[q].pc \in Uploading =>
              req[q].on \in open' \union entries' \union orphaned'
      BY <1>2, <1>3 DEF Accounts, Kept, Placed, Busy
    <2> QED
      BY <1>1, <2>1, IdleIs, PlacedStep DEF Uploading
  <1>6. CalibrateAlone'
    BY <1>1, <1>2, IdleIs, NoCalibration DEF At
  <1>7. Reserved' = Reserved
    <2>1. GivenBack' \union {req[r].on} = GivenBack
      BY <1>1, <1>2, IdleIs, GivenBackStep DEF Accounts, Base
    <2> QED
      BY <1>2, <2>1 DEF Reserved, GivenBack
  <1> QED
    BY <1>2, <1>4, <1>5, <1>6, <1>7, ChargedSame DEF Kept

LEMMA KeptComplete ==
    ASSUME Accounts, calm, NEW r \in Reqs, Complete(r)
    PROVE  Kept'
  <1> DEFINE s == req[r].on
             n == req[r].bytes
  <1>1. req' = [req EXCEPT ![r] = Idle] /\ req[r].pc \in {"full", "merged"}
    BY DEF Complete, Done, At
  <1>2. /\ UNCHANGED <<leaked, orphaned, calm>>
        /\ open' = open \ {s} /\ entries' = entries \union {s} /\ s \notin entries \union orphaned
        /\ length' = [length EXCEPT ![s] = n]
    BY DEF Complete, DropRow, client, fixed
  <1>3. s \in open /\ s \in Sessions /\ n \in Nat /\ s \in Busy(r)
    BY <1>1, <1>2, Fields DEF Accounts, Kept, Placed, Uploading, Base, TypeOK, Busy
  <1>4. \A q \in Reqs : req[q].pc \in Cancelling => q # r /\ s \notin Busy(q)
    BY <1>1, <1>3 DEF Accounts, Kept, CancelAlone, Cancelling
  <1>5. CancelAlone'
    <2>1. \A q \in Reqs : req[q].pc \in Cancelling =>
              Busy(q) \subseteq open' /\ NoSession \notin Busy(q)
      BY <1>2, <1>4, UploadConstants DEF Accounts, Kept, CancelAlone, Base, TypeOK
    <2>2. \A q \in Reqs \ {r} : req[q].pc \in Cancelling =>
              /\ Busy(q) \subseteq open'
              /\ Busy(q) \intersect ({Idle.on} \union Idle.rest) = {}
      BY <2>1, IdleIs
    <2>3. Idle.pc \in Cancelling =>
              /\ {Idle.on} \union Idle.rest \subseteq open'
              /\ \A q \in Reqs \ {r} : Busy(q) \intersect ({Idle.on} \union Idle.rest) = {}
      BY IdleIs DEF Cancelling
    <2> QED
      BY <1>1, <2>2, <2>3, CancelAloneStep
  <1>6. Placed'
    <2>1. \A q \in Reqs \ {r} : req[q].pc \in Uploading =>
              req[q].on \in open' \union entries' \union orphaned'
      BY <1>2 DEF Accounts, Kept, Placed
    <2> QED
      BY <1>1, <2>1, IdleIs, PlacedStep DEF Uploading
  <1>7. CalibrateAlone'
    BY <1>1, IdleIs, NoCalibration DEF At
  <1>8. Reserved' = Reserved \ {s} /\ s \in Reserved
    <2>1. GivenBack' = GivenBack
      BY <1>1, IdleIs, GivenBackStep DEF At, Accounts, Base
    <2>2. s \notin GivenBack
      BY <1>4 DEF GivenBack, At, Busy, Cancelling
    <2> QED
      BY <1>2, <1>3, <2>1, <2>2 DEF Reserved, GivenBack
  <1>9. Cardinality(Reserved) = Cardinality(Reserved') + 1 /\ Cardinality(Reserved') \in Nat
    <2>1. /\ Cardinality(Reserved') = Cardinality(Reserved) - 1
          /\ IsFiniteSet(Reserved')
      BY <1>8, ReservedNat, FS_RemoveElement DEF Accounts, Base
    <2> QED
      BY <2>1, ReservedNat, FS_CardinalityType DEF Accounts, Base
  <1>10. Charge(entries)' = Charge(entries) + n /\ Charge(entries) \in Nat
    <2>1. IsFiniteSet(entries) /\ s \notin entries /\ entries \in SUBSET Sessions
      BY <1>2, FS_Subset, UploadConstants DEF Accounts, Base, TypeOK
    <2>2. /\ \A x \in entries : length'[x] = length[x]
          /\ \A x \in entries \union {s} : length'[x] \in Nat
          /\ length'[s] = n
      BY <1>2, <1>3, <2>1 DEF Accounts, Base, TypeOK
    <2> HIDE DEF s, n
    <2>3. SumOf(length', entries \union {s}) = SumOf(length', entries) + length'[s]
      BY <2>1, <2>2, SumWith
    <2>4. SumOf(length', entries) = SumOf(length, entries)
      BY <2>1, <2>2, SumAgree
    <2>5. Charge(entries) \in Nat
      BY <2>1, ChargeNat DEF Accounts, Base
    <2> QED
      BY <1>2, <2>2, <2>3, <2>4, <2>5, ChargeIs, ChargeNext
  <1>11. Charged'
    <2>1. used = Charge(entries) + Size * Cardinality(Reserved) + leaked
      BY DEF Accounts, Kept, Charged
    <2>2. /\ Size * Cardinality(Reserved) = Size * Cardinality(Reserved') + Size
          /\ Size * Cardinality(Reserved') \in Nat
      BY <1>9, Times, UploadConstants
    <2>3. used \in Nat /\ leaked \in Nat /\ Size \in Nat /\ n - Size \in Int
      BY <1>3, UploadConstants DEF Accounts, Base, TypeOK
    <2>4. used + (n - Size) >= 0
      BY <1>3, <1>10, <2>1, <2>2, <2>3
    <2>5. used' = used + (n - Size)
      BY <2>3, <2>4, AdjustNat DEF Complete
    <2>6. used' = Charge(entries)' + Size * Cardinality(Reserved') + leaked'
      BY <1>2, <1>3, <1>10, <2>1, <2>2, <2>3, <2>5
    <2> QED
      BY <2>6 DEF Charged
  <1> QED
    BY <1>5, <1>6, <1>7, <1>11 DEF Kept

LEMMA KeptPurgeParent ==
    ASSUME Accounts, calm, NEW s \in Sessions, PurgeParent(s)
    PROVE  Kept'
  <1>1. /\ UNCHANGED <<used, entries, length, req, calm>>
        /\ open' = open \ {s} /\ orphaned' = orphaned \union {s} /\ leaked' = leaked + Size
        /\ s \in open
        /\ \A q \in Reqs : req[q].pc \in Cancelling => s \notin Busy(q)
    BY DEF PurgeParent, DropRow, entryVars, client, fixed
  <1>2. CancelAlone'
    BY <1>1 DEF Accounts, Kept, CancelAlone, Busy, Cancelling
  <1>3. Placed'
    BY <1>1 DEF Accounts, Kept, Placed, Uploading
  <1>4. CalibrateAlone'
    BY <1>1 DEF Accounts, Kept, CalibrateAlone, At
  <1>5. Reserved' = Reserved \ {s} /\ s \in Reserved
    BY <1>1 DEF Reserved, At, Busy, Cancelling
  <1>6. Cardinality(Reserved) = Cardinality(Reserved') + 1 /\ Cardinality(Reserved') \in Nat
    <2>1. /\ Cardinality(Reserved') = Cardinality(Reserved) - 1
          /\ IsFiniteSet(Reserved')
      BY <1>5, ReservedNat, FS_RemoveElement DEF Accounts, Base
    <2> QED
      BY <2>1, ReservedNat, FS_CardinalityType DEF Accounts, Base
  <1>7. Charge(entries)' = Charge(entries) /\ Charge(entries) \in Nat
    BY <1>1, ChargeIs, ChargeNext, ChargeNat DEF Accounts, Base, TypeOK
  <1>8. Charged'
    <2>1. used = Charge(entries) + Size * Cardinality(Reserved) + leaked
      BY DEF Accounts, Kept, Charged
    <2>2. /\ Size * Cardinality(Reserved) = Size * Cardinality(Reserved') + Size
          /\ Size * Cardinality(Reserved') \in Nat
      BY <1>6, Times, UploadConstants
    <2>3. leaked \in Nat /\ Size \in Nat
      BY UploadConstants DEF Accounts, Base, TypeOK
    <2>4. used' = Charge(entries)' + Size * Cardinality(Reserved') + leaked'
      BY <1>1, <1>7, <2>1, <2>2, <2>3
    <2> QED
      BY <2>4 DEF Charged
  <1> QED
    BY <1>2, <1>3, <1>4, <1>8 DEF Kept

LEMMA KeptPurgeEntry ==
    ASSUME Accounts, calm, NEW s \in Sessions, PurgeEntry(s)
    PROVE  Kept'
  <1>1. /\ UNCHANGED <<leaked, open, orphaned, req, calm>>
        /\ s \in entries /\ entries' = entries \ {s}
        /\ length' = [length EXCEPT ![s] = 0]
        /\ \A q \in Reqs : s \notin Busy(q) /\ ~At(q, "calibrate")
    BY DEF PurgeEntry, rowVars, client, fixed
  <1>2. CancelAlone'
    BY <1>1 DEF Accounts, Kept, CancelAlone, Busy, Cancelling
  <1>3. Placed'
    BY <1>1 DEF Accounts, Kept, Placed, Uploading, Busy
  <1>4. CalibrateAlone'
    BY <1>1 DEF CalibrateAlone, At
  <1>5. Reserved' = Reserved
    BY <1>1 DEF Reserved, At
  <1>6. /\ Charge(entries) = Charge(entries)' + length[s]
        /\ Charge(entries)' \in Nat /\ length[s] \in Nat
    <2>1. IsFiniteSet(entries) /\ IsFiniteSet(entries') /\ \A x \in entries : length[x] \in Nat
      BY <1>1, FS_Subset, FS_RemoveElement, UploadConstants DEF Accounts, Base, TypeOK
    <2>2. SumOf(length, entries) = length[s] + SumOf(length, entries \ {s})
      BY <1>1, <2>1, SumWithout
    <2>3. \A x \in entries' : length'[x] = length[x] /\ length'[x] \in Nat
      BY <1>1, <2>1 DEF Accounts, Base, TypeOK
    <2>4. SumOf(length', entries') = SumOf(length, entries')
      BY <2>1, <2>3, SumAgree
    <2>5. SumOf(length', entries') \in Nat
      BY <2>1, <2>3, SumType
    <2> QED
      BY <1>1, <2>1, <2>2, <2>4, <2>5, ChargeIs, ChargeNext
  <1>7. Charged'
    <2>1. used = Charge(entries) + Size * Cardinality(Reserved) + leaked
      BY DEF Accounts, Kept, Charged
    <2>2. used \in Nat /\ leaked \in Nat /\ Size * Cardinality(Reserved) \in Nat
      BY ReservedNat DEF Accounts, Base, TypeOK
    <2>3. used + (-length[s]) >= 0
      BY <1>6, <2>1, <2>2
    <2>4. used' = used + (-length[s])
      BY <1>6, <2>2, <2>3, AdjustNat DEF PurgeEntry
    <2>5. used' = Charge(entries)' + Size * Cardinality(Reserved') + leaked'
      BY <1>1, <1>5, <1>6, <2>1, <2>2, <2>4
    <2> QED
      BY <2>5 DEF Charged
  <1> QED
    BY <1>2, <1>3, <1>4, <1>7 DEF Kept

LEMMA KeptCalibrateRead ==
    ASSUME Accounts, calm, NEW r \in Reqs, CalibrateRead(r)
    PROVE  Kept'
  <1> DEFINE new == [Idle EXCEPT !.pc = "calibrate", !.count = Charge(entries)]
  <1>1. req' = [req EXCEPT ![r] = new] /\ At(r, "idle")
    BY DEF CalibrateRead
  <1>2. new.pc = "calibrate" /\ new.on = NoSession /\ new.count = Charge(entries)
    BY DEF Idle
  <1> HIDE DEF new
  <1>3. UNCHANGED <<used, leaked, entries, length, open, orphaned, calm>>
    BY DEF CalibrateRead, rowVars, entryVars, client, fixed
  <1>4. /\ req'[r] = new /\ open = {}
        /\ \A q \in Reqs \ {r} : req'[q] = req[q] /\ req[q].pc = "idle"
    BY <1>1, Written DEF CalibrateRead, StepsElsewhere, Accounts, Base
  <1>5. Charge(entries)' = Charge(entries)
    BY <1>3, ChargeIs, ChargeNext
  <1>6. CancelAlone'
    BY <1>2, <1>4 DEF CancelAlone, Cancelling
  <1>7. Placed'
    BY <1>2, <1>4 DEF Placed, Uploading
  <1>8. CalibrateAlone'
    BY <1>2, <1>3, <1>4, <1>5 DEF CalibrateAlone, At
  <1>9. Reserved' = Reserved
    BY <1>3, <1>4 DEF Reserved
  <1> QED
    BY <1>3, <1>6, <1>7, <1>8, <1>9, ChargedSame DEF Kept

LEMMA KeptCalibrateSave ==
    ASSUME Accounts, calm, NEW r \in Reqs, CalibrateSave(r)
    PROVE  Kept'
  <1>1. req' = [req EXCEPT ![r] = Idle] /\ At(r, "calibrate")
    BY DEF CalibrateSave, Done
  <1>2. UNCHANGED <<entries, length, open, calm>> /\ used' = req[r].count /\ leaked' = 0
    BY DEF CalibrateSave, entryVars, client, fixed
  <1>3. /\ open = {} /\ req[r].count = Charge(entries)
        /\ \A q \in Reqs \ {r} : At(q, "idle")
    BY <1>1 DEF Accounts, Kept, CalibrateAlone
  <1>4. \A q \in Reqs : req'[q].pc = "idle"
    BY <1>1, <1>3, IdleIs, Written DEF Accounts, Base, At
  <1>5. CancelAlone' /\ Placed' /\ CalibrateAlone'
    BY <1>4 DEF CancelAlone, Cancelling, Placed, Uploading, CalibrateAlone, At
  <1>6. Charged'
    <2>1. Reserved' = {} /\ Cardinality(Reserved') = 0
      BY <1>2, <1>3, FS_EmptySet DEF Reserved
    <2>2. Charge(entries)' = Charge(entries) /\ Charge(entries) \in Nat
      BY <1>2, ChargeIs, ChargeNext, ChargeNat DEF Accounts, Base, TypeOK
    <2>3. used' = Charge(entries)' + Size * Cardinality(Reserved') + leaked'
      BY <1>2, <1>3, <2>1, <2>2, UploadConstants
    <2> QED
      BY <2>3 DEF Charged
  <1> QED
    BY <1>5, <1>6 DEF Kept

\* The settings of a run stay.
LEMMA FixedStep == [Next]_vars => UNCHANGED fixed
  BY DEF Next, vars, client, fixed, CreateCheck, CreateCommit, CancelRead, ClearRead,
         CancelAbort, CancelRelease, CancelDelete, ChunkRead, ChunkLook, ChunkWrite,
         PartUpload, ChunkSave, ChunkRefresh, PartsComplete, Complete, PurgeParent,
         PurgeEntry, CalibrateRead, CalibrateSave, Fail

LEMMA AccountsStep == Accounts /\ [Next]_vars => Accounts'
  <1> SUFFICES ASSUME Accounts, [Next]_vars PROVE Accounts'
    OBVIOUS
  <1>1. Base'
    BY BaseStep DEF Accounts
  <1>2. calm' = calm
    BY FixedStep DEF fixed
  <1>3. ASSUME calm PROVE Kept'
    <2>1. CASE UNCHANGED vars
      <3>1. Charge(entries)' = Charge(entries)
        BY <2>1, ChargeIs, ChargeNext DEF vars, entryVars
      <3> QED
        BY <1>3, <2>1, <3>1
           DEF Accounts, Kept, CancelAlone, Placed, CalibrateAlone, Charged, Reserved, Busy, At,
               Cancelling, Uploading, vars, rowVars, disk, entryVars, client, fixed
    <2>2. CASE Next
      BY <1>3, <2>2, KeptCreateCheck, KeptCreateCommit, KeptCancelRead, KeptClearRead,
         KeptCancelAbort, KeptCancelRelease, KeptCancelDelete, KeptChunkRead, KeptChunkLook,
         KeptChunkWrite, KeptPartUpload, KeptChunkSave, KeptChunkRefresh, KeptPartsComplete,
         KeptComplete, KeptPurgeParent, KeptPurgeEntry, KeptCalibrateRead, KeptCalibrateSave,
         KeptFail DEF Next
    <2> QED
      BY <2>1, <2>2
  <1> QED
    BY <1>1, <1>2, <1>3 DEF Accounts

LEMMA AccountsInit == Init => Accounts
  <1> SUFFICES ASSUME Init PROVE Accounts
    OBVIOUS
  <1>1. \A r \in Reqs : req[r].pc = "idle"
    BY IdleIs DEF Init
  <1>2. CancelAlone /\ Placed /\ CalibrateAlone
    BY <1>1 DEF CancelAlone, Cancelling, Placed, Uploading, CalibrateAlone, At
  <1>3. Charged
    <2>1. Cardinality(Reserved) = 0 /\ entries = {} /\ used = 0 /\ leaked = 0
      BY FS_EmptySet DEF Init, Reserved
    <2>2. Charge(entries) = 0
      BY <2>1, ChargeIs, SumEmpty
    <2> QED
      BY <2>1, <2>2, UploadConstants DEF Charged
  <1> QED
    BY <1>2, <1>3, BaseInit DEF Accounts, Kept

\* The user is charged what the files take up and what open sessions have
\* reserved, for any number of sessions and requests, any size and quota.
THEOREM UploadsCharged == Spec => []Charged
  <1>1. Accounts => Charged
    BY DEF Accounts, Kept, Charged
  <1> QED
    BY <1>1, AccountsInit, AccountsStep, PTL DEF Spec

-----------------------------------------------------------------------------
(* The content of files: uploads to an S3 bucket *)

\* There are as many chunks as Size says.
LEMMA ChunksSize == IsFiniteSet(Chunks) /\ Cardinality(Chunks) = Size
  BY UploadConstants, FS_Interval DEF Chunks

\* A client that waits for each answer has one chunk request per session; what
\* completes the multipart upload has all its chunks, and nothing takes them away.
BucketInv ==
    /\ \A r \in Reqs : ~At(r, "looked")
    /\ \A r, q \in Reqs : r # q /\ req[r].pc \in Uploading /\ req[q].pc \in Uploading =>
            req[r].on # req[q].on
    /\ \A r \in Reqs : At(r, "saved") /\ req[r].on \in open => req[r].count = count[req[r].on]
    /\ \A r \in Reqs : At(r, "full") => req[r].count >= Size
    /\ \A r \in Reqs : At(r, "merged") =>
            req[r].on \in stored \intersect merged /\ data[req[r].on] = Chunks
    /\ \A s \in entries : s \in stored \intersect merged /\ data[s] = Chunks

InBucket == Accounts /\ (calm /\ s3 /\ serial => BucketInv)

\* A request goes on and what the others know of the bucket stays true.
LEMMA BucketStep ==
    ASSUME TypeOK, BucketInv, NEW r \in Reqs, NEW new, req' = [req EXCEPT ![r] = new],
           new.pc # "looked",
           new.pc \in Uploading => \A q \in Reqs \ {r} :
                req[q].pc \in Uploading => req[q].on # new.on,
           new.pc = "saved" /\ new.on \in open' => new.count = count'[new.on],
           new.pc = "full" => new.count >= Size,
           new.pc = "merged" =>
                new.on \in stored' \intersect merged' /\ data'[new.on] = Chunks,
           \A q \in Reqs \ {r} : At(q, "saved") /\ req[q].on \in open' =>
                req[q].on \in open /\ count'[req[q].on] = count[req[q].on],
           \A q \in Reqs \ {r} : At(q, "merged") =>
                req[q].on \in stored' \intersect merged' /\ data'[req[q].on] = Chunks,
           \A s \in entries' : s \in stored' \intersect merged' /\ data'[s] = Chunks
    PROVE  BucketInv'
  <1>1. req'[r] = new /\ \A q \in Reqs \ {r} : req'[q] = req[q]
    BY Written
  <1>2. Chunks' = Chunks /\ Uploading' = Uploading
    BY DEF Chunks, Uploading
  <1>3. \A q \in Reqs : ~At(q, "looked")'
    BY <1>1 DEF BucketInv, At
  <1>4. \A p, q \in Reqs : p # q /\ req'[p].pc \in Uploading /\ req'[q].pc \in Uploading =>
            req'[p].on # req'[q].on
    BY <1>1 DEF BucketInv
  <1>5. \A q \in Reqs : At(q, "saved")' /\ req'[q].on \in open' =>
            req'[q].count = count'[req'[q].on]
    BY <1>1 DEF BucketInv, At
  <1>6. \A q \in Reqs : At(q, "full")' => req'[q].count >= Size
    BY <1>1 DEF BucketInv, At
  <1>7. \A q \in Reqs : At(q, "merged")' =>
            req'[q].on \in stored' \intersect merged' /\ data'[req'[q].on] = Chunks
    BY <1>1 DEF At
  <1> QED
    BY <1>2, <1>3, <1>4, <1>5, <1>6, <1>7 DEF BucketInv

\* A step that neither uploads nor takes anything away.
LEMMA BucketQuiet ==
    ASSUME TypeOK, BucketInv, NEW r \in Reqs, NEW new, req' = [req EXCEPT ![r] = new],
           new.pc \notin Uploading,
           \A q \in Reqs \ {r} : At(q, "saved") /\ req[q].on \in open' =>
                req[q].on \in open /\ count'[req[q].on] = count[req[q].on],
           stored \intersect merged \subseteq stored', merged' = merged, data' = data,
           entries' \subseteq entries
    PROVE  BucketInv'
  <1>1. new.pc \notin {"looked", "saved", "full", "merged"}
    BY DEF Uploading
  <1>2. \A q \in Reqs \ {r} : At(q, "merged") =>
            req[q].on \in stored' \intersect merged' /\ data'[req[q].on] = Chunks
    BY DEF BucketInv
  <1>3. \A s \in entries' : s \in stored' \intersect merged' /\ data'[s] = Chunks
    BY DEF BucketInv
  <1> QED
    BY <1>1, <1>2, <1>3, BucketStep

-----------------------------------------------------------------------------
(* InBucket is inductive *)

LEMMA BucketCreateCheck ==
    ASSUME Accounts, calm, s3, serial, BucketInv, NEW r \in Reqs, NEW s \in Sessions, CreateCheck(r, s)
    PROVE  BucketInv'
  <1> DEFINE new == [Idle EXCEPT !.pc = "checked", !.on = s]
  <1>1. req' = [req EXCEPT ![r] = new]
    BY DEF CreateCheck
  <1>2. new.pc \notin Uploading
    BY IdleIs DEF Idle, Uploading
  <1> HIDE DEF new
  <1>3. \A q \in Reqs \ {r} : At(q, "saved") /\ req[q].on \in open' =>
            req[q].on \in open /\ count'[req[q].on] = count[req[q].on]
    BY DEF CreateCheck, Accounts, Base, Unshared, Busy, TypeOK, DropRow, rowVars
  <1> QED
    BY <1>1, <1>2, <1>3, BucketQuiet
       DEF Accounts, Base, CreateCheck, disk, entryVars, StartStorage, StartParts, AbortParts

LEMMA BucketCreateCommit ==
    ASSUME Accounts, calm, s3, serial, BucketInv, NEW r \in Reqs, CreateCommit(r)
    PROVE  BucketInv'
  <1>1. req' = [req EXCEPT ![r] = Idle]
    BY DEF CreateCommit, Done
  <1>2. Idle.pc \notin Uploading
    BY IdleIs DEF Idle, Uploading
  <1>3. \A q \in Reqs \ {r} : At(q, "saved") /\ req[q].on \in open' =>
            req[q].on \in open /\ count'[req[q].on] = count[req[q].on]
    BY DEF CreateCommit, Accounts, Base, Unshared, Busy, TypeOK, DropRow, rowVars, At
  <1> QED
    BY <1>1, <1>2, <1>3, BucketQuiet
       DEF Accounts, Base, CreateCommit, disk, entryVars, StartStorage, StartParts, AbortParts

LEMMA BucketCancelRead ==
    ASSUME Accounts, calm, s3, serial, BucketInv, NEW r \in Reqs, NEW s \in Sessions, CancelRead(r, s)
    PROVE  BucketInv'
  <1> DEFINE new == [Idle EXCEPT !.pc = "cancel", !.on = s]
  <1>1. req' = [req EXCEPT ![r] = new]
    BY DEF CancelRead
  <1>2. new.pc \notin Uploading
    BY IdleIs DEF Idle, Uploading
  <1> HIDE DEF new
  <1>3. \A q \in Reqs \ {r} : At(q, "saved") /\ req[q].on \in open' =>
            req[q].on \in open /\ count'[req[q].on] = count[req[q].on]
    BY DEF CancelRead, Accounts, Base, Unshared, Busy, TypeOK, DropRow, rowVars
  <1> QED
    BY <1>1, <1>2, <1>3, BucketQuiet
       DEF Accounts, Base, CancelRead, disk, entryVars, StartStorage, StartParts, AbortParts

LEMMA BucketClearRead ==
    ASSUME Accounts, calm, s3, serial, BucketInv, NEW r \in Reqs, NEW s \in Sessions, ClearRead(r, s)
    PROVE  BucketInv'
  <1> DEFINE new == [Idle EXCEPT !.pc = "cancel", !.on = s, !.rest = open \ {s}]
  <1>1. req' = [req EXCEPT ![r] = new]
    BY DEF ClearRead
  <1>2. new.pc \notin Uploading
    BY IdleIs DEF Idle, Uploading
  <1> HIDE DEF new
  <1>3. \A q \in Reqs \ {r} : At(q, "saved") /\ req[q].on \in open' =>
            req[q].on \in open /\ count'[req[q].on] = count[req[q].on]
    BY DEF ClearRead, Accounts, Base, Unshared, Busy, TypeOK, DropRow, rowVars
  <1> QED
    BY <1>1, <1>2, <1>3, BucketQuiet
       DEF Accounts, Base, ClearRead, disk, entryVars, StartStorage, StartParts, AbortParts

LEMMA BucketCancelAbort ==
    ASSUME Accounts, calm, s3, serial, BucketInv, NEW r \in Reqs, CancelAbort(r)
    PROVE  BucketInv'
  <1> DEFINE new == [Idle EXCEPT !.pc = "aborted", !.on = req[r].on, !.rest = req[r].rest]
  <1>1. req' = [req EXCEPT ![r] = new]
    BY DEF CancelAbort, Go
  <1>2. new.pc \notin Uploading
    BY IdleIs DEF Idle, Uploading
  <1> HIDE DEF new
  <1>3. \A q \in Reqs \ {r} : At(q, "saved") /\ req[q].on \in open' =>
            req[q].on \in open /\ count'[req[q].on] = count[req[q].on]
    BY DEF CancelAbort, Accounts, Base, Unshared, Busy, TypeOK, DropRow, rowVars
  <1> QED
    BY <1>1, <1>2, <1>3, BucketQuiet
       DEF Accounts, Base, CancelAbort, disk, entryVars, StartStorage, StartParts, AbortParts

LEMMA BucketCancelRelease ==
    ASSUME Accounts, calm, s3, serial, BucketInv, NEW r \in Reqs, CancelRelease(r)
    PROVE  BucketInv'
  <1> DEFINE new == [Idle EXCEPT !.pc = "released", !.on = req[r].on, !.rest = req[r].rest]
  <1>1. req' = [req EXCEPT ![r] = new]
    BY DEF CancelRelease, Go
  <1>2. new.pc \notin Uploading
    BY IdleIs DEF Idle, Uploading
  <1> HIDE DEF new
  <1>3. \A q \in Reqs \ {r} : At(q, "saved") /\ req[q].on \in open' =>
            req[q].on \in open /\ count'[req[q].on] = count[req[q].on]
    BY DEF CancelRelease, Accounts, Base, Unshared, Busy, TypeOK, DropRow, rowVars
  <1> QED
    BY <1>1, <1>2, <1>3, BucketQuiet
       DEF Accounts, Base, CancelRelease, disk, entryVars, StartStorage, StartParts, AbortParts

LEMMA BucketCancelDelete ==
    ASSUME Accounts, calm, s3, serial, BucketInv, NEW r \in Reqs, CancelDelete(r)
    PROVE  BucketInv'
  <1>1. PICK new : req' = [req EXCEPT ![r] = new] /\ new.pc \notin Uploading
    <2>1. CASE req[r].rest = {}
      BY <2>1, IdleIs DEF CancelDelete, Done, Uploading
    <2>2. CASE req[r].rest # {}
      <3>1. PICK s \in req[r].rest : req' = [req EXCEPT ![r] =
                 [Idle EXCEPT !.pc = "cancel", !.on = s, !.rest = req[r].rest \ {s}]]
        BY <2>2 DEF CancelDelete
      <3> DEFINE n == [Idle EXCEPT !.pc = "cancel", !.on = s, !.rest = req[r].rest \ {s}]
      <3>2. n.pc \notin Uploading
        BY DEF Idle, Uploading
      <3> HIDE DEF n
      <3> QED
        BY <3>1, <3>2 DEF n
    <2> QED
      BY <2>1, <2>2
  <1>2. \A q \in Reqs \ {r} : At(q, "saved") /\ req[q].on \in open' =>
            req[q].on \in open /\ count'[req[q].on] = count[req[q].on]
    BY DEF CancelDelete, DropRow, Accounts, Base, TypeOK
  <1> QED
    BY <1>1, <1>2, BucketQuiet DEF Accounts, Base, CancelDelete, disk, entryVars

LEMMA BucketChunkRead ==
    ASSUME Accounts, calm, s3, serial, BucketInv, NEW r \in Reqs, NEW s \in Sessions,
           NEW i \in Chunks, NEW l \in Lengths, ChunkRead(r, s, i, l)
    PROVE  BucketInv'
  <1> DEFINE new == [pc |-> "read", on |-> s, chunk |-> i, len |-> l, count |-> count[s],
                     bytes |-> bytes[s], list |-> etags[s], wb |-> FALSE, rest |-> {}]
  <1>1. req' = [req EXCEPT ![r] = new]
    BY DEF ChunkRead
  <1>2. new.pc = "read" /\ new.on = s
    OBVIOUS
  <1> HIDE DEF new
  <1>3. \A q \in Reqs \ {r} : req[q].pc \in Uploading => req[q].on # s
    BY DEF ChunkRead, StepsOn, Busy
  <1>4. UNCHANGED <<open, count, stored, merged, data, entries>>
    BY DEF ChunkRead, rowVars, disk, entryVars
  <1> QED
    BY <1>1, <1>2, <1>3, <1>4, BucketStep DEF Accounts, Base, BucketInv

LEMMA BucketPartUpload ==
    ASSUME Accounts, calm, s3, serial, BucketInv, NEW r \in Reqs, PartUpload(r)
    PROVE  BucketInv'
  <1> DEFINE new == [req[r] EXCEPT !.pc = "written", !.chunk = 0, !.list = @ \union {req[r].chunk}]
  <1>1. req' = [req EXCEPT ![r] = new] /\ req[r].pc = "read"
    BY DEF PartUpload, At
  <1>2. new.pc = "written" /\ new.on = req[r].on
    BY Fields DEF Request, Accounts, Base
  <1> HIDE DEF new
  <1>3. UNCHANGED <<open, count, stored, merged, data, entries>>
    BY DEF PartUpload, rowVars, entryVars
  <1>4. \A q \in Reqs \ {r} : req[q].pc \in Uploading => req[q].on # new.on
    BY <1>1, <1>2 DEF BucketInv, Uploading
  <1> QED
    BY <1>1, <1>2, <1>3, <1>4, BucketStep DEF Accounts, Base, BucketInv

LEMMA BucketChunkSave ==
    ASSUME Accounts, calm, s3, serial, BucketInv, NEW r \in Reqs, ChunkSave(r)
    PROVE  BucketInv'
  <1> DEFINE new == [Idle EXCEPT !.pc = "saved", !.on = req[r].on, !.list = req[r].list,
                               !.count = IF s3 THEN req[r].count + 1 ELSE 0]
  <1>1. req' = [req EXCEPT ![r] = new] /\ req[r].pc = "written" /\ req[r].on \in open
    BY DEF ChunkSave, SaveList, At
  <1>2. new.pc = "saved" /\ new.on = req[r].on /\ new.count = req[r].count + 1
    BY DEF Idle
  <1> HIDE DEF new
  <1>3. /\ UNCHANGED <<open, stored, merged, data, entries>>
        /\ count' = [count EXCEPT ![req[r].on] = req[r].count + 1]
    BY DEF ChunkSave, disk, entryVars
  <1>4. \A q \in Reqs \ {r} : req[q].pc \in Uploading => req[q].on # new.on
    BY <1>1, <1>2 DEF BucketInv, Uploading
  <1>5. \A q \in Reqs \ {r} : At(q, "saved") /\ req[q].on \in open' =>
            req[q].on \in open /\ count'[req[q].on] = count[req[q].on]
    BY <1>2, <1>3, <1>4 DEF Uploading, At, Accounts, Base, TypeOK
  <1>6. count'[new.on] = new.count
    BY <1>1, <1>2, <1>3 DEF Accounts, Base, TypeOK
  <1> QED
    BY <1>1, <1>2, <1>3, <1>4, <1>5, <1>6, BucketStep DEF Accounts, Base, BucketInv

LEMMA BucketChunkRefresh ==
    ASSUME Accounts, calm, s3, serial, BucketInv, NEW r \in Reqs, ChunkRefresh(r)
    PROVE  BucketInv'
  <1>1. UNCHANGED <<open, count, stored, merged, data, entries>> /\ req[r].pc = "saved"
    BY DEF ChunkRefresh, rowVars, disk, entryVars, At
  <1>2. CASE count[req[r].on] >= Size
    <2> DEFINE new == [req[r] EXCEPT !.pc = "full", !.bytes = bytes[req[r].on]]
    <2>1. req' = [req EXCEPT ![r] = new]
      BY <1>2 DEF ChunkRefresh
    <2>2. new.pc = "full" /\ new.on = req[r].on /\ new.count = req[r].count
      BY Fields DEF Request, Accounts, Base
    <2> HIDE DEF new
    <2>3. new.count >= Size
      BY <1>2, <2>2 DEF ChunkRefresh, BucketInv
    <2>4. \A q \in Reqs \ {r} : req[q].pc \in Uploading => req[q].on # new.on
      BY <1>1, <2>2 DEF BucketInv, Uploading
    <2> QED
      BY <1>1, <2>1, <2>2, <2>3, <2>4, BucketStep DEF Accounts, Base, BucketInv
  <1>3. CASE ~(count[req[r].on] >= Size)
    <2>1. req' = [req EXCEPT ![r] = Idle] /\ Idle.pc \notin Uploading
      BY <1>3, IdleIs DEF ChunkRefresh, Done, Uploading
    <2> QED
      BY <1>1, <2>1, BucketQuiet DEF Accounts, Base
  <1> QED
    BY <1>2, <1>3

\* S3 refuses a list that names a chunk twice: one as long as the count is whole.
LEMMA BucketPartsComplete ==
    ASSUME Accounts, calm, s3, serial, BucketInv, NEW r \in Reqs, PartsComplete(r)
    PROVE  BucketInv'
  <1> DEFINE new == [req[r] EXCEPT !.pc = "merged", !.list = {}, !.count = 0]
             s == req[r].on
  <1>1. req' = [req EXCEPT ![r] = new] /\ req[r].pc = "full"
    BY DEF PartsComplete, At
  <1>2. new.pc = "merged" /\ new.on = s
    BY Fields DEF Request, Accounts, Base
  <1> HIDE DEF new
  <1>3. /\ UNCHANGED <<open, count, stored, entries>>
        /\ s \in stored \ merged /\ merged' = merged \union {s}
        /\ data' = [data EXCEPT ![s] = req[r].list]
    BY DEF PartsComplete, rowVars, entryVars
  <1>4. req[r].list = Chunks
    <2>1. req[r].list \in SUBSET Chunks /\ Cardinality(req[r].list) = req[r].count
      BY Fields DEF PartsComplete, Accounts, Base
    <2>2. req[r].count >= Size
      BY <1>1 DEF BucketInv, At
    <2>3. Cardinality(req[r].list) <= Size /\ Cardinality(req[r].list) \in Nat
      BY <2>1, ChunksSize, FS_Subset, FS_CardinalityType
    <2>4. Cardinality(req[r].list) = Size
      BY <2>1, <2>2, <2>3, UploadConstants
    <2> QED
      BY <2>1, <2>4, ChunksSize, FS_Subset
  <1>5. data'[s] = Chunks /\ \A x \in Sessions \ {s} : data'[x] = data[x]
    BY <1>3, <1>4 DEF Accounts, Base, TypeOK
  <1>6. \A q \in Reqs \ {r} : req[q].pc \in Uploading => req[q].on # s
    BY <1>1 DEF BucketInv, Uploading
  <1>7. \A q \in Reqs \ {r} : At(q, "merged") =>
            req[q].on \in stored' \intersect merged' /\ data'[req[q].on] = Chunks
    BY <1>3, <1>5, <1>6 DEF BucketInv, At, Uploading, Accounts, Base, TypeOK
  <1>8. \A x \in entries' : x \in stored' \intersect merged' /\ data'[x] = Chunks
    BY <1>3, <1>5 DEF BucketInv, Accounts, Base, TypeOK
  <1>9. /\ new.on \in stored' \intersect merged' /\ data'[new.on] = Chunks
        /\ \A q \in Reqs \ {r} : req[q].pc \in Uploading => req[q].on # new.on
        /\ new.pc \notin {"looked", "saved", "full"}
    BY <1>2, <1>3, <1>5, <1>6
  <1> HIDE DEF s
  <1> QED
    BY <1>1, <1>3, <1>7, <1>8, <1>9, BucketStep DEF Accounts, Base

LEMMA BucketComplete ==
    ASSUME Accounts, calm, s3, serial, BucketInv, NEW r \in Reqs, Complete(r)
    PROVE  BucketInv'
  <1>1. req' = [req EXCEPT ![r] = Idle] /\ At(r, "merged")
    BY DEF Complete, Done
  <1>2. /\ UNCHANGED <<stored, merged, data>>
        /\ open' = open \ {req[r].on} /\ count' = [count EXCEPT ![req[r].on] = 0]
        /\ entries' = entries \union {req[r].on}
    BY DEF Complete, DropRow, disk
  <1>3. \A q \in Reqs \ {r} : At(q, "saved") /\ req[q].on \in open' =>
            req[q].on \in open /\ count'[req[q].on] = count[req[q].on]
    BY <1>2 DEF Accounts, Base, TypeOK
  <1>4. \A x \in entries' : x \in stored' \intersect merged' /\ data'[x] = Chunks
    BY <1>1, <1>2 DEF BucketInv
  <1>5. Idle.pc \notin Uploading /\ Idle.pc \notin {"looked", "saved", "full", "merged"}
    BY IdleIs DEF Uploading
  <1>6. \A q \in Reqs \ {r} : At(q, "merged") =>
            req[q].on \in stored' \intersect merged' /\ data'[req[q].on] = Chunks
    BY <1>2 DEF BucketInv
  <1> QED
    BY <1>1, <1>3, <1>4, <1>5, <1>6, BucketStep DEF Accounts, Base

LEMMA BucketPurgeParent ==
    ASSUME Accounts, calm, s3, serial, BucketInv, NEW s \in Sessions, PurgeParent(s)
    PROVE  BucketInv'
  <1>1. /\ UNCHANGED <<stored, merged, data, entries, req>>
        /\ open' = open \ {s} /\ count' = [count EXCEPT ![s] = 0]
    BY DEF PurgeParent, DropRow, disk, entryVars
  <1> QED
    BY <1>1 DEF BucketInv, Accounts, Base, TypeOK, At, Chunks, Uploading

LEMMA BucketPurgeEntry ==
    ASSUME Accounts, calm, s3, serial, BucketInv, NEW s \in Sessions, PurgeEntry(s)
    PROVE  BucketInv'
  <1>1. /\ UNCHANGED <<open, count, merged, req>>
        /\ stored' = stored \ {s} /\ data' = [data EXCEPT ![s] = {}]
        /\ entries' = entries \ {s} /\ \A q \in Reqs : req[q].on # s
    BY DEF PurgeEntry, rowVars, Busy
  <1>2. \A x \in Sessions \ {s} : data'[x] = data[x]
    BY <1>1 DEF Accounts, Base, TypeOK
  <1>3. \A q \in Reqs : At(q, "merged") =>
            req[q].on \in stored' \intersect merged' /\ data'[req[q].on] = Chunks
    BY <1>1, <1>2 DEF BucketInv, Accounts, Base, TypeOK
  <1>4. \A x \in entries' : x \in stored' \intersect merged' /\ data'[x] = Chunks
    BY <1>1, <1>2 DEF BucketInv, Accounts, Base, TypeOK
  <1> QED
    BY <1>1, <1>3, <1>4 DEF BucketInv, At, Chunks, Uploading

LEMMA BucketCalibrateRead ==
    ASSUME Accounts, calm, s3, serial, BucketInv, NEW r \in Reqs, CalibrateRead(r)
    PROVE  BucketInv'
  <1> DEFINE new == [Idle EXCEPT !.pc = "calibrate", !.count = Charge(entries)]
  <1>1. req' = [req EXCEPT ![r] = new]
    BY DEF CalibrateRead
  <1>2. new.pc \notin Uploading
    BY IdleIs DEF Idle, Uploading
  <1> HIDE DEF new
  <1>3. \A q \in Reqs \ {r} : At(q, "saved") /\ req[q].on \in open' =>
            req[q].on \in open /\ count'[req[q].on] = count[req[q].on]
    BY DEF CalibrateRead, Accounts, Base, Unshared, Busy, TypeOK, DropRow, rowVars
  <1> QED
    BY <1>1, <1>2, <1>3, BucketQuiet
       DEF Accounts, Base, CalibrateRead, disk, entryVars, StartStorage, StartParts, AbortParts

LEMMA BucketCalibrateSave ==
    ASSUME Accounts, calm, s3, serial, BucketInv, NEW r \in Reqs, CalibrateSave(r)
    PROVE  BucketInv'
  <1>1. req' = [req EXCEPT ![r] = Idle]
    BY DEF CalibrateSave, Done
  <1>2. Idle.pc \notin Uploading
    BY IdleIs DEF Idle, Uploading
  <1>3. \A q \in Reqs \ {r} : At(q, "saved") /\ req[q].on \in open' =>
            req[q].on \in open /\ count'[req[q].on] = count[req[q].on]
    BY DEF CalibrateSave, Accounts, Base, Unshared, Busy, TypeOK, DropRow, rowVars
  <1> QED
    BY <1>1, <1>2, <1>3, BucketQuiet
       DEF Accounts, Base, CalibrateSave, disk, entryVars, StartStorage, StartParts, AbortParts

LEMMA BucketFail ==
    ASSUME Accounts, calm, s3, serial, BucketInv, NEW r \in Reqs, Fail(r)
    PROVE  BucketInv'
  <1>1. req' = [req EXCEPT ![r] = Idle]
    BY DEF Fail, Done
  <1>2. Idle.pc \notin Uploading
    BY IdleIs DEF Idle, Uploading
  <1>3. \A q \in Reqs \ {r} : At(q, "saved") /\ req[q].on \in open' =>
            req[q].on \in open /\ count'[req[q].on] = count[req[q].on]
    BY DEF Fail, Accounts, Base, Unshared, Busy, TypeOK, DropRow, rowVars
  <1> QED
    BY <1>1, <1>2, <1>3, BucketQuiet
       DEF Accounts, Base, Fail, disk, entryVars, StartStorage, StartParts, AbortParts

LEMMA InBucketStep == InBucket /\ [Next]_vars => InBucket'
  <1> SUFFICES ASSUME InBucket, [Next]_vars PROVE InBucket'
    OBVIOUS
  <1>1. Accounts'
    BY AccountsStep DEF InBucket
  <1>2. UNCHANGED fixed
    BY FixedStep
  <1>3. ASSUME calm, s3, serial PROVE BucketInv'
    <2>1. CASE UNCHANGED vars
      BY <1>3, <2>1
         DEF InBucket, BucketInv, At, Chunks, Uploading, vars, rowVars, disk, entryVars
    <2>2. ASSUME NEW r \in Reqs, ChunkLook(r) PROVE FALSE
      BY <1>3, <2>2 DEF ChunkLook
    <2>3. ASSUME NEW r \in Reqs, ChunkWrite(r) PROVE FALSE
      BY <1>3, <2>3 DEF ChunkWrite, InBucket, BucketInv
    <2>4. CASE Next
      BY <1>3, <2>2, <2>3, <2>4, BucketCreateCheck, BucketCreateCommit, BucketCancelRead,
         BucketClearRead, BucketCancelAbort, BucketCancelRelease, BucketCancelDelete,
         BucketChunkRead, BucketPartUpload, BucketChunkSave, BucketChunkRefresh,
         BucketPartsComplete, BucketComplete, BucketPurgeParent, BucketPurgeEntry,
         BucketCalibrateRead, BucketCalibrateSave, BucketFail DEF InBucket, Next
    <2> QED
      BY <2>1, <2>4
  <1> QED
    BY <1>1, <1>2, <1>3 DEF InBucket, fixed

-----------------------------------------------------------------------------
(* The content of files: uploads to the local disk *)

Sending == {"read", "looked", "written"}
Left(s) == Cardinality(Chunks \ sent[s])
Senders(s) == {r \in Reqs : req[r].on = s /\ req[r].pc \in Sending}
Fresh(s) == count[s] = 0 /\ sent[s] = {} /\ data[s] = {} /\ s \notin stored

\* Sessions whose file a cancel has removed.
Aborted == {req[r].on : r \in {q \in Reqs : req[q].pc \in {"aborted", "released"}}}

\* A count was lost: it can no longer reach Size, whoever saves next.
Behind(s) ==
    /\ count[s] + Left(s) < Size
    /\ \A r \in Senders(s) : req[r].count + 1 + Left(s) < Size

\* Nothing has overlapped so far: all that was sent is counted and in the file.
Quiet(s) ==
    /\ Senders(s) = {}
    /\ count[s] + Left(s) = Size
    /\ data[s] = sent[s]

\* As Quiet, but for the one chunk that r is sending.
OneSender(s, r) ==
    /\ Senders(s) = {r}
    /\ req[r].count = count[s]
    /\ count[s] + 1 + Left(s) = Size
    /\ At(r, "written") => data[s] = sent[s]
    /\ ~At(r, "written") => req[r].chunk \in sent[s] /\ data[s] = sent[s] \ {req[r].chunk}
    /\ At(r, "looked") => req[r].wb = (s \notin stored)

Tidy(s) == Behind(s) \/ Quiet(s) \/ \E r \in Reqs : OneSender(s, r)

LocalInv ==
    /\ \A s \in Sessions : s \notin stored => data[s] = {}
    /\ \A s \in Sessions \ born : Fresh(s)
    /\ \A r \in Reqs : At(r, "checked") => Fresh(req[r].on)
    /\ \A s \in open \ Aborted : Tidy(s)
    /\ \A r \in Reqs : At(r, "full") /\ req[r].on \in open => count[req[r].on] >= Size
    /\ \A s \in entries : data[s] = Chunks /\ Senders(s) = {}

OnDisk == Accounts /\ (calm /\ ~s3 /\ once => LocalInv)

\* The chunks still to be sent can be counted.
LEMMA LeftNat ==
    ASSUME TypeOK, NEW s \in Sessions
    PROVE  /\ IsFiniteSet(Chunks \ sent[s]) /\ Left(s) \in Nat
           /\ Left(s) = 0 <=> sent[s] = Chunks
  <1>1. sent[s] \in SUBSET Chunks /\ IsFiniteSet(Chunks \ sent[s])
    BY ChunksSize, FS_Subset DEF TypeOK
  <1>2. Left(s) \in Nat
    BY <1>1, FS_CardinalityType DEF Left
  <1>3. Left(s) = 0 <=> Chunks \ sent[s] = {}
    BY <1>1, FS_EmptySet DEF Left
  <1> QED
    BY <1>1, <1>2, <1>3

\* Nothing happens to the session s.
LEMMA TidyFrame ==
    ASSUME NEW s, Tidy(s), count'[s] = count[s], sent'[s] = sent[s], data'[s] = data[s],
           s \in stored <=> s \in stored', Senders(s)' = Senders(s),
           \A q \in Senders(s) : req'[q] = req[q]
    PROVE  Tidy(s)'
  <1>1. Left(s)' = Left(s)
    BY DEF Left, Chunks
  <1>2. CASE Behind(s)
    BY <1>1, <1>2 DEF Tidy, Behind
  <1>3. CASE Quiet(s)
    BY <1>1, <1>3 DEF Tidy, Quiet
  <1>4. ASSUME NEW r \in Reqs, OneSender(s, r) PROVE OneSender(s, r)'
    <2>1. Senders(s) = {r}
      BY <1>4 DEF OneSender
    <2>2. req'[r] = req[r]
      BY <2>1
    <2> QED
      BY <1>1, <1>4, <2>2 DEF OneSender, At
  <1> QED
    BY <1>2, <1>3, <1>4 DEF Tidy

\* Who sends a chunk of s when one request changes.
LEMMA SendersStep ==
    ASSUME TypeOK, NEW r \in Reqs, NEW new, req' = [req EXCEPT ![r] = new], NEW s
    PROVE  Senders(s)' = (Senders(s) \ {r}) \union
                         (IF new.on = s /\ new.pc \in Sending THEN {r} ELSE {})
  <1>1. req'[r] = new /\ \A q \in Reqs \ {r} : req'[q] = req[q]
    BY Written
  <1>2. \A q : q \in Senders(s) <=> q \in Reqs /\ req[q].on = s /\ req[q].pc \in Sending
    BY DEF Senders
  <1>3. \A q : q \in Senders(s)' <=> q \in Reqs /\ req'[q].on = s /\ req'[q].pc \in Sending
    BY DEF Senders, Sending
  <1> QED
    BY <1>1, <1>2, <1>3

\* The sets that the requests at a step make up, after a step of r.
LEMMA AbortedStep ==
    ASSUME TypeOK, NEW r \in Reqs, NEW new, req' = [req EXCEPT ![r] = new]
    PROVE  /\ new.pc \in {"aborted", "released"} => new.on \in Aborted'
           /\ Aborted \subseteq Aborted' \union {req[r].on}
           /\ req[r].pc \notin {"aborted", "released"} => Aborted \subseteq Aborted'
  <1>1. req'[r] = new /\ \A q \in Reqs \ {r} : req'[q] = req[q]
    BY Written
  <1>2. \A x : x \in Aborted <=> \E q \in Reqs : req[q].pc \in {"aborted", "released"} /\ x = req[q].on
    BY DEF Aborted
  <1>3. \A x : x \in Aborted' <=> \E q \in Reqs : req'[q].pc \in {"aborted", "released"} /\ x = req'[q].on
    BY DEF Aborted
  <1> HIDE DEF Aborted
  <1>4. new.pc \in {"aborted", "released"} => new.on \in Aborted'
    BY <1>1, <1>3
  <1>5. ASSUME NEW x \in Aborted PROVE x \in Aborted' \/ x = req[r].on
    BY <1>1, <1>2, <1>3, <1>5
  <1>6. ASSUME NEW x \in Aborted, req[r].pc \notin {"aborted", "released"} PROVE x \in Aborted'
    BY <1>1, <1>2, <1>3, <1>6
  <1> QED
    BY <1>4, <1>5, <1>6

\* A chunk request works on a session no cancel has touched.
LEMMA SendersTidy ==
    ASSUME Accounts, calm, LocalInv, NEW r \in Reqs, req[r].pc \in Uploading
    PROVE  /\ req[r].on \in Sessions /\ req[r].on \notin Aborted
           /\ req[r].on \in open => Tidy(req[r].on)
  <1>1. req[r].on \in Sessions
    BY DEF Accounts, Base, Known, TypeOK, Uploading
  <1>2. req[r].on \notin Aborted
    <2> SUFFICES ASSUME NEW q \in Reqs, req[q].pc \in {"aborted", "released"}, req[q].on = req[r].on
                 PROVE  FALSE
      BY DEF Aborted
    <2>1. q # r /\ req[q].pc \in Cancelling
      BY DEF Uploading, Cancelling
    <2> QED
      BY <2>1, CancelOwns DEF Busy
  <1> QED
    BY <1>1, <1>2 DEF LocalInv

\* A step by which r becomes new and that touches at most what concerns the
\* session s, and what it must leave true there.
LocalChange(r, new, s) ==
    /\ req[r].pc \in Sending => req[r].on = s
    /\ new.pc \in Sending => new.on = s
    /\ \A x \in Sessions \ {s} : /\ count'[x] = count[x] /\ sent'[x] = sent[x]
                               /\ data'[x] = data[x] /\ (x \in stored <=> x \in stored')
    /\ born \subseteq born' /\ open' \subseteq open \union {s} /\ entries' \subseteq entries \union {s}
    /\ open' \intersect Aborted \subseteq Aborted' \union {s}
    /\ s \in Sessions => (s \notin stored' => data'[s] = {})
    /\ s \in Sessions \ born' => Fresh(s)'
    /\ s \in open' \ Aborted' => Tidy(s)'
    /\ \A q \in Reqs \ {r} : At(q, "checked") => req[q].on # s
    /\ new.pc = "checked" => /\ count'[new.on] = 0 /\ sent'[new.on] = {}
                             /\ data'[new.on] = {} /\ new.on \notin stored'
    /\ \A q \in Reqs \ {r} : At(q, "full") /\ req[q].on = s /\ s \in open' => count'[s] >= Size
    /\ new.pc = "full" /\ new.on \in open' => count'[new.on] >= Size
    /\ s \in entries' => data'[s] = Chunks /\ Senders(s)' = {}

\* Such a step keeps the invariant.
LEMMA LocalStep ==
    ASSUME Accounts, calm, LocalInv, NEW r \in Reqs, NEW new, req' = [req EXCEPT ![r] = new],
           NEW s, LocalChange(r, new, s)
    PROVE  LocalInv'
  <1>1. req'[r] = new /\ \A q \in Reqs \ {r} : req'[q] = req[q]
    BY Written DEF Accounts, Base
  <1>2. \A x \in Sessions \ {s} : Fresh(x) => Fresh(x)'
    BY DEF Fresh, LocalChange
  <1>3. \A q \in Reqs : At(q, "checked") => req[q].on \in Sessions
    BY DEF Accounts, Base, Known, TypeOK, At
  <1>4. \A x \in Sessions : x \notin stored' => data'[x] = {}
    BY DEF LocalInv, LocalChange
  <1>5. \A x \in Sessions \ born' : Fresh(x)'
    BY <1>2 DEF LocalInv, LocalChange
  <1>6. ASSUME NEW q \in Reqs, At(q, "checked")' PROVE Fresh(req[q].on)'
    <2>1. CASE q # r
      <3>1. At(q, "checked") /\ req'[q].on = req[q].on /\ req[q].on # s
        BY <1>1, <1>6, <2>1 DEF At, LocalChange
      <3>2. Fresh(req[q].on) /\ req[q].on \in Sessions \ {s}
        BY <1>3, <3>1 DEF LocalInv
      <3>3. /\ count'[req[q].on] = count[req[q].on] /\ sent'[req[q].on] = sent[req[q].on]
            /\ data'[req[q].on] = data[req[q].on]
            /\ (req[q].on \in stored <=> req[q].on \in stored')
        BY <3>2 DEF LocalChange
      <3> QED
        BY <3>1, <3>2, <3>3 DEF Fresh
    <2>2. CASE q = r
      BY <1>1, <1>6, <2>2 DEF At, Fresh, LocalChange
    <2> QED
      BY <2>1, <2>2
  <1>7. ASSUME NEW x, x # s
        PROVE  Senders(x)' = Senders(x) /\ \A q \in Senders(x) : req'[q] = req[q]
    BY <1>1, <1>7, SendersStep DEF Senders, Accounts, Base, LocalChange
  <1>8. ASSUME NEW x \in open' \ Aborted' PROVE Tidy(x)'
    <2>1. CASE x # s
      <3>1. x \in open \ Aborted /\ x \in Sessions
        BY <2>1 DEF Accounts, Base, TypeOK, LocalChange
      <3>2. Tidy(x)
        BY <3>1 DEF LocalInv
      <3> QED
        BY <1>7, <2>1, <3>1, <3>2, TidyFrame DEF LocalChange
    <2> QED
      BY <2>1 DEF LocalChange
  <1>9. \A q \in Reqs : At(q, "full")' /\ req'[q].on \in open' => count'[req'[q].on] >= Size
    <2>1. ASSUME NEW q \in Reqs \ {r}, At(q, "full"), req[q].on \in open', req[q].on # s
          PROVE  count'[req[q].on] >= Size
      <3>1. req[q].on \in open /\ req[q].on \in Sessions /\ count[req[q].on] >= Size
        BY <2>1 DEF LocalInv, Accounts, Base, TypeOK, LocalChange
      <3> QED
        BY <2>1, <3>1 DEF LocalChange
    <2> QED
      BY <1>1, <2>1 DEF At, LocalChange
  <1>10. ASSUME NEW x \in entries' PROVE data'[x] = Chunks /\ Senders(x)' = {}
    <2>1. CASE x # s
      <3>1. x \in entries /\ x \in Sessions
        BY <2>1 DEF Accounts, Base, TypeOK, LocalChange
      <3> QED
        BY <1>7, <2>1, <3>1 DEF LocalInv, LocalChange
    <2> QED
      BY <2>1 DEF LocalChange
  <1>11. Chunks' = Chunks
    BY DEF Chunks
  <1> QED
    <2>1. (\A q \in Reqs : At(q, "checked") => Fresh(req[q].on))'
      BY <1>6
    <2> QED
      BY <1>4, <1>5, <1>8, <1>9, <1>10, <1>11, <2>1 DEF LocalInv

\* A step of a request that sends nothing and changes nothing of a file.
LEMMA LocalQuiet ==
    ASSUME Accounts, calm, LocalInv, NEW r \in Reqs, NEW new, req' = [req EXCEPT ![r] = new],
           req[r].pc \notin Sending, new.pc \notin Sending \union {"checked", "full"},
           UNCHANGED <<count, sent, data, stored, born>>, open' \subseteq open,
           open' \intersect Aborted \subseteq Aborted', entries' \subseteq entries
    PROVE  LocalInv'
  <1>1. NoSession \notin Sessions \union open' \union entries' /\ born \subseteq Sessions
    BY UploadConstants DEF Accounts, Base, TypeOK
  <1>2. \A q \in Reqs \ {r} : At(q, "checked") => req[q].on # NoSession
    BY <1>1 DEF Accounts, Base, Known, At
  <1> QED
    <2>1. LocalChange(r, new, NoSession)
      BY <1>1, <1>2 DEF LocalChange
    <2> QED
      BY <2>1, LocalStep

-----------------------------------------------------------------------------
(* OnDisk is inductive *)

LEMMA LocalCreateCheck ==
    ASSUME Accounts, calm, ~s3, once, LocalInv, NEW r \in Reqs, NEW s \in Sessions,
           CreateCheck(r, s)
    PROVE  LocalInv'
  <1>1. PICK new : new = [Idle EXCEPT !.pc = "checked", !.on = s]
    OBVIOUS
  <1>2. new.pc = "checked" /\ new.on = s
    BY <1>1 DEF Idle
  <1>3. req' = [req EXCEPT ![r] = new] /\ req[r].pc = "idle"
    BY <1>1 DEF CreateCheck, At
  <1>4. /\ UNCHANGED <<count, sent, data, stored, open, entries>>
        /\ born' = born \union {s} /\ s \notin born
    BY DEF CreateCheck, StartStorage, entryVars, client
  <1>5. s \notin open /\ s \notin entries /\ \A q \in Reqs : At(q, "checked") => req[q].on # s
    BY <1>4 DEF Accounts, Base, TypeOK, Known, At
  <1>6. Fresh(s) /\ (s \notin stored => data[s] = {})
    BY <1>4 DEF LocalInv
  <1>7. Aborted \subseteq Aborted'
    BY <1>3, AbortedStep DEF Accounts, Base
  <1>8. req[r].pc \notin Sending /\ new.pc \notin Sending
    BY <1>2, <1>3 DEF Sending
  <1> QED
    <2>1. LocalChange(r, new, s)
      BY <1>2, <1>3, <1>4, <1>5, <1>6, <1>7, <1>8 DEF LocalChange, Fresh
    <2> QED
      BY <1>3, <2>1, LocalStep

LEMMA LocalCreateCommit ==
    ASSUME Accounts, calm, ~s3, once, LocalInv, NEW r \in Reqs, CreateCommit(r)
    PROVE  LocalInv'
  <1>1. PICK s : s = req[r].on
    OBVIOUS
  <1>2. req' = [req EXCEPT ![r] = Idle] /\ req[r].pc = "checked"
    BY DEF CreateCommit, Done, At
  <1>3. UNCHANGED <<count, sent, data, stored, born, entries>> /\ open' = open \union {s}
    BY <1>1 DEF CreateCommit, disk, entryVars, client
  <1>4. /\ s \in born /\ s \in Sessions /\ s \notin entries
        /\ \A q \in Reqs \ {r} : req[q].on # s
    BY <1>1, <1>2 DEF Accounts, Base, TypeOK, Known, Unshared, At, Busy
  <1>5. Fresh(s)
    BY <1>1, <1>2 DEF LocalInv, At
  <1>6. Aborted \subseteq Aborted' /\ Idle.pc \notin Sending /\ req[r].pc \notin Sending
    BY <1>2, IdleIs, AbortedStep DEF Accounts, Base, Sending
  <1>7. Quiet(s)'
    <2>1. Senders(s)' = {}
      BY <1>2, <1>4, <1>6, SendersStep DEF Senders, Accounts, Base
    <2>2. Left(s)' = Size
      BY <1>3, <1>5, ChunksSize DEF Fresh, Left, Chunks
    <2> QED
      BY <1>3, <1>5, <2>1, <2>2, UploadConstants DEF Quiet, Fresh
  <1>8. Tidy(s)'
    BY <1>7 DEF Tidy
  <1>9. s \notin stored' => data'[s] = {}
    BY <1>3, <1>5 DEF Fresh
  <1> QED
    <2>1. /\ req[r].pc \in Sending => req[r].on = s
          /\ Idle.pc \in Sending => Idle.on = s
      BY <1>6
    <2>2. \A x \in Sessions \ {s} : /\ count'[x] = count[x] /\ sent'[x] = sent[x]
                                     /\ data'[x] = data[x] /\ (x \in stored <=> x \in stored')
      BY <1>3
    <2>3. /\ born \subseteq born' /\ open' \subseteq open \union {s} /\ entries' \subseteq entries \union {s}
          /\ open' \intersect Aborted \subseteq Aborted' \union {s}
      BY <1>3, <1>6
    <2>4. /\ s \in Sessions => (s \notin stored' => data'[s] = {})
          /\ s \in Sessions \ born' => Fresh(s)'
          /\ s \in open' \ Aborted' => Tidy(s)'
      BY <1>3, <1>4, <1>8, <1>9
    <2>5. /\ \A q \in Reqs \ {r} : At(q, "checked") => req[q].on # s
          /\ Idle.pc = "checked" => /\ count'[Idle.on] = 0 /\ sent'[Idle.on] = {}
                                 /\ data'[Idle.on] = {} /\ Idle.on \notin stored'
      BY <1>4, IdleIs
    <2>6. /\ \A q \in Reqs \ {r} : At(q, "full") /\ req[q].on = s /\ s \in open' => count'[s] >= Size
          /\ Idle.pc = "full" /\ Idle.on \in open' => count'[Idle.on] >= Size
      BY <1>4, IdleIs
    <2>7. s \in entries' => data'[s] = Chunks /\ Senders(s)' = {}
      BY <1>3, <1>4
    <2>8. LocalChange(r, Idle, s)
      BY <2>1, <2>2, <2>3, <2>4, <2>5, <2>6, <2>7 DEF LocalChange
    <2> QED
      BY <1>2, <2>8, LocalStep

LEMMA LocalCancelRead ==
    ASSUME Accounts, calm, ~s3, once, LocalInv, NEW r \in Reqs, NEW s \in Sessions,
           CancelRead(r, s)
    PROVE  LocalInv'
  <1> DEFINE new == [Idle EXCEPT !.pc = "cancel", !.on = s]
  <1>1. req' = [req EXCEPT ![r] = new] /\ req[r].pc = "idle"
    BY DEF CancelRead, At
  <1>2. new.pc \notin Sending \union {"checked", "full"} /\ req[r].pc \notin Sending
    BY <1>1 DEF Idle, Sending
  <1> HIDE DEF new
  <1>3. Aborted \subseteq Aborted'
    BY <1>1, AbortedStep DEF Accounts, Base
  <1> QED
    BY <1>1, <1>2, <1>3, LocalQuiet DEF CancelRead, rowVars, disk, entryVars, client

LEMMA LocalClearRead ==
    ASSUME Accounts, calm, ~s3, once, LocalInv, NEW r \in Reqs, NEW s \in Sessions,
           ClearRead(r, s)
    PROVE  LocalInv'
  <1> DEFINE new == [Idle EXCEPT !.pc = "cancel", !.on = s, !.rest = open \ {s}]
  <1>1. req' = [req EXCEPT ![r] = new] /\ req[r].pc = "idle"
    BY DEF ClearRead, At
  <1>2. new.pc \notin Sending \union {"checked", "full"} /\ req[r].pc \notin Sending
    BY <1>1 DEF Idle, Sending
  <1> HIDE DEF new
  <1>3. Aborted \subseteq Aborted'
    BY <1>1, AbortedStep DEF Accounts, Base
  <1> QED
    BY <1>1, <1>2, <1>3, LocalQuiet DEF ClearRead, rowVars, disk, entryVars, client

LEMMA LocalCancelAbort ==
    ASSUME Accounts, calm, ~s3, once, LocalInv, NEW r \in Reqs, CancelAbort(r)
    PROVE  LocalInv'
  <1>1. PICK s : s = req[r].on
    OBVIOUS
  <1>2. PICK new : new = [Idle EXCEPT !.pc = "aborted", !.on = req[r].on, !.rest = req[r].rest]
    OBVIOUS
  <1>3. new.pc = "aborted" /\ new.on = s
    BY <1>1, <1>2 DEF Idle
  <1>4. req' = [req EXCEPT ![r] = new] /\ req[r].pc = "cancel"
    BY <1>2 DEF CancelAbort, Go, At
  <1>5. /\ s \in open /\ \A q \in Reqs \ {r} : req[q].on # s
    BY <1>1, <1>4, CancelOwns DEF Cancelling, Busy
  <1>6. s \in Sessions /\ s \in born /\ s \notin entries
    BY <1>5 DEF Accounts, Base, TypeOK
  <1>7. /\ UNCHANGED <<count, sent, born, open, entries>>
        /\ stored' = stored \ {s} /\ data' = [data EXCEPT ![s] = {}]
    BY <1>1 DEF CancelAbort, AbortFile, rowVars, entryVars, client
  <1>8. /\ data'[s] = {}
        /\ \A x \in Sessions \ {s} : data'[x] = data[x] /\ (x \in stored <=> x \in stored')
    BY <1>6, <1>7 DEF Accounts, Base, TypeOK
  <1>9. s \in Aborted' /\ Aborted \subseteq Aborted'
    BY <1>3, <1>4, AbortedStep DEF Accounts, Base
  <1>10. req[r].pc \notin Sending /\ new.pc \notin Sending
    BY <1>3, <1>4 DEF Sending
  <1> QED
    <2>1. /\ req[r].pc \in Sending => req[r].on = s
          /\ new.pc \in Sending => new.on = s
      BY <1>10
    <2>2. \A x \in Sessions \ {s} : /\ count'[x] = count[x] /\ sent'[x] = sent[x]
                                     /\ data'[x] = data[x] /\ (x \in stored <=> x \in stored')
      BY <1>7, <1>8
    <2>3. /\ born \subseteq born' /\ open' \subseteq open \union {s} /\ entries' \subseteq entries \union {s}
          /\ open' \intersect Aborted \subseteq Aborted' \union {s}
      BY <1>7, <1>9
    <2>4. /\ s \in Sessions => (s \notin stored' => data'[s] = {})
          /\ s \in Sessions \ born' => Fresh(s)'
          /\ s \in open' \ Aborted' => Tidy(s)'
      BY <1>6, <1>7, <1>8, <1>9
    <2>5. /\ \A q \in Reqs \ {r} : At(q, "checked") => req[q].on # s
          /\ new.pc = "checked" => /\ count'[new.on] = 0 /\ sent'[new.on] = {}
                                 /\ data'[new.on] = {} /\ new.on \notin stored'
      BY <1>3, <1>5, <1>6 DEF Accounts, Base, Unshared, At
    <2>6. /\ \A q \in Reqs \ {r} : At(q, "full") /\ req[q].on = s /\ s \in open' => count'[s] >= Size
          /\ new.pc = "full" /\ new.on \in open' => count'[new.on] >= Size
      BY <1>3, <1>5
    <2>7. s \in entries' => data'[s] = Chunks /\ Senders(s)' = {}
      BY <1>6, <1>7
    <2>8. LocalChange(r, new, s)
      BY <2>1, <2>2, <2>3, <2>4, <2>5, <2>6, <2>7 DEF LocalChange
    <2> QED
      BY <1>4, <2>8, LocalStep

LEMMA LocalCancelRelease ==
    ASSUME Accounts, calm, ~s3, once, LocalInv, NEW r \in Reqs, CancelRelease(r)
    PROVE  LocalInv'
  <1>1. PICK new : new = [Idle EXCEPT !.pc = "released", !.on = req[r].on, !.rest = req[r].rest]
    OBVIOUS
  <1>2. new.pc = "released" /\ new.on = req[r].on
    BY <1>1 DEF Idle
  <1>3. req' = [req EXCEPT ![r] = new] /\ req[r].pc = "aborted"
    BY <1>1 DEF CancelRelease, Go, At
  <1>4. new.pc \notin Sending \union {"checked", "full"} /\ req[r].pc \notin Sending
    BY <1>2, <1>3 DEF Sending
  <1>5. Aborted \subseteq Aborted'
    BY <1>2, <1>3, AbortedStep DEF Accounts, Base
  <1> QED
    BY <1>3, <1>4, <1>5, LocalQuiet DEF CancelRelease, rowVars, disk, entryVars, client

LEMMA LocalCancelDelete ==
    ASSUME Accounts, calm, ~s3, once, LocalInv, NEW r \in Reqs, CancelDelete(r)
    PROVE  LocalInv'
  <1>1. PICK s : s = req[r].on
    OBVIOUS
  <1>2. PICK new : req' = [req EXCEPT ![r] = new] /\ new.pc \in {"idle", "cancel"}
    <2>1. CASE req[r].rest = {}
      BY <2>1, IdleIs DEF CancelDelete, Done
    <2>2. CASE req[r].rest # {}
      <3>1. PICK x \in req[r].rest : req' = [req EXCEPT ![r] =
                 [Idle EXCEPT !.pc = "cancel", !.on = x, !.rest = req[r].rest \ {x}]]
        BY <2>2 DEF CancelDelete
      <3> DEFINE n == [Idle EXCEPT !.pc = "cancel", !.on = x, !.rest = req[r].rest \ {x}]
      <3>2. n.pc = "cancel"
        BY DEF Idle
      <3> HIDE DEF n
      <3> QED
        BY <3>1, <3>2 DEF n
    <2> QED
      BY <2>1, <2>2
  <1>3. req[r].pc = "released"
    BY DEF CancelDelete, At
  <1>4. s \in open /\ s \in Sessions /\ s \in born /\ s \notin entries
    BY <1>1, <1>3, CancelOwns DEF Cancelling, Accounts, Base, TypeOK
  <1>5. \A q \in Reqs : At(q, "checked") => req[q].on # s
    BY <1>4 DEF Accounts, Base, Unshared
  <1>6. /\ UNCHANGED <<sent, stored, data, born, entries>>
        /\ open' = open \ {s} /\ count' = [count EXCEPT ![s] = 0]
    BY <1>1 DEF CancelDelete, DropRow, disk, entryVars, client
  <1>7. \A x \in Sessions \ {s} : count'[x] = count[x]
    BY <1>6 DEF Accounts, Base, TypeOK
  <1>8. Aborted \subseteq Aborted' \union {s}
    BY <1>1, <1>2, AbortedStep DEF Accounts, Base
  <1>9. req[r].pc \notin Sending /\ new.pc \notin Sending
    BY <1>2, <1>3 DEF Sending
  <1>10. s \notin stored' => data'[s] = {}
    BY <1>4, <1>6 DEF LocalInv
  <1> QED
    <2>1. LocalChange(r, new, s)
      BY <1>2, <1>4, <1>5, <1>6, <1>7, <1>8, <1>9, <1>10 DEF LocalChange
    <2> QED
      BY <1>2, <2>1, LocalStep

\* A chunk request that begins while another is on its way makes a count get lost.
LEMMA LocalChunkRead ==
    ASSUME Accounts, calm, ~s3, once, LocalInv, NEW r \in Reqs, NEW s \in Sessions,
           NEW i \in Chunks, NEW l \in Lengths, ChunkRead(r, s, i, l)
    PROVE  LocalInv'
  <1>1. PICK new : new = [pc |-> "read", on |-> s, chunk |-> i, len |-> l, count |-> count[s],
                     bytes |-> bytes[s], list |-> etags[s], wb |-> FALSE, rest |-> {}]
    OBVIOUS
  <1>2. new.pc = "read" /\ new.on = s /\ new.chunk = i /\ new.count = count[s]
    BY <1>1
  <1>3. req' = [req EXCEPT ![r] = new] /\ req[r].pc = "idle" /\ s \in open /\ i \notin sent[s]
    BY <1>1 DEF ChunkRead, At
  <1>4. /\ UNCHANGED <<count, data, stored, born, open, entries>>
        /\ sent' = [sent EXCEPT ![s] = @ \union {i}]
    BY DEF ChunkRead, rowVars, disk, entryVars
  <1>5. req'[r] = new /\ \A q \in Reqs \ {r} : req'[q] = req[q]
    BY <1>3, Written DEF Accounts, Base
  <1>6. /\ sent'[s] = sent[s] \union {i}
        /\ \A x \in Sessions \ {s} : sent'[x] = sent[x]
        /\ sent[s] \in SUBSET Chunks /\ count[s] \in Nat
    BY <1>4 DEF Accounts, Base, TypeOK
  <1>7. s \notin entries /\ s \in born /\ \A q \in Reqs : At(q, "checked") => req[q].on # s
    BY <1>3 DEF Accounts, Base, Unshared, TypeOK
  <1>8. Aborted \subseteq Aborted' /\ s \notin Aborted
    <2>1. \A q \in Reqs \ {r} : req[q].pc \in Cancelling => req[q].on # s
      BY DEF ChunkRead, StepsOn, Busy
    <2>2. s \notin Aborted
      BY <1>3, <2>1 DEF Aborted, Cancelling
    <2> QED
      BY <1>3, <2>2, AbortedStep DEF Accounts, Base
  <1>9. Left(s)' = Left(s) - 1 /\ Left(s) \in Nat
    <2>1. Chunks \ sent'[s] = (Chunks \ sent[s]) \ {i} /\ i \in Chunks \ sent[s]
      BY <1>3, <1>6
    <2>2. Cardinality((Chunks \ sent[s]) \ {i}) = Cardinality(Chunks \ sent[s]) - 1
      BY <2>1, LeftNat, FS_RemoveElement DEF Accounts, Base
    <2>3. Left(s)' = Cardinality(Chunks \ sent'[s])
      BY DEF Left, Chunks
    <2> QED
      BY <2>1, <2>2, <2>3, LeftNat DEF Left, Accounts, Base
  <1>10. Senders(s)' = Senders(s) \union {r} /\ r \notin Senders(s)
    <2>1. new.on = s /\ new.pc \in Sending /\ r \notin Senders(s)
      BY <1>2, <1>3 DEF Senders, Sending
    <2> QED
      BY <1>3, <2>1, SendersStep DEF Accounts, Base
  <1>11. Tidy(s)'
    <2>1. Tidy(s)
      BY <1>3, <1>8 DEF LocalInv
    <2>2. CASE Behind(s)
      <3>1. count'[s] + Left(s)' < Size
        BY <1>4, <1>6, <1>9, <2>2, UploadConstants DEF Behind
      <3>2. ASSUME NEW q \in Senders(s)' PROVE req'[q].count + 1 + Left(s)' < Size
        <4>1. CASE q = r
          BY <1>2, <1>5, <1>6, <1>9, <2>2, <4>1, UploadConstants DEF Behind
        <4>2. CASE q # r
          <5>1. q \in Senders(s) /\ req'[q] = req[q] /\ req[q].count \in Nat
            BY <1>5, <1>10, <3>2, <4>2, Fields DEF Senders, Accounts, Base
          <5> QED
            BY <1>9, <2>2, <5>1, UploadConstants DEF Behind
        <4> QED
          BY <4>1, <4>2
      <3> QED
        BY <3>1, <3>2 DEF Tidy, Behind
    <2>3. CASE Quiet(s)
      <3>1. Senders(s)' = {r} /\ count'[s] + 1 + Left(s)' = Size
        BY <1>4, <1>6, <1>9, <1>10, <2>3, UploadConstants DEF Quiet
      <3>2. i \in sent'[s] /\ data'[s] = sent'[s] \ {i}
        BY <1>3, <1>4, <1>6, <2>3 DEF Quiet
      <3>3. OneSender(s, r)'
        BY <1>2, <1>4, <1>5, <3>1, <3>2 DEF OneSender, At
      <3> QED
        BY <3>3 DEF Tidy
    <2>4. ASSUME NEW p \in Reqs, OneSender(s, p) PROVE Tidy(s)'
      <3>1. /\ Senders(s) = {p} /\ req[p].count = count[s] /\ count[s] + 1 + Left(s) = Size
        BY <2>4 DEF OneSender
      <3>2. count'[s] + Left(s)' < Size
        BY <1>4, <1>6, <1>9, <3>1, UploadConstants
      <3>3. ASSUME NEW q \in Senders(s)' PROVE req'[q].count + 1 + Left(s)' < Size
        <4>1. req'[q].count = count[s]
          BY <1>2, <1>5, <1>10, <3>1, <3>3
        <4> QED
          BY <1>6, <1>9, <3>1, <4>1, UploadConstants
      <3> QED
        BY <3>2, <3>3 DEF Tidy, Behind
    <2> QED
      BY <2>1, <2>2, <2>3, <2>4 DEF Tidy
  <1>12. \A q \in Reqs \ {r} : At(q, "full") /\ req[q].on = s /\ s \in open' => count'[s] >= Size
    BY <1>4 DEF LocalInv
  <1>13. s \notin stored' => data'[s] = {}
    BY <1>4 DEF LocalInv
  <1>14. req[r].pc \notin Sending
    BY <1>3 DEF Sending
  <1> QED
    <2>1. /\ req[r].pc \in Sending => req[r].on = s
          /\ new.pc \in Sending => new.on = s
      BY <1>2, <1>14
    <2>2. \A x \in Sessions \ {s} : /\ count'[x] = count[x] /\ sent'[x] = sent[x]
                                     /\ data'[x] = data[x] /\ (x \in stored <=> x \in stored')
      BY <1>4, <1>6
    <2>3. /\ born \subseteq born' /\ open' \subseteq open \union {s} /\ entries' \subseteq entries \union {s}
          /\ open' \intersect Aborted \subseteq Aborted' \union {s}
      BY <1>4, <1>8
    <2>4. /\ s \in Sessions => (s \notin stored' => data'[s] = {})
          /\ s \in Sessions \ born' => Fresh(s)'
          /\ s \in open' \ Aborted' => Tidy(s)'
      BY <1>4, <1>7, <1>11, <1>13
    <2>5. /\ \A q \in Reqs \ {r} : At(q, "checked") => req[q].on # s
          /\ new.pc = "checked" => /\ count'[new.on] = 0 /\ sent'[new.on] = {}
                                 /\ data'[new.on] = {} /\ new.on \notin stored'
      BY <1>2, <1>7
    <2>6. /\ \A q \in Reqs \ {r} : At(q, "full") /\ req[q].on = s /\ s \in open' => count'[s] >= Size
          /\ new.pc = "full" /\ new.on \in open' => count'[new.on] >= Size
      BY <1>2, <1>12
    <2>7. s \in entries' => data'[s] = Chunks /\ Senders(s)' = {}
      BY <1>4, <1>7
    <2>8. LocalChange(r, new, s)
      BY <2>1, <2>2, <2>3, <2>4, <2>5, <2>6, <2>7 DEF LocalChange
    <2> QED
      BY <1>3, <2>8, LocalStep

\* What a request with a chunk on its way knows of its session.
LEMMA SenderKnows ==
    ASSUME Accounts, calm, LocalInv, NEW r \in Reqs, req[r].pc \in Sending,
           NEW s, s = req[r].on
    PROVE  /\ s \in Sessions /\ s \in born /\ s \notin entries /\ s \notin Aborted
           /\ r \in Senders(s)
           /\ s \in open => Tidy(s) /\ count[s] < Size
           /\ \A q \in Reqs : At(q, "checked") => req[q].on # s
           /\ \A q \in Reqs : At(q, "full") => req[q].on # s \/ s \notin open
  <1>1. r \in Senders(s)
    BY DEF Senders
  <1>2. s \notin entries
    BY <1>1 DEF LocalInv
  <1>3. s \in Sessions /\ s \notin Aborted /\ (s \in open => Tidy(s)) /\ s \in born
    BY SendersTidy DEF Sending, Uploading, Accounts, Base, Known
  <1>4. ASSUME s \in open PROVE count[s] < Size
    <2>1. Left(s) \in Nat /\ count[s] \in Nat
      BY <1>3, LeftNat DEF Accounts, Base, TypeOK
    <2>2. CASE Behind(s)
      BY <2>1, <2>2, UploadConstants DEF Behind
    <2>3. CASE Quiet(s)
      BY <1>1, <2>3 DEF Quiet
    <2>4. ASSUME NEW p \in Reqs, OneSender(s, p) PROVE count[s] < Size
      BY <2>1, <2>4, UploadConstants DEF OneSender
    <2> QED
      BY <1>3, <1>4, <2>2, <2>3, <2>4 DEF Tidy
  <1>5. \A q \in Reqs : At(q, "checked") => req[q].on # s
    <2>1. \A q \in Reqs : At(q, "checked") => q # r
      BY DEF At, Sending
    <2> QED
      BY <2>1 DEF Accounts, Base, Unshared, Busy
  <1>6. ASSUME NEW q \in Reqs, At(q, "full"), req[q].on = s, s \in open PROVE FALSE
    <2>1. count[s] >= Size /\ count[s] < Size /\ count[s] \in Nat
      BY <1>3, <1>4, <1>6 DEF LocalInv, Accounts, Base, TypeOK
    <2> QED
      BY <2>1, UploadConstants
  <1> QED
    BY <1>1, <1>2, <1>3, <1>4, <1>5, <1>6

\* A step with which a chunk request stays one: only the file changes.
LEMMA SenderStep ==
    ASSUME Accounts, calm, LocalInv, NEW r \in Reqs, NEW new, req' = [req EXCEPT ![r] = new],
           req[r].pc \in Sending, new.pc \in Sending, NEW s, s = req[r].on, new.on = s,
           new.count = req[r].count,
           UNCHANGED <<count, sent, born, open, entries>>,
           \A x \in Sessions \ {s} : data'[x] = data[x] /\ (x \in stored <=> x \in stored'),
           s \notin stored' => data'[s] = {},
           OneSender(s, r) =>
                /\ new.pc = "written" => data'[s] = sent[s]
                /\ new.pc # "written" =>
                      new.chunk \in sent[s] /\ data'[s] = sent[s] \ {new.chunk}
                /\ new.pc = "looked" => new.wb = (s \notin stored')
    PROVE  LocalInv'
  <1>1. /\ s \in Sessions /\ s \in born /\ s \notin entries /\ s \notin Aborted
        /\ r \in Senders(s)
        /\ s \in open => Tidy(s)
        /\ \A q \in Reqs : At(q, "checked") => req[q].on # s
        /\ \A q \in Reqs : At(q, "full") => req[q].on # s \/ s \notin open
    BY SenderKnows
  <1>2. Senders(s)' = Senders(s)
    <2>1. Senders(s)' = (Senders(s) \ {r}) \union {r}
      BY SendersStep DEF Accounts, Base
    <2> QED
      BY <1>1, <2>1
  <1>3. req'[r] = new /\ \A q \in Reqs \ {r} : req'[q] = req[q]
    BY Written DEF Accounts, Base
  <1>4. Left(s)' = Left(s)
    BY DEF Left, Chunks
  <1>5. ASSUME s \in open PROVE Tidy(s)'
    <2>1. CASE Behind(s)
      <3>1. \A q \in Senders(s) : req'[q].count = req[q].count
        BY <1>3 DEF Senders
      <3> QED
        BY <1>2, <1>4, <2>1, <3>1 DEF Tidy, Behind
    <2>2. ASSUME NEW p \in Reqs, OneSender(s, p) PROVE Tidy(s)'
      <3>1. p = r
        BY <1>1, <2>2 DEF OneSender
      <3>2. OneSender(s, r)'
        BY <1>2, <1>3, <1>4, <2>2, <3>1 DEF OneSender, At
      <3> QED
        BY <3>2 DEF Tidy
    <2>3. ~Quiet(s)
      BY <1>1 DEF Quiet
    <2> QED
      BY <1>1, <1>5, <2>1, <2>2, <2>3 DEF Tidy
  <1>6. Aborted \subseteq Aborted'
    BY AbortedStep DEF Accounts, Base, Sending
  <1>7. new.pc \notin {"checked", "full"}
    BY DEF Sending
  <1>8. LocalChange(r, new, s)
    BY <1>1, <1>5, <1>6, <1>7 DEF LocalChange
  <1> QED
    BY <1>8, LocalStep

LEMMA LocalChunkLook ==
    ASSUME Accounts, calm, ~s3, once, LocalInv, NEW r \in Reqs, ChunkLook(r)
    PROVE  LocalInv'
  <1>1. PICK s : s = req[r].on
    OBVIOUS
  <1>2. PICK new : new = [req[r] EXCEPT !.pc = "looked", !.wb = req[r].on \notin stored]
    OBVIOUS
  <1>3. /\ new.pc = "looked" /\ new.on = s /\ new.count = req[r].count
        /\ new.chunk = req[r].chunk /\ new.wb = (s \notin stored)
    BY <1>1, <1>2, Fields DEF Request, Accounts, Base
  <1>4. req' = [req EXCEPT ![r] = new] /\ req[r].pc = "read"
    BY <1>2 DEF ChunkLook, At
  <1>5. UNCHANGED <<count, sent, born, open, entries, data, stored>>
    BY DEF ChunkLook, rowVars, disk, entryVars, client
  <1>6. s \notin stored => data[s] = {}
    BY <1>1, <1>4, SenderKnows DEF LocalInv, Sending
  <1>7. req[r].pc \in Sending /\ new.pc \in Sending
    BY <1>3, <1>4 DEF Sending
  <1>8. OneSender(s, r) =>
                /\ new.pc = "written" => data'[s] = sent[s]
                /\ new.pc # "written" =>
                      new.chunk \in sent[s] /\ data'[s] = sent[s] \ {new.chunk}
                /\ new.pc = "looked" => new.wb = (s \notin stored')
    BY <1>3, <1>4, <1>5 DEF OneSender, At
  <1> QED
    BY <1>1, <1>3, <1>4, <1>5, <1>6, <1>7, <1>8, SenderStep

LEMMA LocalChunkWrite ==
    ASSUME Accounts, calm, ~s3, once, LocalInv, NEW r \in Reqs, ChunkWrite(r)
    PROVE  LocalInv'
  <1>1. PICK s : s = req[r].on
    OBVIOUS
  <1>2. PICK new : new = [req[r] EXCEPT !.pc = "written", !.chunk = 0, !.wb = FALSE]
    OBVIOUS
  <1>3. new.pc = "written" /\ new.on = s /\ new.count = req[r].count
    BY <1>1, <1>2, Fields DEF Request, Accounts, Base
  <1>4. req' = [req EXCEPT ![r] = new] /\ req[r].pc = "looked"
    BY <1>2 DEF ChunkWrite, At
  <1>5. req[r].pc \in Sending /\ new.pc \in Sending
    BY <1>3, <1>4 DEF Sending
  <1>6. /\ UNCHANGED <<count, sent, born, open, entries>>
        /\ stored' = stored \union {s}
        /\ data' = [data EXCEPT ![s] = (IF req[r].wb THEN {} ELSE @) \union {req[r].chunk}]
    BY <1>1 DEF ChunkWrite, rowVars, entryVars, client
  <1>7. s \in Sessions /\ (s \notin stored => data[s] = {})
    BY <1>1, <1>5, SenderKnows DEF LocalInv
  <1>8. /\ data'[s] = (IF req[r].wb THEN {} ELSE data[s]) \union {req[r].chunk}
        /\ \A x \in Sessions \ {s} : data'[x] = data[x] /\ (x \in stored <=> x \in stored')
    BY <1>6, <1>7 DEF Accounts, Base, TypeOK
  <1>9. OneSender(s, r) => data'[s] = sent[s]
    BY <1>4, <1>7, <1>8 DEF OneSender, At
  <1> QED
    BY <1>1, <1>3, <1>4, <1>5, <1>6, <1>8, <1>9, SenderStep

LEMMA LocalChunkSave ==
    ASSUME Accounts, calm, ~s3, once, LocalInv, NEW r \in Reqs, ChunkSave(r)
    PROVE  LocalInv'
  <1>1. PICK s : s = req[r].on
    OBVIOUS
  <1>2. PICK new : new = [Idle EXCEPT !.pc = "saved", !.on = req[r].on, !.list = req[r].list,
                                 !.count = IF s3 THEN req[r].count + 1 ELSE 0]
    OBVIOUS
  <1>3. new.pc = "saved" /\ new.on = s
    BY <1>1, <1>2 DEF Idle
  <1>4. req' = [req EXCEPT ![r] = new] /\ req[r].pc = "written" /\ s \in open
    BY <1>1, <1>2 DEF ChunkSave, SaveList, At
  <1>5. req[r].pc \in Sending /\ new.pc \notin Sending
    BY <1>3, <1>4 DEF Sending
  <1>6. /\ s \in Sessions /\ s \in born /\ s \notin entries
        /\ r \in Senders(s) /\ Tidy(s)
        /\ \A q \in Reqs : At(q, "checked") => req[q].on # s
        /\ \A q \in Reqs : At(q, "full") => req[q].on # s
    BY <1>1, <1>4, <1>5, SenderKnows
  <1>7. /\ UNCHANGED <<sent, stored, data, born, open, entries>>
        /\ count' = [count EXCEPT ![s] = req[r].count + 1]
    BY <1>1 DEF ChunkSave, disk, entryVars, client
  <1>8. /\ count'[s] = req[r].count + 1 /\ req[r].count \in Nat
        /\ \A x \in Sessions \ {s} : count'[x] = count[x]
    BY <1>6, <1>7, Fields DEF Accounts, Base, TypeOK
  <1>9. Senders(s)' = Senders(s) \ {r} /\ \A q \in Senders(s) \ {r} : req'[q] = req[q]
    <2>1. Senders(s)' = (Senders(s) \ {r}) \union {}
      BY <1>4, <1>5, SendersStep DEF Accounts, Base
    <2> QED
      BY <1>4, <2>1, Written DEF Senders, Accounts, Base
  <1>10. Left(s)' = Left(s) /\ Left(s) \in Nat
    BY <1>6, <1>7, LeftNat DEF Left, Chunks, Accounts, Base
  <1>11. Tidy(s)'
    <2>1. CASE Behind(s)
      BY <1>6, <1>8, <1>9, <1>10, <2>1 DEF Tidy, Behind
    <2>2. ASSUME NEW p \in Reqs, OneSender(s, p) PROVE Quiet(s)'
      <3>1. p = r
        BY <1>6, <2>2 DEF OneSender
      <3>2. Senders(s)' = {} /\ data[s] = sent[s] /\ req[r].count + 1 + Left(s) = Size
        BY <1>4, <1>9, <2>2, <3>1 DEF OneSender, At
      <3> QED
        BY <1>7, <1>8, <1>10, <3>2 DEF Quiet
    <2>3. ~Quiet(s)
      BY <1>6 DEF Quiet
    <2> QED
      BY <1>6, <2>1, <2>2, <2>3 DEF Tidy
  <1>12. Aborted \subseteq Aborted'
    BY <1>4, AbortedStep DEF Accounts, Base
  <1>13. s \notin stored' => data'[s] = {}
    BY <1>6, <1>7 DEF LocalInv
  <1>14. LocalChange(r, new, s)
    BY <1>1, <1>3, <1>5, <1>6, <1>7, <1>8, <1>11, <1>12, <1>13 DEF LocalChange
  <1> QED
    BY <1>4, <1>14, LocalStep

LEMMA LocalChunkRefresh ==
    ASSUME Accounts, calm, ~s3, once, LocalInv, NEW r \in Reqs, ChunkRefresh(r)
    PROVE  LocalInv'
  <1>1. /\ UNCHANGED <<count, sent, stored, data, born, open, entries>>
        /\ req[r].pc = "saved" /\ req[r].on \in open
    BY DEF ChunkRefresh, rowVars, disk, entryVars, client, At
  <1>2. req[r].pc \notin Sending
    BY <1>1 DEF Sending
  <1>3. CASE count[req[r].on] >= Size
    <2>1. PICK new : new = [req[r] EXCEPT !.pc = "full", !.bytes = bytes[req[r].on]]
      OBVIOUS
    <2>2. new.pc = "full" /\ new.on = req[r].on
      BY <2>1, Fields DEF Request, Accounts, Base
    <2>3. req' = [req EXCEPT ![r] = new]
      BY <1>3, <2>1 DEF ChunkRefresh
    <2>4. Aborted \subseteq Aborted'
      BY <1>1, <2>3, AbortedStep DEF Accounts, Base
    <2>5. NoSession \notin Sessions \union open \union entries /\ born \subseteq Sessions
      BY UploadConstants DEF Accounts, Base, TypeOK
    <2>6. \A q \in Reqs \ {r} : At(q, "checked") => req[q].on # NoSession
      BY <2>5 DEF Accounts, Base, Known, At
    <2>7. new.pc \notin Sending
      BY <2>2 DEF Sending
    <2>8. LocalChange(r, new, NoSession)
      BY <1>1, <1>2, <1>3, <2>2, <2>4, <2>5, <2>6, <2>7 DEF LocalChange
    <2> QED
      BY <2>3, <2>8, LocalStep
  <1>4. CASE ~(count[req[r].on] >= Size)
    <2>1. req' = [req EXCEPT ![r] = Idle] /\ Idle.pc \notin Sending \union {"checked", "full"}
      BY <1>4, IdleIs DEF ChunkRefresh, Done, Sending
    <2>2. Aborted \subseteq Aborted'
      BY <1>1, <2>1, AbortedStep DEF Accounts, Base
    <2> QED
      BY <1>1, <1>2, <2>1, <2>2, LocalQuiet
  <1> QED
    BY <1>3, <1>4

\* The request that finds the count complete finds the file complete.
LEMMA LocalComplete ==
    ASSUME Accounts, calm, ~s3, once, LocalInv, NEW r \in Reqs, Complete(r)
    PROVE  LocalInv'
  <1>1. PICK s : s = req[r].on
    OBVIOUS
  <1>2. req' = [req EXCEPT ![r] = Idle] /\ req[r].pc = "full" /\ s \notin entries \union orphaned
    BY <1>1 DEF Complete, Done, At
  <1>3. req[r].pc \in Uploading /\ req[r].pc \notin Sending /\ Idle.pc \notin Sending
    BY <1>2, IdleIs DEF Uploading, Sending
  <1>4. s \in Sessions /\ s \notin Aborted /\ s \in open /\ Tidy(s)
    BY <1>1, <1>2, <1>3, SendersTidy DEF Accounts, Kept, Placed
  <1>5. count[s] >= Size /\ count[s] \in Nat
    BY <1>1, <1>2, <1>4 DEF LocalInv, At, Accounts, Base, TypeOK
  <1>6. data[s] = Chunks /\ Senders(s) = {}
    <2>1. Left(s) \in Nat /\ (Left(s) = 0 <=> sent[s] = Chunks)
      BY <1>4, LeftNat DEF Accounts, Base
    <2>2. ~Behind(s)
      BY <1>5, <2>1, UploadConstants DEF Behind
    <2>3. \A p \in Reqs : ~OneSender(s, p)
      BY <1>5, <2>1, UploadConstants DEF OneSender
    <2>4. Quiet(s)
      BY <1>4, <2>2, <2>3 DEF Tidy
    <2>5. Left(s) = 0
      BY <1>5, <2>1, <2>4, UploadConstants DEF Quiet
    <2> QED
      BY <2>1, <2>4, <2>5 DEF Quiet
  <1>7. /\ UNCHANGED <<sent, stored, data, born>>
        /\ open' = open \ {s} /\ entries' = entries \union {s}
        /\ count' = [count EXCEPT ![s] = 0]
    BY <1>1 DEF Complete, DropRow, disk, client
  <1>8. \A x \in Sessions \ {s} : count'[x] = count[x]
    BY <1>7 DEF Accounts, Base, TypeOK
  <1>9. Senders(s)' = {}
    <2>1. Senders(s)' = (Senders(s) \ {r}) \union {}
      BY <1>2, <1>3, SendersStep DEF Accounts, Base
    <2> QED
      BY <1>6, <2>1
  <1>10. Aborted \subseteq Aborted'
    BY <1>2, AbortedStep DEF Accounts, Base
  <1>11. s \in born /\ \A q \in Reqs \ {r} : At(q, "checked") => req[q].on # s
    BY <1>4 DEF Accounts, Base, TypeOK, Unshared
  <1>12. s \notin stored' => data'[s] = {}
    BY <1>4, <1>7 DEF LocalInv
  <1>13. LocalChange(r, Idle, s)
    BY <1>3, <1>6, <1>7, <1>8, <1>9, <1>10, <1>11, <1>12, IdleIs DEF LocalChange
  <1> QED
    BY <1>2, <1>13, LocalStep

LEMMA LocalPurgeParent ==
    ASSUME Accounts, calm, ~s3, once, LocalInv, NEW s \in Sessions, PurgeParent(s)
    PROVE  LocalInv'
  <1>1. /\ UNCHANGED <<sent, stored, data, born, entries, req>>
        /\ open' = open \ {s} /\ count' = [count EXCEPT ![s] = 0] /\ s \in open
    BY DEF PurgeParent, DropRow, disk, entryVars, client
  <1>2. /\ \A x \in Sessions \ {s} : count'[x] = count[x]
        /\ s \in born /\ \A q \in Reqs : At(q, "checked") => req[q].on \in Sessions \ {s}
    BY <1>1 DEF Accounts, Base, TypeOK, Known, Unshared, At
  <1>3. Aborted' = Aborted /\ \A x : Senders(x)' = Senders(x)
    BY <1>1 DEF Aborted, Senders, Sending
  <1>4. \A x \in Sessions \ {s} : Fresh(x) => Fresh(x)'
    BY <1>1, <1>2 DEF Fresh
  <1>5. ASSUME NEW x \in open' \ Aborted' PROVE Tidy(x)'
    <2>1. x \in Sessions \ {s} /\ Tidy(x)
      BY <1>1, <1>3, <1>5 DEF LocalInv, Accounts, Base, TypeOK
    <2> QED
      BY <1>1, <1>2, <1>3, <2>1, TidyFrame
  <1>6. \A q \in Reqs : (At(q, "checked") => Fresh(req[q].on))'
    <2>1. \A q \in Reqs : At(q, "checked") => Fresh(req[q].on)
      BY DEF LocalInv
    <2> QED
      BY <1>1, <1>2, <2>1 DEF At, Fresh
  <1>7. \A q \in Reqs : At(q, "full") /\ req[q].on \in open' => count'[req[q].on] >= Size
    BY <1>1, <1>2 DEF LocalInv, Accounts, Base, TypeOK
  <1>8. \A x \in Sessions \ born' : Fresh(x)'
    BY <1>1, <1>2, <1>4 DEF LocalInv
  <1>9. /\ \A x \in Sessions : x \notin stored' => data'[x] = {}
        /\ \A x \in entries' : data'[x] = Chunks' /\ Senders(x)' = {}
    BY <1>1, <1>3 DEF LocalInv, Chunks
  <1> QED
    BY <1>1, <1>5, <1>6, <1>7, <1>8, <1>9 DEF LocalInv, At

LEMMA LocalPurgeEntry ==
    ASSUME Accounts, calm, ~s3, once, LocalInv, NEW s \in Sessions, PurgeEntry(s)
    PROVE  LocalInv'
  <1>1. /\ UNCHANGED <<count, sent, born, open, req>>
        /\ stored' = stored \ {s} /\ data' = [data EXCEPT ![s] = {}]
        /\ entries' = entries \ {s} /\ s \in entries
    BY DEF PurgeEntry, rowVars, client
  <1>2. /\ \A x \in Sessions \ {s} : data'[x] = data[x] /\ (x \in stored <=> x \in stored')
        /\ data'[s] = {}
        /\ s \in born /\ \A q \in Reqs : At(q, "checked") => req[q].on \in Sessions \ {s}
    BY <1>1 DEF Accounts, Base, TypeOK, Known, Unshared, At
  <1>3. Aborted' = Aborted /\ \A x : Senders(x)' = Senders(x)
    BY <1>1 DEF Aborted, Senders, Sending
  <1>4. \A x \in Sessions \ {s} : Fresh(x) => Fresh(x)'
    BY <1>1, <1>2 DEF Fresh
  <1>5. ASSUME NEW x \in open' \ Aborted' PROVE Tidy(x)'
    <2>1. x \in Sessions \ {s} /\ Tidy(x)
      BY <1>1, <1>3, <1>5 DEF LocalInv, Accounts, Base, TypeOK
    <2> QED
      BY <1>1, <1>2, <1>3, <2>1, TidyFrame
  <1>6. \A q \in Reqs : (At(q, "checked") => Fresh(req[q].on))'
    <2>1. \A q \in Reqs : At(q, "checked") => Fresh(req[q].on)
      BY DEF LocalInv
    <2> QED
      BY <1>1, <1>2, <2>1 DEF At, Fresh
  <1>7. \A q \in Reqs : At(q, "full") /\ req[q].on \in open' => count'[req[q].on] >= Size
    BY <1>1 DEF LocalInv
  <1>8. \A x \in Sessions \ born' : Fresh(x)'
    BY <1>1, <1>2, <1>4 DEF LocalInv
  <1>9. /\ \A x \in Sessions : x \notin stored' => data'[x] = {}
        /\ \A x \in entries' : data'[x] = Chunks' /\ Senders(x)' = {}
    BY <1>1, <1>2, <1>3 DEF LocalInv, Chunks, Accounts, Base, TypeOK
  <1> QED
    BY <1>1, <1>5, <1>6, <1>7, <1>8, <1>9 DEF LocalInv, At

LEMMA LocalCalibrateRead ==
    ASSUME Accounts, calm, ~s3, once, LocalInv, NEW r \in Reqs, CalibrateRead(r)
    PROVE  LocalInv'
  <1> DEFINE new == [Idle EXCEPT !.pc = "calibrate", !.count = Charge(entries)]
  <1>1. req' = [req EXCEPT ![r] = new] /\ req[r].pc = "idle"
    BY DEF CalibrateRead, At
  <1>2. new.pc \notin Sending \union {"checked", "full"} /\ req[r].pc \notin Sending
    BY <1>1 DEF Idle, Sending
  <1> HIDE DEF new
  <1>3. Aborted \subseteq Aborted'
    BY <1>1, AbortedStep DEF Accounts, Base
  <1> QED
    BY <1>1, <1>2, <1>3, LocalQuiet DEF CalibrateRead, rowVars, disk, entryVars, client

LEMMA LocalCalibrateSave ==
    ASSUME Accounts, calm, ~s3, once, LocalInv, NEW r \in Reqs, CalibrateSave(r)
    PROVE  LocalInv'
  <1>1. req' = [req EXCEPT ![r] = Idle] /\ req[r].pc = "calibrate"
    BY DEF CalibrateSave, Done, At
  <1>2. Idle.pc \notin Sending \union {"checked", "full"} /\ req[r].pc \notin Sending
    BY <1>1, IdleIs DEF Sending
  <1>3. Aborted \subseteq Aborted'
    BY <1>1, AbortedStep DEF Accounts, Base
  <1> QED
    BY <1>1, <1>2, <1>3, LocalQuiet DEF CalibrateSave, disk, entryVars, client

\* A chunk request that ends early leaves a count that can no longer be reached.
LEMMA LocalFail ==
    ASSUME Accounts, calm, ~s3, once, LocalInv, NEW r \in Reqs, Fail(r)
    PROVE  LocalInv'
  <1>1. req' = [req EXCEPT ![r] = Idle] /\ req[r].pc \notin {"aborted", "released"}
    BY DEF Fail, Done
  <1>2. UNCHANGED <<count, sent, stored, data, born, open, entries>>
    BY DEF Fail, rowVars, disk, entryVars, client
  <1>3. Aborted \subseteq Aborted' /\ Idle.pc \notin Sending \union {"checked", "full"}
    BY <1>1, IdleIs, AbortedStep DEF Accounts, Base, Sending
  <1>4. CASE req[r].pc \notin Sending
    BY <1>1, <1>2, <1>3, <1>4, LocalQuiet
  <1>5. CASE req[r].pc \in Sending
    <2>1. PICK s : s = req[r].on
      OBVIOUS
    <2>2. /\ s \in Sessions /\ s \in born /\ s \notin entries /\ s \notin Aborted
          /\ r \in Senders(s)
          /\ s \in open => Tidy(s)
          /\ \A q \in Reqs : At(q, "checked") => req[q].on # s
          /\ \A q \in Reqs : At(q, "full") => req[q].on # s \/ s \notin open
      BY <1>5, <2>1, SenderKnows
    <2>3. Senders(s)' = Senders(s) \ {r} /\ \A q \in Senders(s) \ {r} : req'[q] = req[q]
      <3>1. Senders(s)' = (Senders(s) \ {r}) \union {}
        BY <1>1, <1>3, SendersStep DEF Accounts, Base
      <3> QED
        BY <1>1, <3>1, Written DEF Senders, Accounts, Base
    <2>4. Left(s)' = Left(s) /\ Left(s) \in Nat /\ count[s] \in Nat
      BY <1>2, <2>2, LeftNat DEF Left, Chunks, Accounts, Base, TypeOK
    <2>5. ASSUME s \in open PROVE Behind(s)'
      <3>1. CASE Behind(s)
        BY <1>2, <2>3, <2>4, <3>1 DEF Behind
      <3>2. ASSUME NEW p \in Reqs, OneSender(s, p) PROVE Behind(s)'
        <4>1. Senders(s)' = {} /\ count[s] + 1 + Left(s) = Size
          BY <2>2, <2>3, <3>2 DEF OneSender
        <4>2. count'[s] + Left(s)' < Size
          BY <1>2, <2>4, <4>1, UploadConstants
        <4> QED
          BY <4>1, <4>2 DEF Behind
      <3>3. ~Quiet(s)
        BY <2>2 DEF Quiet
      <3> QED
        BY <2>2, <2>5, <3>1, <3>2, <3>3 DEF Tidy
    <2>6. s \in open => Tidy(s)'
      BY <2>5 DEF Tidy
    <2>7. s \notin stored' => data'[s] = {}
      BY <1>2, <2>2 DEF LocalInv
    <2>8. LocalChange(r, Idle, s)
      BY <1>2, <1>3, <2>1, <2>2, <2>6, <2>7 DEF LocalChange
    <2> QED
      BY <1>1, <2>8, LocalStep
  <1> QED
    BY <1>4, <1>5

LEMMA OnDiskStep == OnDisk /\ [Next]_vars => OnDisk'
  <1> SUFFICES ASSUME OnDisk, [Next]_vars PROVE OnDisk'
    OBVIOUS
  <1>1. Accounts'
    BY AccountsStep DEF OnDisk
  <1>2. UNCHANGED fixed
    BY FixedStep
  <1>3. ASSUME calm, ~s3, once PROVE LocalInv'
    <2>1. CASE UNCHANGED vars
      <3>1. UNCHANGED <<open, count, entries, sent, stored, data, born, req>> /\ LocalInv
        BY <1>3, <2>1 DEF OnDisk, vars, rowVars, disk, entryVars, client
      <3>2. Aborted' = Aborted /\ \A x : Senders(x)' = Senders(x)
        BY <3>1 DEF Aborted, Senders, Sending
      <3>3. \A x : Fresh(x) => Fresh(x)'
        BY <3>1 DEF Fresh
      <3>4. ASSUME NEW x \in open' \ Aborted' PROVE Tidy(x)'
        <4>1. Tidy(x)
          BY <3>1, <3>2, <3>4 DEF LocalInv
        <4> QED
          BY <3>1, <3>2, <4>1, TidyFrame
      <3>5. \A q \in Reqs : (At(q, "checked") => Fresh(req[q].on))'
        <4>1. \A q \in Reqs : At(q, "checked") => Fresh(req[q].on)
          BY <3>1 DEF LocalInv
        <4> QED
          BY <3>1, <4>1 DEF At, Fresh
      <3>6. \A q \in Reqs : (At(q, "full") /\ req[q].on \in open => count[req[q].on] >= Size)'
        BY <3>1 DEF LocalInv, At
      <3>7. /\ \A x \in Sessions : x \notin stored' => data'[x] = {}
            /\ \A x \in entries' : data'[x] = Chunks' /\ Senders(x)' = {}
            /\ \A x \in Sessions \ born' : Fresh(x)'
        BY <3>1, <3>2, <3>3 DEF LocalInv, Chunks
      <3> QED
        BY <3>4, <3>5, <3>6, <3>7 DEF LocalInv, At
    <2>2. ASSUME NEW r \in Reqs, PartUpload(r) \/ PartsComplete(r) PROVE FALSE
      BY <1>3, <2>2 DEF PartUpload, PartsComplete
    <2>3. CASE Next
      BY <1>3, <2>2, <2>3, LocalCreateCheck, LocalCreateCommit, LocalCancelRead,
         LocalClearRead, LocalCancelAbort, LocalCancelRelease, LocalCancelDelete,
         LocalChunkRead, LocalChunkLook, LocalChunkWrite, LocalChunkSave, LocalChunkRefresh,
         LocalComplete, LocalPurgeParent, LocalPurgeEntry, LocalCalibrateRead,
         LocalCalibrateSave, LocalFail DEF OnDisk, Next
    <2> QED
      BY <2>1, <2>3
  <1> QED
    BY <1>1, <1>2, <1>3 DEF OnDisk, fixed

LEMMA ContentInit == Init => InBucket /\ OnDisk
  <1> SUFFICES ASSUME Init PROVE InBucket /\ OnDisk
    OBVIOUS
  <1>1. \A r \in Reqs : req[r].pc = "idle"
    BY IdleIs DEF Init
  <1>2. BucketInv
    BY <1>1 DEF Init, BucketInv, At, Uploading
  <1>3. LocalInv
    BY <1>1 DEF Init, LocalInv, At, Fresh
  <1> QED
    BY <1>2, <1>3, AccountsInit DEF InBucket, OnDisk

\* Every file an upload made is there with all its chunks, for any number of sessions,
\* requests and chunks and however the requests overlap or fail.
THEOREM UploadsContentWhole == Spec => []ContentWhole
  <1>1. InBucket /\ OnDisk => ContentWhole
    <2> SUFFICES ASSUME InBucket, OnDisk, calm, IF s3 THEN serial ELSE once, NEW s \in entries
                 PROVE  s \in stored /\ data[s] = Chunks
      BY DEF ContentWhole
    <2>1. CASE s3
      BY <2>1 DEF InBucket, BucketInv
    <2>2. CASE ~s3
      <3>1. data[s] = Chunks /\ s \in Sessions
        BY <2>2 DEF OnDisk, LocalInv, Accounts, Base, TypeOK
      <3>2. Chunks # {}
        BY ChunksSize, UploadConstants, FS_EmptySet
      <3> QED
        BY <2>2, <3>1, <3>2 DEF OnDisk, LocalInv
    <2> QED
      BY <2>1, <2>2
  <1> QED
    BY <1>1, ContentInit, InBucketStep, OnDiskStep, PTL DEF Spec
=============================================================================
