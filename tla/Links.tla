-------------------------------- MODULE Links --------------------------------
(***************************************************************************)
(* What reaches a file without its owner's session: shares, source links,  *)
(* download tokens and WOPI tokens, and what takes each of them away.      *)
(*                                                                         *)
(* A request checks in stages, with a query between one and the next, and  *)
(* anything may change in between.  What it checks is kept as facts about  *)
(* the file, and so is what held while it ran.                             *)
(***************************************************************************)
EXTENDS Naturals, Sequences

CONSTANTS
    Files,          \* entries that are files (or folders, when shared)
    Shares,         \* shares; each is created at most once
    NoFile,
    Readers         \* requests in progress at one time; they change nothing for each other

ASSUME LinkConstants == NoFile \notin Files

VARIABLES
    entry,          \* which of {"there", "live", "clean"} each entry is
    share,          \* of which file: NoFile before it is created and when it is deleted
    made,           \* shares that were created
    protected,      \* shares with an extraction code
    lapsed,         \* shares whose time has passed
    external,         \* is_origin_link_enable of the storage policy
    linked,         \* files with a SourceLink
    tokens,         \* files with a download token that has not expired
    sessions,       \* files with a WOPI token that has not expired
    reader,         \* what each request is doing
    held            \* what held at some moment since the request began (history)

shareVars == <<share, made, protected, lapsed>>
fileVars == <<entry, external, linked, tokens, sessions>>
linkVars == <<shareVars, fileVars, reader, held>>

Away == [step |-> "away"]
Enters(r, what) == reader[r] = Away /\ reader' = [reader EXCEPT ![r] = what]
Leaves(r) == reader' = [reader EXCEPT ![r] = Away]

LinksInit ==
    /\ entry = [f \in Files |-> {"there", "live", "clean"}]
    /\ share = [s \in Shares |-> NoFile]
    /\ made = {} /\ protected = {} /\ lapsed = {}
    /\ external \in BOOLEAN
    /\ linked = {} /\ tokens = {} /\ sessions = {}
    /\ reader = [r \in Readers |-> Away]
    /\ held = [r \in Readers |-> {}]

-----------------------------------------------------------------------------
(* The file *)

Becomes(f, what) ==
    /\ entry' = [entry EXCEPT ![f] = what]
    /\ UNCHANGED <<shareVars, external, linked, tokens, sessions, reader>>

Trash(f) == "live" \in entry[f] /\ Becomes(f, entry[f] \ {"live"})
PutBack(f) == "there" \in entry[f] /\ Becomes(f, entry[f] \union {"live"})
BanFile(f) == "there" \in entry[f] /\ Becomes(f, entry[f] \ {"clean"})
UnbanFile(f) == "there" \in entry[f] /\ Becomes(f, entry[f] \union {"clean"})

\* Shares and source links cascade, tokens do not.
PurgeFile(f) ==
    /\ "there" \in entry[f] /\ "live" \notin entry[f]
    /\ entry' = [entry EXCEPT ![f] = {}]
    /\ share' = [s \in Shares |-> IF share[s] = f THEN NoFile ELSE share[s]]
    /\ linked' = linked \ {f}
    /\ UNCHANGED <<made, protected, lapsed, external, tokens, sessions, reader>>

-----------------------------------------------------------------------------
(* What opens it *)

\* In one step, and so is the link below: an entry that is trashed between the
\* look at it and the insert leaves what it leaves right after; one that is purged
\* makes the insert fail.
CreateShare(s, f, code) ==
    /\ s \notin made /\ {"live", "clean"} \subseteq entry[f]
    /\ made' = made \union {s}
    /\ share' = [share EXCEPT ![s] = f]
    /\ protected' = IF code THEN protected \union {s} ELSE protected
    /\ UNCHANGED <<lapsed, fileVars, reader>>

ShareExpires(s) ==
    /\ share[s] # NoFile /\ s \notin lapsed
    /\ lapsed' = lapsed \union {s}
    /\ UNCHANGED <<share, made, protected, fileVars, reader>>

\* By its owner or by the administration.
DeleteShare(s) ==
    /\ share[s] # NoFile
    /\ share' = [share EXCEPT ![s] = NoFile]
    /\ UNCHANGED <<made, protected, lapsed, fileVars, reader>>

SetOrigin(on) ==
    /\ external # on /\ external' = on
    /\ UNCHANGED <<shareVars, entry, linked, tokens, sessions, reader>>

\* One that is there already is used; nothing keeps two requests from making two.
CreateLink(f) ==
    /\ {"live", "clean"} \subseteq entry[f] /\ external
    /\ linked' = linked \union {f}
    /\ UNCHANGED <<shareVars, entry, external, tokens, sessions, reader>>

IssueDownload(f) ==
    /\ {"live", "clean"} \subseteq entry[f]
    /\ tokens' = tokens \union {f}
    /\ UNCHANGED <<shareVars, entry, external, linked, sessions, reader>>

\* create_wopi_session looks neither at deleted_at nor at is_banned.
IssueSession(f) ==
    /\ "there" \in entry[f]
    /\ sessions' = sessions \union {f}
    /\ UNCHANGED <<shareVars, entry, external, linked, tokens, reader>>

TokenExpires(f) ==
    /\ \/ f \in tokens /\ tokens' = tokens \ {f} /\ UNCHANGED sessions
       \/ f \in sessions /\ sessions' = sessions \ {f} /\ UNCHANGED tokens
    /\ UNCHANGED <<shareVars, entry, external, linked, reader>>

-----------------------------------------------------------------------------
(* Requests that come with one *)

\* What holds for a request about a file, by way of a share or of none.  The code
\* of a share is stored as it was given and compared as if it were a hash, which
\* refuses every answer.
Facts(f, s) ==
    entry[f] \union
    {"policy" : x \in {TRUE} \intersect {external}} \union
    {"linked" : x \in {f} \intersect linked} \union
    {"token" : x \in {f} \intersect tokens} \union
    {"session" : x \in {f} \intersect sessions} \union
    (IF s \in Shares /\ share[s] = f
     THEN {"shared"} \union {"fresh" : x \in {s} \ lapsed} \union {"open" : x \in {s} \ protected}
     ELSE {})

\* The stages of a view of a share: the row with its entry; the count of views, a
\* save that fails when the row is gone.
ShareStages == << {"shared", "fresh", "open", "live", "clean"}, {"shared"} >>

\* Mutant: the entry of a source link may be banned.
BannedLinkStages == << {"live"}, {"policy"}, {"linked"}, {"linked"} >>

\* Of a source link: the entry; its policy; the link; the count of downloads.
LinkStages == << {"live", "clean"}, {"policy"}, {"linked"}, {"linked"} >>

\* Of a download: the token; the entry.
TokenStages == << {"token"}, {"live", "clean"} >>

\* Of WOPI's CheckFileInfo and GetFile.
SessionStages == << {"session"}, {"there"} >>

Stages(kind) ==
    CASE kind = "share" -> ShareStages
      [] kind = "link" -> LinkStages
      [] kind = "token" -> TokenStages
      [] kind = "session" -> SessionStages

Knock(r, kind, f, s) ==
    /\ kind = "share" <=> s \in Shares
    /\ s \in Shares => share[s] = f
    /\ Enters(r, [step |-> "check", kind |-> kind, file |-> f, share |-> s, passed |-> 0])
    /\ UNCHANGED <<shareVars, fileVars>>

Waiting(r) == reader[r].step = "check" /\ reader[r].passed < Len(Stages(reader[r].kind))

\* One stage more, or the refusal.
Pass(r) ==
    LET what == reader[r] IN
    /\ Waiting(r)
    /\ IF Stages(what.kind)[what.passed + 1] \subseteq Facts(what.file, what.share)
       THEN reader' = [reader EXCEPT ![r].passed = @ + 1]
       ELSE Leaves(r)
    /\ UNCHANGED <<shareVars, fileVars>>

Granted(r) == reader[r].step = "check" /\ ~ Waiting(r)

\* The answer; it is 404 after all when the content has gone in the meantime.
AnswerReader(r) ==
    /\ Granted(r)
    /\ Leaves(r)
    /\ UNCHANGED <<shareVars, fileVars>>

-----------------------------------------------------------------------------

AllFacts == [f \in Files |-> [s \in Shares \union {NoFile} |-> Facts(f, s)]]

\* What the request has lived through so far.
Lived(r) == IF reader[r].step = "check" THEN held[r]
            ELSE AllFacts[reader'[r].file][reader'[r].share]

LinksStep ==
    \/ \E f \in Files :
          \/ Trash(f) \/ PutBack(f) \/ BanFile(f) \/ UnbanFile(f) \/ PurgeFile(f)
          \/ CreateLink(f) \/ IssueDownload(f) \/ IssueSession(f) \/ TokenExpires(f)
    \/ \E s \in Shares : ShareExpires(s) \/ DeleteShare(s)
    \/ \E on \in BOOLEAN : SetOrigin(on)
    \/ \E s \in Shares, f \in Files, code \in BOOLEAN : CreateShare(s, f, code)
    \/ \E r \in Readers, kind \in {"share", "link", "token", "session"}, f \in Files,
          s \in Shares \union {NoFile} : Knock(r, kind, f, s)
    \/ \E r \in Readers : Pass(r) \/ AnswerReader(r)

LinksNext ==
    /\ LinksStep
    /\ held' = [r \in Readers |->
           IF reader'[r].step # "check" THEN {}
           ELSE Lived(r) \union AllFacts'[reader'[r].file][reader'[r].share]]

LinksSpec == LinksInit /\ [][LinksNext]_linkVars

-----------------------------------------------------------------------------
(* Properties *)

ReaderTypes ==
    {Away} \union
    [step : {"check"}, kind : {"share", "link", "token", "session"}, file : Files,
     share : Shares \union {NoFile}, passed : Nat]

LinksTypeOK ==
    /\ entry \in [Files -> SUBSET {"there", "live", "clean"}]
    /\ share \in [Shares -> Files \union {NoFile}]
    /\ protected \subseteq made /\ lapsed \subseteq made /\ made \subseteq Shares
    /\ external \in BOOLEAN
    /\ linked \subseteq Files /\ tokens \subseteq Files /\ sessions \subseteq Files
    /\ reader \in [Readers -> ReaderTypes]

\* What makes a request legitimate, by its kind.
Required(kind) ==
    CASE kind = "share" -> {"live", "clean", "shared", "fresh", "open"}
      [] kind = "link" -> {"live", "clean", "policy", "linked"}
      [] kind = "token" -> {"live", "clean", "token"}
      [] kind = "session" -> {"there", "session"}

\* What was taken away before a request began does not serve it: the file in the
\* trash or banned, the share deleted or expired, source links switched off by the
\* policy.  A change that comes while the request runs may come too late for it.
\* (WOPI promises less: its requests look at neither trash nor ban.)
RevokedRefused ==
    \A r \in Readers : Granted(r) => Required(reader[r].kind) \subseteq held[r]
=============================================================================
