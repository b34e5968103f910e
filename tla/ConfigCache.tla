---------------------------- MODULE ConfigCache ----------------------------
(***************************************************************************)
(* The one row of configuration and its copy in Redis.                     *)
(*                                                                         *)
(* Nearly every request takes the copy or, failing that, reads the row and *)
(* stores what it has read; the administration commits a new row and       *)
(* deletes the copy.  Redis errors are swallowed on both sides, so a copy  *)
(* may be stored after the deletion that was meant for it, or survive one  *)
(* that failed.  A configuration is known by its version.                  *)
(***************************************************************************)
EXTENDS Naturals

CONSTANTS
    Visitors,       \* requests in progress at one time
    MaxVersions     \* bound: versions of the configuration

ASSUME ConfigConstants == MaxVersions \in Nat

VARIABLES
    config,     \* the version in the row
    copy,       \* the key server_config:1
    visitor     \* what each request is doing

configVars == <<config, copy, visitor>>

NoCopy == MaxVersions + 1
NoVisit == [step |-> "idle"]

ConfigInit ==
    /\ config = 0
    /\ copy = NoCopy
    /\ visitor = [v \in Visitors |-> NoVisit]

\* A hit; a miss and an error of Redis look alike.
GetHit(v) ==
    /\ visitor[v].step = "idle"
    /\ copy # NoCopy
    /\ visitor' = [visitor EXCEPT ![v] = [step |-> "ready", hit |-> TRUE]]
    /\ UNCHANGED <<config, copy>>

GetNothing(v) ==
    /\ visitor[v].step = "idle"
    /\ visitor' = [visitor EXCEPT ![v] = [step |-> "load"]]
    /\ UNCHANGED <<config, copy>>

LoadRow(v) ==
    /\ visitor[v].step = "load"
    /\ visitor' = [visitor EXCEPT ![v] = [step |-> "set", version |-> config]]
    /\ UNCHANGED <<config, copy>>

\* SET with a lifetime, or an error that is logged.
SetCopy(v) ==
    /\ visitor[v].step = "set"
    /\ copy' \in {copy, visitor[v].version}
    /\ visitor' = [visitor EXCEPT ![v] = [step |-> "ready", hit |-> FALSE]]
    /\ UNCHANGED config

\* The request is served with the configuration it has, or dies on the way.
Leave(v) ==
    /\ visitor[v].step # "idle"
    /\ visitor' = [visitor EXCEPT ![v] = NoVisit]
    /\ UNCHANGED <<config, copy>>

\* PATCH /admin/settings.  An object that came out of Redis does not belong to
\* the session: the commit may be refused as a second row with the same key.
UpdateRow(v) ==
    /\ visitor[v].step = "ready"
    /\ \/ /\ config < MaxVersions
          /\ config' = config + 1
          /\ visitor' = [visitor EXCEPT ![v] = [step |-> "invalidate"]]
       \/ /\ visitor[v].hit
          /\ visitor' = [visitor EXCEPT ![v] = NoVisit]
          /\ UNCHANGED config
    /\ UNCHANGED copy

\* DEL, or an error that is logged.
Invalidate(v) ==
    /\ visitor[v].step = "invalidate"
    /\ copy' \in {copy, NoCopy}
    /\ visitor' = [visitor EXCEPT ![v] = NoVisit]
    /\ UNCHANGED config

\* Mutant: the copy is stored without ex=.
CopyStays ==
    /\ copy > NoCopy
    /\ copy' = NoCopy
    /\ UNCHANGED <<config, visitor>>

CopyExpires ==
    /\ copy # NoCopy
    /\ copy' = NoCopy
    /\ UNCHANGED <<config, visitor>>

ConfigNext ==
    \/ \E v \in Visitors :
          \/ GetHit(v) \/ GetNothing(v) \/ LoadRow(v) \/ SetCopy(v)
          \/ Leave(v) \/ UpdateRow(v) \/ Invalidate(v)
    \/ CopyExpires

\* Redis drops the key when its time is over.  A request need not go on.
ConfigFairness == WF_configVars(CopyExpires)

ConfigSpec == ConfigInit /\ [][ConfigNext]_configVars /\ ConfigFairness

-----------------------------------------------------------------------------
(* Properties *)

ConfigTypeOK ==
    /\ config \in 0 .. MaxVersions
    /\ copy \in 0 .. NoCopy
    /\ visitor \in [Visitors ->
           [step : {"idle", "load", "invalidate"}] \union
           [step : {"set"}, version : 0 .. MaxVersions] \union
           [step : {"ready"}, hit : BOOLEAN]]

\* Whatever is stored late, lost by Redis or left behind by a request that died,
\* once the administration stops changing it the copy is the row again, for good.
EventuallyFresh == <>[](copy \in {NoCopy, config})
=============================================================================
