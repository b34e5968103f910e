------------------------------ MODULE Bootstrap ------------------------------
(***************************************************************************)
(* The start-up of the process: the default rows, each looked for by name  *)
(* and committed on its own, until requests are served.  It may be killed  *)
(* between any two commits and is started again by whoever runs it; while  *)
(* it serves, an administrator may rename or delete what was created.      *)
(***************************************************************************)
EXTENDS Naturals

CONSTANTS MaxCrashes    \* bound: how often the process is killed

ASSUME BootConstants == MaxCrashes \in Nat

VARIABLES
    done,       \* the default rows the database has
    phase,      \* the next step of start-up, "down", "serving" or "failed"
    crashes,    \* how often the process was killed
    lost        \* rows a kill has left out or an administrator has taken (history)

bootVars == <<done, phase, crashes, lost>>

\* What start-up creates, each row with the step that comes after it.
After ==
    [config |-> "activationMail", activationMail |-> "resetMail", resetMail |-> "policy",
     policy |-> "adminGroup",
     adminGroup |-> "adminLink", adminLink |-> "memberGroup",
     memberGroup |-> "memberLink", memberLink |-> "defaultGroup", defaultGroup |-> "guestGroup",
     guestGroup |-> "admin",
     admin |-> "adminId", adminId |-> "root", root |-> "theme",
     theme |-> "someApps", someApps |-> "allApps", allApps |-> "serving"]

Rows == DOMAIN After

\* Mutant: a configuration that is found ends the whole start-up.
ConfigSettlesAll == [config |-> "serving"]

\* Rows that are looked for, each with the step that comes next if it is found:
\* what was to be created along with it is then taken for granted.
LookedFor == [config |-> "activationMail", activationMail |-> "policy",
              policy |-> "adminGroup", adminGroup |-> "memberGroup",
              memberGroup |-> "guestGroup", guestGroup |-> "admin",
              theme |-> "someApps", someApps |-> "serving"]

\* What is still to be created along with a row that was looked for: killed here,
\* start-up leaves it out for good.
Along == [resetMail |-> {"resetMail"}, adminLink |-> {"adminLink"},
          memberLink |-> {"memberLink", "defaultGroup"}, defaultGroup |-> {"defaultGroup"},
          adminId |-> {"adminId", "root"}, root |-> {"root"}, allApps |-> {"allApps"}]

Remaining == IF phase \in DOMAIN Along THEN Along[phase] ELSE {}

BootInit ==
    /\ done = {}
    /\ phase = "down"
    /\ crashes = 0
    /\ lost = {}

StartUp ==
    /\ phase \in {"down", "failed"}
    /\ phase' = "config"
    /\ UNCHANGED <<done, crashes, lost>>

\* Any mail template will do.
Found(x) == x \in done \/ (x = "activationMail" /\ "resetMail" \in done)

SkipFound ==
    /\ phase \in DOMAIN LookedFor
    /\ Found(phase)
    /\ phase' = LookedFor[phase]
    /\ UNCHANGED <<done, crashes, lost>>

CreateRow ==
    /\ phase \in Rows \ {"admin"}
    /\ phase \in DOMAIN LookedFor => ~Found(phase)
    /\ done' = done \union {phase}
    /\ lost' = lost \ {phase}
    /\ phase' = After[phase]
    /\ UNCHANGED crashes

\* The administrator is known by the id in the configuration ...
SkipAdmin ==
    /\ phase = "admin"
    /\ "adminId" \in done
    /\ phase' = "theme"
    /\ UNCHANGED <<done, crashes, lost>>

\* Mutant: the administrator is created without a look for the old one.
CreateAdminAnyway ==
    /\ phase = "admin"
    /\ IF {"adminGroup", "policy"} \subseteq done /\ "admin" \notin done
       THEN done' = done \union {"admin"} /\ lost' = lost \ {"admin"} /\ phase' = "adminId"
       ELSE phase' = "failed" /\ UNCHANGED <<done, lost>>
    /\ UNCHANGED crashes

\* ... and is created with a fixed address otherwise: that fails, and the
\* start-up with it, if somebody has the address.
CreateAdmin ==
    /\ phase = "admin"
    /\ "adminId" \notin done
    /\ IF {"adminGroup", "policy"} \subseteq done /\ "admin" \notin done
       THEN done' = done \union {"admin"} /\ lost' = lost \ {"admin"} /\ phase' = "adminId"
       ELSE phase' = "failed" /\ UNCHANGED <<done, lost>>
    /\ UNCHANGED crashes

Killed ==
    /\ phase # "down"
    /\ crashes < MaxCrashes
    /\ phase' = "down"
    /\ crashes' = crashes + 1
    /\ lost' = lost \union (Remaining \ done)
    /\ UNCHANGED done

\* What an administrator may rename, unlink, delete or unset; a group takes its
\* link along.
Changes ==
    {{"policy"}, {"adminGroup", "adminLink"}, {"adminLink"}, {"memberGroup", "memberLink"},
     {"memberLink"}, {"defaultGroup"}, {"guestGroup"}, {"adminId"}, {"admin"},
     {"theme"}, {"someApps", "allApps"}}

Change(x) ==
    /\ phase = "serving"
    /\ done' = done \ x
    /\ lost' = lost \union x
    /\ UNCHANGED <<phase, crashes>>

BootNext ==
    \/ StartUp \/ SkipFound \/ CreateRow \/ SkipAdmin \/ CreateAdmin
    \/ Killed \/ \E x \in Changes : Change(x)

\* Whoever runs the process starts it whenever it is down, and it goes on.
BootStep == StartUp \/ SkipFound \/ CreateRow \/ SkipAdmin \/ CreateAdmin
BootFairness == WF_bootVars(BootStep)

BootSpec == BootInit /\ [][BootNext]_bootVars /\ BootFairness

-----------------------------------------------------------------------------
(* Properties *)

BootTypeOK ==
    /\ done \subseteq Rows
    /\ phase \in Rows \union {"down", "serving", "failed"}
    /\ crashes \in 0 .. MaxCrashes
    /\ lost \subseteq Rows

\* What every start-up sees to: the rows it looks for and the administrator's id.
Basics == DOMAIN LookedFor \union {"adminId"}

\* What is there when a start-up comes to serve: all it has looked for, and of the rest
\* everything but what an administrator has taken or a kill has left out between a
\* row and what goes along with it.  No later start-up makes up for that.  From then
\* on the default group of the configuration may be missing, and nobody can register;
\* so may the policy of the members or of the administrators, the administrator's
\* root directory, the second mail template, and some of the applications.
NothingElseMissing ==
    [][phase # "serving" /\ phase' = "serving" =>
          Basics \subseteq done' /\ Rows \ done' \subseteq lost']_bootVars

\* The address is taken and the configuration does not say by whom: the process
\* was killed between the two commits, or the id was unset.  No start-up gets
\* past that.
Unrecorded == "admin" \in done /\ "adminId" \notin done

\* In every other case a process that is started comes to serve, after any crash
\* and whatever the ones before it have left.
StartsAgain == phase # "down" ~> (phase = "serving" \/ Unrecorded)
=============================================================================
