------------------------------- MODULE Accounts -------------------------------
(***************************************************************************)
(* Users, groups and storage policies: registration with its root folder,  *)
(* and the administration that moves users, links groups with policies and *)
(* deletes both.                                                           *)
(*                                                                         *)
(* A request looks first and writes later, and commits more than once; in  *)
(* between another may write.  What holds then is what the constraints of  *)
(* the database hold.                                                      *)
(***************************************************************************)
EXTENDS Naturals, FiniteSets

CONSTANTS
    Emails,
    Administrator,  \* the address of the default administrator
    Groups,         \* groups there may be
    FirstGroup,     \* the group the configuration names at first
    Policies,       \* storage policies there may be
    LocalPolicy,    \* the policy named "本地存储"
    Workers         \* requests in progress at one time

ASSUME AccountConstants ==
    /\ Administrator \in Emails
    /\ FirstGroup \in Groups /\ "none" \notin Groups
    /\ LocalPolicy \in Policies

VARIABLES
    group,      \* column User.group_id, by address ("none": no such user)
    roots,      \* the policies of the root folders a user has
    groups,     \* each group: "new", "live" or "gone"
    policies,   \* each policy: "new", "live" or "gone"
    links,      \* rows of GroupPolicyLink
    default,    \* ServerConfig.default_group_id
    work,       \* what each request is doing
    told        \* what the last registration of an address was answered

tables == <<group, roots, groups, policies, links, default>>
accountVars == <<tables, work, told>>

NoWork == [step |-> "idle"]
LiveGroups == {g \in Groups : groups[g] = "live"}
LivePolicies == {p \in Policies : policies[p] = "live"}

\* The administrator of the first start is there, its root folder as well
\* unless that start was killed before it.
AccountInit ==
    /\ group = [e \in Emails |-> IF e = Administrator THEN FirstGroup ELSE "none"]
    /\ roots \in {[e \in Emails |-> IF e = Administrator THEN R ELSE {}] : R \in {{}, {LocalPolicy}}}
    /\ groups = [g \in Groups |-> IF g = FirstGroup THEN "live" ELSE "new"]
    /\ policies = [p \in Policies |-> IF p = LocalPolicy THEN "live" ELSE "new"]
    /\ links = {<<FirstGroup, LocalPolicy>>}
    /\ default = FirstGroup
    /\ work = [w \in Workers |-> NoWork]
    /\ told = [e \in Emails |-> "nothing"]

Begins(w, what) == work[w] = NoWork /\ work' = [work EXCEPT ![w] = what]
Proceeds(w, step) == work' = [work EXCEPT ![w].step = step]
Ends(w) == work' = [work EXCEPT ![w] = NoWork]

-----------------------------------------------------------------------------
(* Registration *)

\* The address is not taken; the default group is the one of the configuration.
\* how: with a password, or on the first login with GitHub, where nobody looks
\* for the address.
RegisterCheck(w, e, how) ==
    /\ how = "password" => group[e] = "none"
    /\ default \in LiveGroups
    /\ Begins(w, [step |-> "insert", email |-> e, group |-> default, how |-> how])
    /\ UNCHANGED <<tables, told>>

\* The unique address and the key of the group are what decides.
InsertUser(w) ==
    /\ work[w].step = "insert"
    /\ IF work[w].group \in LiveGroups /\ group[work[w].email] = "none"
       THEN /\ group' = [group EXCEPT ![work[w].email] = work[w].group]
            /\ Proceeds(w, work[w].how)
       ELSE Ends(w) /\ UNCHANGED group
    /\ UNCHANGED <<roots, groups, policies, links, default, told>>

\* The first of the group's policies; without one the answer is an error.
ChoosePolicy(w) ==
    LET linked == {p \in Policies : <<work[w].group, p>> \in links} IN
    /\ work[w].step = "password"
    /\ IF linked = {} THEN Ends(w)
       ELSE \E p \in linked :
              work' = [work EXCEPT ![w] =
                  [step |-> "root", email |-> work[w].email, policy |-> p, answer |-> "registered"]]
    /\ UNCHANGED <<tables, told>>

\* The login goes on without a root folder if there is no such policy.
ChooseLocal(w) ==
    /\ work[w].step = "github"
    /\ IF LocalPolicy \in LivePolicies
       THEN /\ work' = [work EXCEPT ![w] =
                  [step |-> "root", email |-> work[w].email, policy |-> LocalPolicy,
                   answer |-> "welcomed"]]
            /\ UNCHANGED told
       ELSE /\ told' = [told EXCEPT ![work[w].email] = "welcomed"]
            /\ Ends(w)
    /\ UNCHANGED tables

\* Mutant: a root folder that cannot be written is passed over.
InsertRootOrNot(w) ==
    LET e == work[w].email IN
    /\ work[w].step = "root"
    /\ roots' = IF work[w].policy \in LivePolicies
                THEN [roots EXCEPT ![e] = @ \union {work[w].policy}] ELSE roots
    /\ told' = [told EXCEPT ![e] = work[w].answer]
    /\ Ends(w)
    /\ UNCHANGED <<group, groups, policies, links, default>>

InsertRoot(w) ==
    LET e == work[w].email IN
    /\ work[w].step = "root"
    /\ IF work[w].policy \in LivePolicies
       THEN /\ roots' = [roots EXCEPT ![e] = @ \union {work[w].policy}]
            /\ told' = [told EXCEPT ![e] = work[w].answer]
       ELSE UNCHANGED <<roots, told>>
    /\ Ends(w)
    /\ UNCHANGED <<group, groups, policies, links, default>>

-----------------------------------------------------------------------------
(* Administration *)

\* A user is created without a root folder.
AdminCreateUser(w, e, g) ==
    /\ group[e] = "none"
    /\ g \in LiveGroups
    /\ Begins(w, [step |-> "insert", email |-> e, group |-> g, how |-> "done"])
    /\ UNCHANGED <<tables, told>>

Answered(w) ==
    /\ work[w].step = "done"
    /\ Ends(w)
    /\ UNCHANGED <<tables, told>>

\* The default administrator stays where it is.
MoveUserCheck(w, e, g) ==
    /\ group[e] # "none" /\ e # Administrator
    /\ g \in LiveGroups
    /\ Begins(w, [step |-> "move", email |-> e, group |-> g])
    /\ UNCHANGED <<tables, told>>

MoveUser(w) ==
    /\ work[w].step = "move"
    /\ group' = IF work[w].group \in LiveGroups
                THEN [group EXCEPT ![work[w].email] = work[w].group] ELSE group
    /\ Ends(w)
    /\ UNCHANGED <<roots, groups, policies, links, default, told>>

\* The group is committed, and then its links.
CreateGroup(w, g, P) ==
    /\ groups[g] = "new"
    /\ groups' = [groups EXCEPT ![g] = "live"]
    /\ Begins(w, [step |-> "link", group |-> g, policies |-> P])
    /\ UNCHANGED <<group, roots, policies, links, default, told>>

\* The old links go in one commit, the new ones come in another.
UpdateGroup(w, g, P) ==
    /\ g \in LiveGroups
    /\ links' = {l \in links : l[1] # g}
    /\ Begins(w, [step |-> "link", group |-> g, policies |-> P])
    /\ UNCHANGED <<group, roots, groups, policies, default, told>>

\* All of them or none: the keys must exist and no row may be there already.
LinkGroup(w) ==
    LET new == {work[w].group} \X work[w].policies IN
    /\ work[w].step = "link"
    /\ links' = IF /\ new \subseteq LiveGroups \X LivePolicies
                   /\ new \intersect links = {}
                THEN links \union new ELSE links
    /\ Ends(w)
    /\ UNCHANGED <<group, roots, groups, policies, default, told>>

DeleteGroupCheck(w, g) ==
    /\ g \in LiveGroups
    /\ \A e \in Emails : group[e] # g
    /\ Begins(w, [step |-> "dropGroup", group |-> g])
    /\ UNCHANGED <<tables, told>>

\* Mutant: the count is trusted.
DropGroupCounted(w) ==
    LET g == work[w].group IN
    /\ work[w].step = "dropGroup"
    /\ groups' = [groups EXCEPT ![g] = "gone"]
    /\ links' = {l \in links : l[1] # g}
    /\ Ends(w)
    /\ UNCHANGED <<group, roots, policies, default, told>>

\* The keys that point to the group restrict the deletion; its links go with it.
DropGroup(w) ==
    LET g == work[w].group IN
    /\ work[w].step = "dropGroup"
    /\ IF g \in LiveGroups /\ g # default /\ \A e \in Emails : group[e] # g
       THEN /\ groups' = [groups EXCEPT ![g] = "gone"]
            /\ links' = {l \in links : l[1] # g}
       ELSE UNCHANGED <<groups, links>>
    /\ Ends(w)
    /\ UNCHANGED <<group, roots, policies, default, told>>

SetDefault(g) ==
    /\ g \in LiveGroups
    /\ default' = g
    /\ UNCHANGED <<group, roots, groups, policies, links, work, told>>

CreatePolicy(p) ==
    /\ policies[p] = "new"
    /\ policies' = [policies EXCEPT ![p] = "live"]
    /\ UNCHANGED <<group, roots, groups, links, default, work, told>>

DeletePolicyCheck(w, p) ==
    /\ p \in LivePolicies
    /\ \A e \in Emails : p \notin roots[e]
    /\ Begins(w, [step |-> "dropPolicy", policy |-> p])
    /\ UNCHANGED <<tables, told>>

DropPolicy(w) ==
    LET p == work[w].policy IN
    /\ work[w].step = "dropPolicy"
    /\ IF p \in LivePolicies /\ \A e \in Emails : p \notin roots[e]
       THEN /\ policies' = [policies EXCEPT ![p] = "gone"]
            /\ links' = {l \in links : l[2] # p}
       ELSE UNCHANGED <<policies, links>>
    /\ Ends(w)
    /\ UNCHANGED <<group, roots, groups, default, told>>

WorkerDies(w) ==
    /\ work[w] # NoWork
    /\ Ends(w)
    /\ UNCHANGED <<tables, told>>

-----------------------------------------------------------------------------

AccountNext ==
    \/ \E w \in Workers, e \in Emails, how \in {"password", "github"} : RegisterCheck(w, e, how)
    \/ \E w \in Workers, e \in Emails, g \in Groups :
          AdminCreateUser(w, e, g) \/ MoveUserCheck(w, e, g)
    \/ \E w \in Workers, g \in Groups, P \in SUBSET Policies :
          CreateGroup(w, g, P) \/ UpdateGroup(w, g, P)
    \/ \E w \in Workers, g \in Groups : DeleteGroupCheck(w, g)
    \/ \E w \in Workers, p \in Policies : DeletePolicyCheck(w, p)
    \/ \E w \in Workers :
          \/ InsertUser(w) \/ ChoosePolicy(w) \/ ChooseLocal(w) \/ InsertRoot(w) \/ Answered(w)
          \/ MoveUser(w) \/ LinkGroup(w) \/ DropGroup(w) \/ DropPolicy(w) \/ WorkerDies(w)
    \/ \E g \in Groups : SetDefault(g)
    \/ \E p \in Policies : CreatePolicy(p)

AccountSpec == AccountInit /\ [][AccountNext]_accountVars

-----------------------------------------------------------------------------
(* Properties *)

WorkTypes ==
    {NoWork} \union
    [step : {"insert", "password", "github", "done"}, email : Emails, group : Groups,
     how : {"password", "github", "done"}] \union
    [step : {"root"}, email : Emails, policy : Policies, answer : {"registered", "welcomed"}] \union
    [step : {"move"}, email : Emails, group : Groups] \union
    [step : {"link"}, group : Groups, policies : SUBSET Policies] \union
    [step : {"dropGroup"}, group : Groups] \union
    [step : {"dropPolicy"}, policy : Policies]

AccountTypeOK ==
    /\ group \in [Emails -> Groups \union {"none"}]
    /\ roots \in [Emails -> SUBSET Policies]
    /\ groups \in [Groups -> {"new", "live", "gone"}]
    /\ policies \in [Policies -> {"new", "live", "gone"}]
    /\ links \subseteq Groups \X Policies
    /\ default \in Groups
    /\ work \in [Workers -> WorkTypes]
    /\ told \in [Emails -> {"nothing", "registered", "welcomed"}]

\* Whoever counted nobody and deletes later, and whoever found a group or a policy
\* and uses it later: no row ever refers to one that is gone.
ReferencesHold ==
    /\ \A e \in Emails : group[e] \in LiveGroups \union {"none"} /\ roots[e] \subseteq LivePolicies
    /\ links \subseteq LiveGroups \X LivePolicies
    /\ default \in LiveGroups

\* A registration that was answered with success has left a user with a root
\* folder, whatever was deleted, relinked or killed meanwhile, and nothing takes
\* either of them away again.
RegisteredHaveRoot ==
    \A e \in Emails : told[e] = "registered" => group[e] # "none" /\ roots[e] # {}

\* Overlapping registrations of one address give it one root folder: no index
\* says so (the parent of a root is NULL), get_root takes it for granted.
OneRoot == \A e \in Emails : Cardinality(roots[e]) <= 1
=============================================================================
