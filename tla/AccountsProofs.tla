--------------------------- MODULE AccountsProofs ---------------------------
(***************************************************************************)
(* Type correctness of Accounts, that no row refers to one that is gone,   *)
(* and what a registration leaves behind.                                  *)
(*                                                                         *)
(* The argument about root folders: between the insertion of a user and    *)
(* the end of its registration exactly one request is at work on the       *)
(* address, and the address has no root folder yet; the unique address     *)
(* keeps every other request out.                                          *)
(***************************************************************************)
EXTENDS Accounts, FiniteSetTheorems, TLAPS

\* The request is past the insertion of its user and not yet done with the root.
Settling(w) == work[w].step \in {"password", "github", "root"}

Settled ==
    /\ \A w \in Workers : Settling(w) =>
          /\ group[work[w].email] # "none"
          /\ roots[work[w].email] = {}
          /\ \A v \in Workers : Settling(v) /\ work[v].email = work[w].email => v = w
    /\ \A e \in Emails : group[e] = "none" => roots[e] = {} /\ told[e] = "nothing"
    /\ \A w \in Workers : work[w].step = "move" => group[work[w].email] # "none"

AccountInv == AccountTypeOK /\ ReferencesHold /\ Settled /\ RegisteredHaveRoot /\ OneRoot

-----------------------------------------------------------------------------
(* What the record of a request holds *)

LEMMA InsertShape ==
    ASSUME NEW x \in WorkTypes, x.step \in {"insert", "password", "github", "done"}
    PROVE  /\ x \in [step : {"insert", "password", "github", "done"}, email : Emails,
                     group : Groups, how : {"password", "github", "done"}]
           /\ [x EXCEPT !.step = x.how] \in WorkTypes
           /\ [x EXCEPT !.step = x.how].step = x.how
           /\ [x EXCEPT !.step = x.how].email = x.email
  <1> DEFINE T == [step : {"insert", "password", "github", "done"}, email : Emails,
                   group : Groups, how : {"password", "github", "done"}]
  <1>1. x \in T
    BY DEF WorkTypes, NoWork
  <1>2. [x EXCEPT !.step = x.how] \in T
    BY <1>1
  <1> QED
    BY <1>1, <1>2 DEF WorkTypes

LEMMA RootShape ==
    ASSUME NEW x \in WorkTypes, x.step = "root"
    PROVE  x.email \in Emails /\ x.policy \in Policies /\ x.answer \in {"registered", "welcomed"}
  BY DEF WorkTypes, NoWork

LEMMA OtherShapes ==
    ASSUME NEW x \in WorkTypes
    PROVE  /\ x.step = "move" => x.email \in Emails /\ x.group \in Groups
           /\ x.step = "link" => x.group \in Groups /\ x.policies \in SUBSET Policies
           /\ x.step = "dropGroup" => x.group \in Groups
           /\ x.step = "dropPolicy" => x.policy \in Policies
  BY DEF WorkTypes, NoWork

\* A request at work on a root folder works on an address.
LEMMA SettlingEmail ==
    ASSUME AccountTypeOK, NEW w \in Workers, Settling(w)
    PROVE  work[w].email \in Emails
  <1>1. work[w] \in WorkTypes
    BY DEF AccountTypeOK
  <1> QED
    BY <1>1, InsertShape, RootShape DEF Settling

LEMMA NoWorkShape == NoWork \in WorkTypes /\ NoWork.step = "idle"
  BY DEF WorkTypes, NoWork

\* A request that does anything but settle a root folder disturbs no other.
LEMMA Unsettled ==
    ASSUME AccountTypeOK, Settled, NEW w \in Workers, NEW x,
           x.step \notin {"password", "github", "root"},
           x.step = "move" => x.email \in Emails /\ group[x.email] # "none",
           work' = [work EXCEPT ![w] = x], UNCHANGED <<roots, told>>,
           \A e \in Emails : group'[e] = "none" <=> group[e] = "none"
    PROVE  Settled'
  <1>1. \A v \in Workers : Settling(v)' => v # w /\ Settling(v) /\ work'[v] = work[v]
    BY DEF AccountTypeOK, Settling
  <1>2. \A v \in Workers : Settling(v) => work[v].email \in Emails
    BY SettlingEmail
  <1>3. \A v \in Workers : work'[v].step = "move" =>
            group[work'[v].email] # "none" /\ work'[v].email \in Emails
    <2>1. \A v \in Workers : work[v].step = "move" => work[v].email \in Emails
      BY OtherShapes DEF AccountTypeOK
    <2>2. \A v \in Workers : work'[v] = IF v = w THEN x ELSE work[v]
      BY DEF AccountTypeOK
    <2> QED
      BY <2>1, <2>2 DEF Settled
  <1> QED
    BY <1>1, <1>2, <1>3 DEF Settled

-----------------------------------------------------------------------------

LEMMA AccountInvInit == AccountInit => AccountInv
  <1> SUFFICES ASSUME AccountInit PROVE AccountInv
    OBVIOUS
  <1> USE AccountConstants
  <1>1. PICK R \in {{}, {LocalPolicy}} :
            roots = [e \in Emails |-> IF e = Administrator THEN R ELSE {}]
    BY DEF AccountInit
  <1>2. AccountTypeOK
    BY <1>1, NoWorkShape DEF AccountInit, AccountTypeOK
  <1>3. ReferencesHold
    BY <1>1 DEF AccountInit, ReferencesHold, LiveGroups, LivePolicies
  <1>4. Settled
    BY <1>1, NoWorkShape DEF AccountInit, Settled, Settling
  <1>5. RegisteredHaveRoot
    BY DEF AccountInit, RegisteredHaveRoot
  <1>6. OneRoot
    <2>1. Cardinality({}) = 0 /\ Cardinality({LocalPolicy}) = 1
      BY FS_EmptySet, FS_Singleton
    <2> QED
      BY <1>1, <2>1 DEF OneRoot
  <1> QED
    BY <1>2, <1>3, <1>4, <1>5, <1>6 DEF AccountInv

\* A request that begins, goes on or ends without writing a row.
LEMMA OnlyWork ==
    ASSUME AccountInv, NEW w \in Workers, NEW x \in WorkTypes,
           x.step \notin {"password", "github", "root"},
           x.step = "move" => x.email \in Emails /\ group[x.email] # "none",
           work' = [work EXCEPT ![w] = x], UNCHANGED <<tables, told>>
    PROVE  AccountInv'
  <1>1. UNCHANGED <<group, roots, groups, policies, links, default, told>>
    BY DEF tables
  <1>2. Settled'
    BY <1>1, Unsettled DEF AccountInv
  <1> QED
    BY <1>1, <1>2 DEF AccountInv, AccountTypeOK, ReferencesHold, RegisteredHaveRoot, OneRoot,
        LiveGroups, LivePolicies

\* The first half of every request: it looks and decides.
LEMMA Checks ==
    ASSUME AccountInv, NEW w \in Workers,
           \/ \E e \in Emails, how \in {"password", "github"} : RegisterCheck(w, e, how)
           \/ \E e \in Emails, g \in Groups : AdminCreateUser(w, e, g) \/ MoveUserCheck(w, e, g)
           \/ \E g \in Groups : DeleteGroupCheck(w, g)
           \/ \E p \in Policies : DeletePolicyCheck(w, p)
           \/ Answered(w) \/ WorkerDies(w)
    PROVE  AccountInv'
  <1>1. CASE \E e \in Emails, how \in {"password", "github"} : RegisterCheck(w, e, how)
    <2> PICK e \in Emails, how \in {"password", "github"} : RegisterCheck(w, e, how)
      BY <1>1
    <2> DEFINE x == [step |-> "insert", email |-> e, group |-> default, how |-> how]
    <2>1. x \in WorkTypes /\ x.step = "insert"
      BY DEF WorkTypes, AccountInv, AccountTypeOK
    <2>2. work' = [work EXCEPT ![w] = x] /\ UNCHANGED <<tables, told>>
      BY DEF RegisterCheck, Begins
    <2> HIDE DEF x
    <2> QED
      BY <2>1, <2>2, OnlyWork
  <1>2. CASE \E e \in Emails, g \in Groups : AdminCreateUser(w, e, g)
    <2> PICK e \in Emails, g \in Groups : AdminCreateUser(w, e, g)
      BY <1>2
    <2> DEFINE x == [step |-> "insert", email |-> e, group |-> g, how |-> "done"]
    <2>1. x \in WorkTypes /\ x.step = "insert"
      BY DEF WorkTypes
    <2>2. work' = [work EXCEPT ![w] = x] /\ UNCHANGED <<tables, told>>
      BY DEF AdminCreateUser, Begins
    <2> HIDE DEF x
    <2> QED
      BY <2>1, <2>2, OnlyWork
  <1>3. CASE \E e \in Emails, g \in Groups : MoveUserCheck(w, e, g)
    <2> PICK e \in Emails, g \in Groups : MoveUserCheck(w, e, g)
      BY <1>3
    <2> DEFINE x == [step |-> "move", email |-> e, group |-> g]
    <2>1. x \in WorkTypes /\ x.step = "move"
      BY DEF WorkTypes
    <2>2. work' = [work EXCEPT ![w] = x] /\ UNCHANGED <<tables, told>>
          /\ x.email = e /\ group[e] # "none"
      BY DEF MoveUserCheck, Begins
    <2> HIDE DEF x
    <2> QED
      BY <2>1, <2>2, OnlyWork
  <1>4. CASE \E g \in Groups : DeleteGroupCheck(w, g)
    <2> PICK g \in Groups : DeleteGroupCheck(w, g)
      BY <1>4
    <2> DEFINE x == [step |-> "dropGroup", group |-> g]
    <2>1. x \in WorkTypes /\ x.step = "dropGroup"
      BY DEF WorkTypes
    <2>2. work' = [work EXCEPT ![w] = x] /\ UNCHANGED <<tables, told>>
      BY DEF DeleteGroupCheck, Begins
    <2> HIDE DEF x
    <2> QED
      BY <2>1, <2>2, OnlyWork
  <1>5. CASE \E p \in Policies : DeletePolicyCheck(w, p)
    <2> PICK p \in Policies : DeletePolicyCheck(w, p)
      BY <1>5
    <2> DEFINE x == [step |-> "dropPolicy", policy |-> p]
    <2>1. x \in WorkTypes /\ x.step = "dropPolicy"
      BY DEF WorkTypes
    <2>2. work' = [work EXCEPT ![w] = x] /\ UNCHANGED <<tables, told>>
      BY DEF DeletePolicyCheck, Begins
    <2> HIDE DEF x
    <2> QED
      BY <2>1, <2>2, OnlyWork
  <1>6. CASE Answered(w) \/ WorkerDies(w)
    <2>1. work' = [work EXCEPT ![w] = NoWork] /\ UNCHANGED <<tables, told>>
      BY <1>6 DEF Answered, WorkerDies, Ends
    <2> QED
      BY <2>1, NoWorkShape, OnlyWork
  <1> QED
    BY <1>1, <1>2, <1>3, <1>4, <1>5, <1>6

-----------------------------------------------------------------------------
(* Registration *)

\* A user is inserted whom nobody else is settling.
LEMMA InsertUserStep ==
    ASSUME AccountInv, NEW w \in Workers, InsertUser(w)
    PROVE  AccountInv'
  <1> DEFINE e == work[w].email
             x == [work[w] EXCEPT !.step = work[w].how]
  <1>1. work[w].step = "insert" /\ work[w] \in WorkTypes
    BY DEF InsertUser, AccountInv, AccountTypeOK
  <1>2. e \in Emails /\ work[w].group \in Groups /\ work[w].how \in {"password", "github", "done"}
        /\ x \in WorkTypes /\ x.step = work[w].how /\ x.email = e
    BY <1>1, InsertShape
  <1>3. UNCHANGED <<roots, groups, policies, links, default, told>>
    BY DEF InsertUser
  <1>4. CASE ~(work[w].group \in LiveGroups /\ group[e] = "none")
    <2>1. work' = [work EXCEPT ![w] = NoWork] /\ UNCHANGED group
      BY <1>4 DEF InsertUser, Ends
    <2> QED
      BY <1>3, <2>1, NoWorkShape, OnlyWork DEF tables
  <1>5. CASE work[w].group \in LiveGroups /\ group[e] = "none"
    <2>1. /\ group' = [group EXCEPT ![e] = work[w].group]
          /\ work' = [work EXCEPT ![w] = x]
      BY <1>5 DEF InsertUser, Proceeds
    <2> HIDE DEF x, e
    <2>2. AccountTypeOK'
      BY <1>2, <1>3, <2>1 DEF AccountInv, AccountTypeOK
    <2>3. ReferencesHold'
      BY <1>2, <1>3, <1>5, <2>1 DEF AccountInv, AccountTypeOK, ReferencesHold, LiveGroups,
          LivePolicies
    <2>4. /\ roots[e] = {}
          /\ \A v \in Workers : Settling(v) => work[v].email \in Emails /\ work[v].email # e
      BY <1>2, <1>5, SettlingEmail DEF AccountInv, Settled
    <2>5. \A v \in Workers \ {w} : work'[v] = work[v] /\ (Settling(v)' <=> Settling(v))
      BY <2>1 DEF AccountInv, AccountTypeOK, Settling
    <2>6. work'[w] = x
      BY <2>1 DEF AccountInv, AccountTypeOK
    <2>7. \A f \in Emails : group'[f] = IF f = e THEN work[w].group ELSE group[f]
      BY <2>1 DEF AccountInv, AccountTypeOK
    <2>8. group'[e] # "none"
      BY <1>2, <2>7, AccountConstants
    <2>9. Settled'
      <3>1. ASSUME NEW v \in Workers, Settling(v)'
            PROVE  /\ group'[work'[v].email] # "none"
                   /\ roots'[work'[v].email] = {}
                   /\ \A u \in Workers : Settling(u)' /\ work'[u].email = work'[v].email => u = v
        <4>1. CASE v = w
          BY <1>2, <1>3, <2>4, <2>5, <2>6, <2>8, <4>1
        <4>2. CASE v # w
          <5>1. Settling(v) /\ work'[v] = work[v] /\ work[v].email # e /\ work[v].email \in Emails
            BY <2>4, <2>5, <3>1, <4>2
          <5> QED
            BY <1>2, <1>3, <2>5, <2>6, <2>7, <5>1 DEF AccountInv, Settled
        <4> QED
          BY <4>1, <4>2
      <3>2. \A f \in Emails : group'[f] = "none" => roots'[f] = {} /\ told'[f] = "nothing"
        BY <1>3, <2>7, <2>8 DEF AccountInv, Settled
      <3>3. \A v \in Workers : work'[v].step = "move" => group'[work'[v].email] # "none"
        <4>1. \A v \in Workers : work[v].step = "move" => work[v].email \in Emails
          BY OtherShapes DEF AccountInv, AccountTypeOK
        <4> QED
          BY <1>2, <2>5, <2>6, <2>7, <2>8, <4>1 DEF AccountInv, Settled
      <3> QED
        BY <3>1, <3>2, <3>3 DEF Settled
    <2>10. RegisteredHaveRoot' /\ OneRoot'
      BY <1>3, <2>7, <2>8 DEF AccountInv, RegisteredHaveRoot, OneRoot
    <2> QED
      BY <2>2, <2>3, <2>9, <2>10 DEF AccountInv
  <1> QED
    BY <1>4, <1>5

\* A request that goes on with the root folder of its own address.
LEMMA KeepsSettling ==
    ASSUME AccountInv, NEW w \in Workers, Settling(w), NEW x \in WorkTypes,
           x.step = "root", x.email = work[w].email,
           work' = [work EXCEPT ![w] = x], UNCHANGED <<tables, told>>
    PROVE  AccountInv'
  <1>1. UNCHANGED <<group, roots, groups, policies, links, default, told>>
    BY DEF tables
  <1>2. \A v \in Workers : (Settling(v)' <=> Settling(v)) /\ work'[v].email = work[v].email
    BY DEF AccountInv, AccountTypeOK, Settling
  <1>3. \A v \in Workers : work'[v].step = "move" => work[v].step = "move"
    BY DEF AccountInv, AccountTypeOK
  <1>4. Settled'
    BY <1>1, <1>2, <1>3 DEF AccountInv, Settled
  <1> QED
    BY <1>1, <1>4 DEF AccountInv, AccountTypeOK, ReferencesHold, RegisteredHaveRoot, OneRoot,
        LiveGroups, LivePolicies

LEMMA ChoosePolicyStep ==
    ASSUME AccountInv, NEW w \in Workers, ChoosePolicy(w)
    PROVE  AccountInv'
  <1> DEFINE linked == {p \in Policies : <<work[w].group, p>> \in links}
  <1>1. work[w].step = "password" /\ work[w] \in WorkTypes /\ UNCHANGED <<tables, told>>
    BY DEF ChoosePolicy, AccountInv, AccountTypeOK
  <1>2. CASE linked = {}
    <2>1. work' = [work EXCEPT ![w] = NoWork]
      BY <1>2 DEF ChoosePolicy, Ends
    <2> QED
      BY <1>1, <2>1, NoWorkShape, OnlyWork
  <1>3. CASE linked # {}
    <2> PICK p \in linked : work' = [work EXCEPT ![w] =
            [step |-> "root", email |-> work[w].email, policy |-> p, answer |-> "registered"]]
      BY <1>3 DEF ChoosePolicy
    <2> DEFINE x == [step |-> "root", email |-> work[w].email, policy |-> p,
                     answer |-> "registered"]
    <2>1. x \in WorkTypes /\ x.step = "root" /\ x.email = work[w].email
      BY <1>1, InsertShape DEF WorkTypes
    <2>2. Settling(w) /\ work' = [work EXCEPT ![w] = x]
      BY <1>1 DEF Settling
    <2> HIDE DEF x
    <2> QED
      BY <1>1, <2>1, <2>2, KeepsSettling
  <1> QED
    BY <1>2, <1>3

\* Without the local policy the login answers, and nobody is settled any more.
LEMMA ChooseLocalStep ==
    ASSUME AccountInv, NEW w \in Workers, ChooseLocal(w)
    PROVE  AccountInv'
  <1> DEFINE e == work[w].email
  <1>1. work[w].step = "github" /\ work[w] \in WorkTypes /\ UNCHANGED tables /\ Settling(w)
    BY DEF ChooseLocal, AccountInv, AccountTypeOK, Settling
  <1>2. e \in Emails
    BY <1>1, InsertShape
  <1>3. CASE LocalPolicy \in LivePolicies
    <2> DEFINE x == [step |-> "root", email |-> e, policy |-> LocalPolicy, answer |-> "welcomed"]
    <2>1. x \in WorkTypes /\ x.step = "root" /\ x.email = e
      BY <1>2, AccountConstants DEF WorkTypes
    <2>2. work' = [work EXCEPT ![w] = x] /\ UNCHANGED told
      BY <1>3 DEF ChooseLocal
    <2> HIDE DEF x
    <2> QED
      BY <1>1, <2>1, <2>2, KeepsSettling
  <1>4. CASE LocalPolicy \notin LivePolicies
    <2>1. /\ told' = [told EXCEPT ![e] = "welcomed"]
          /\ work' = [work EXCEPT ![w] = NoWork]
          /\ UNCHANGED <<group, roots, groups, policies, links, default>>
      BY <1>4 DEF ChooseLocal, Ends, tables
    <2> HIDE DEF e
    <2>2. AccountTypeOK'
      BY <1>2, <2>1, NoWorkShape DEF AccountInv, AccountTypeOK
    <2>3. \A v \in Workers :
              /\ Settling(v)' => v # w /\ Settling(v) /\ work'[v] = work[v]
              /\ work'[v].step = "move" => work'[v] = work[v]
      BY <2>1, NoWorkShape DEF AccountInv, AccountTypeOK, Settling
    <2>4. group[e] # "none"
      BY <1>1 DEF AccountInv, Settled, e
    <2>5. Settled'
      BY <1>2, <2>1, <2>3, <2>4 DEF AccountInv, AccountTypeOK, Settled
    <2>6. ReferencesHold' /\ RegisteredHaveRoot' /\ OneRoot'
      BY <1>2, <2>1 DEF AccountInv, AccountTypeOK, ReferencesHold, RegisteredHaveRoot, OneRoot,
          LiveGroups, LivePolicies
    <2> QED
      BY <2>2, <2>5, <2>6 DEF AccountInv
  <1> QED
    BY <1>3, <1>4

\* The address had no root folder; now it has one.
LEMMA InsertRootStep ==
    ASSUME AccountInv, NEW w \in Workers, InsertRoot(w)
    PROVE  AccountInv'
  <1> DEFINE e == work[w].email
             p == work[w].policy
  <1>1. work[w].step = "root" /\ work[w] \in WorkTypes /\ Settling(w)
    BY DEF InsertRoot, AccountInv, AccountTypeOK, Settling
  <1>2. e \in Emails /\ p \in Policies /\ work[w].answer \in {"registered", "welcomed"}
    BY <1>1, RootShape
  <1>3. work' = [work EXCEPT ![w] = NoWork] /\ UNCHANGED <<group, groups, policies, links, default>>
    BY DEF InsertRoot, Ends
  <1>4. CASE p \notin LivePolicies
    <2>1. UNCHANGED <<roots, told>>
      BY <1>4 DEF InsertRoot
    <2> QED
      BY <1>3, <2>1, NoWorkShape, OnlyWork DEF tables
  <1>5. CASE p \in LivePolicies
    <2>1. /\ roots' = [roots EXCEPT ![e] = @ \union {p}]
          /\ told' = [told EXCEPT ![e] = work[w].answer]
      BY <1>5 DEF InsertRoot
    <2>2. /\ group[e] # "none" /\ roots[e] = {}
          /\ \A v \in Workers : Settling(v) /\ work[v].email = e => v = w
      BY <1>1 DEF AccountInv, Settled
    <2> HIDE DEF e, p
    <2>3. \A f \in Emails : /\ roots'[f] = IF f = e THEN {p} ELSE roots[f]
                            /\ told'[f] = IF f = e THEN work[w].answer ELSE told[f]
      BY <2>1, <2>2 DEF AccountInv, AccountTypeOK
    <2>4. AccountTypeOK'
      BY <1>2, <1>3, <2>1, NoWorkShape DEF AccountInv, AccountTypeOK
    <2>5. ReferencesHold'
      BY <1>3, <1>5, <2>3 DEF AccountInv, ReferencesHold, LiveGroups, LivePolicies
    <2>6. \A v \in Workers : Settling(v)' => v # w /\ Settling(v) /\ work'[v] = work[v]
      BY <1>3, NoWorkShape DEF AccountInv, AccountTypeOK, Settling
    <2>7. Settled'
      <3>1. ASSUME NEW v \in Workers, Settling(v)'
            PROVE  /\ group'[work'[v].email] # "none"
                   /\ roots'[work'[v].email] = {}
                   /\ \A u \in Workers : Settling(u)' /\ work'[u].email = work'[v].email => u = v
        <4>1. Settling(v) /\ work'[v] = work[v] /\ work[v].email # e /\ work[v].email \in Emails
          BY <2>2, <2>6, <3>1, SettlingEmail DEF AccountInv
        <4> QED
          BY <1>3, <2>3, <2>6, <4>1 DEF AccountInv, Settled
      <3>2. \A f \in Emails : group'[f] = "none" => roots'[f] = {} /\ told'[f] = "nothing"
        BY <1>3, <2>2, <2>3 DEF AccountInv, Settled
      <3>3. \A v \in Workers : work'[v].step = "move" => group'[work'[v].email] # "none"
        BY <1>3, NoWorkShape DEF AccountInv, AccountTypeOK, Settled
      <3> QED
        BY <3>1, <3>2, <3>3 DEF Settled
    <2>8. RegisteredHaveRoot'
      BY <1>3, <2>2, <2>3 DEF AccountInv, RegisteredHaveRoot
    <2>9. OneRoot'
      <3>1. Cardinality({p}) = 1
        BY FS_Singleton
      <3> QED
        BY <2>3, <3>1 DEF AccountInv, OneRoot
    <2> QED
      BY <2>4, <2>5, <2>7, <2>8, <2>9 DEF AccountInv
  <1> QED
    BY <1>4, <1>5

-----------------------------------------------------------------------------
(* Administration *)

\* What no administration touches stays as it is.
LEMMA Untouched ==
    ASSUME AccountInv, NEW w \in Workers, NEW x \in WorkTypes,
           x.step \notin {"password", "github", "root"},
           x.step = "move" => x.email \in Emails /\ group[x.email] # "none",
           work' = [work EXCEPT ![w] = x], UNCHANGED <<roots, told>>,
           \A e \in Emails : group'[e] = "none" <=> group[e] = "none"
    PROVE  /\ Settled' /\ RegisteredHaveRoot' /\ OneRoot'
           /\ work' \in [Workers -> WorkTypes]
  <1>1. Settled'
    BY Unsettled DEF AccountInv
  <1> QED
    BY <1>1 DEF AccountInv, AccountTypeOK, RegisteredHaveRoot, OneRoot

LEMMA MoveUserStep ==
    ASSUME AccountInv, NEW w \in Workers, MoveUser(w)
    PROVE  AccountInv'
  <1>1. work[w].email \in Emails /\ work[w].group \in Groups
    BY OtherShapes DEF MoveUser, AccountInv, AccountTypeOK
  <1>2. /\ work' = [work EXCEPT ![w] = NoWork]
        /\ UNCHANGED <<roots, groups, policies, links, default, told>>
    BY DEF MoveUser, Ends
  <1>3. CASE work[w].group \notin LiveGroups
    <2>1. UNCHANGED group
      BY <1>3 DEF MoveUser
    <2> QED
      BY <1>2, <2>1, NoWorkShape, OnlyWork DEF tables
  <1>4. CASE work[w].group \in LiveGroups
    <2>1. group' = [group EXCEPT ![work[w].email] = work[w].group]
      BY <1>4 DEF MoveUser
    <2>2. \A e \in Emails : group'[e] = "none" <=> group[e] = "none"
      BY <1>1, <2>1, AccountConstants DEF MoveUser, AccountInv, AccountTypeOK, Settled
    <2>3. Settled' /\ RegisteredHaveRoot' /\ OneRoot' /\ work' \in [Workers -> WorkTypes]
      BY <1>2, <2>2, NoWorkShape, Untouched
    <2>4. AccountTypeOK'
      BY <1>1, <1>2, <2>1, <2>3 DEF AccountInv, AccountTypeOK
    <2>5. ReferencesHold'
      BY <1>1, <1>2, <1>4, <2>1 DEF AccountInv, AccountTypeOK, ReferencesHold, LiveGroups,
          LivePolicies
    <2> QED
      BY <2>3, <2>4, <2>5 DEF AccountInv
  <1> QED
    BY <1>3, <1>4

LEMMA CreateGroupStep ==
    ASSUME AccountInv, NEW w \in Workers, NEW g \in Groups, NEW P \in SUBSET Policies,
           CreateGroup(w, g, P)
    PROVE  AccountInv'
  <1> DEFINE x == [step |-> "link", group |-> g, policies |-> P]
  <1>1. x \in WorkTypes /\ x.step = "link"
    BY DEF WorkTypes
  <1>2. /\ groups' = [groups EXCEPT ![g] = "live"] /\ work' = [work EXCEPT ![w] = x]
        /\ UNCHANGED <<group, roots, policies, links, default, told>>
    BY DEF CreateGroup, Begins
  <1> HIDE DEF x
  <1>3. Settled' /\ RegisteredHaveRoot' /\ OneRoot' /\ work' \in [Workers -> WorkTypes]
    BY <1>1, <1>2, Untouched
  <1>4. AccountTypeOK'
    BY <1>2, <1>3 DEF AccountInv, AccountTypeOK
  <1>5. LiveGroups \subseteq LiveGroups' /\ LivePolicies' = LivePolicies
    BY <1>2 DEF AccountInv, AccountTypeOK, LiveGroups, LivePolicies
  <1>6. ReferencesHold'
    BY <1>2, <1>5 DEF AccountInv, ReferencesHold
  <1> QED
    BY <1>3, <1>4, <1>6 DEF AccountInv

LEMMA UpdateGroupStep ==
    ASSUME AccountInv, NEW w \in Workers, NEW g \in Groups, NEW P \in SUBSET Policies,
           UpdateGroup(w, g, P)
    PROVE  AccountInv'
  <1> DEFINE x == [step |-> "link", group |-> g, policies |-> P]
  <1>1. x \in WorkTypes /\ x.step = "link"
    BY DEF WorkTypes
  <1>2. /\ links' \subseteq links /\ work' = [work EXCEPT ![w] = x]
        /\ UNCHANGED <<group, roots, groups, policies, default, told>>
    BY DEF UpdateGroup, Begins
  <1> HIDE DEF x
  <1>3. Settled' /\ RegisteredHaveRoot' /\ OneRoot' /\ work' \in [Workers -> WorkTypes]
    BY <1>1, <1>2, Untouched
  <1>4. AccountTypeOK' /\ ReferencesHold'
    BY <1>2, <1>3 DEF AccountInv, AccountTypeOK, ReferencesHold, LiveGroups, LivePolicies
  <1> QED
    BY <1>3, <1>4 DEF AccountInv

LEMMA LinkGroupStep ==
    ASSUME AccountInv, NEW w \in Workers, LinkGroup(w)
    PROVE  AccountInv'
  <1> DEFINE new == {work[w].group} \X work[w].policies
  <1>1. /\ work' = [work EXCEPT ![w] = NoWork]
        /\ UNCHANGED <<group, roots, groups, policies, default, told>>
        /\ links' = links \/ (links' = links \union new /\ new \subseteq LiveGroups \X LivePolicies)
    BY DEF LinkGroup, Ends
  <1>2. Settled' /\ RegisteredHaveRoot' /\ OneRoot' /\ work' \in [Workers -> WorkTypes]
    BY <1>1, NoWorkShape, Untouched
  <1>3. LiveGroups' = LiveGroups /\ LivePolicies' = LivePolicies
    BY <1>1 DEF LiveGroups, LivePolicies
  <1>4. LiveGroups \X LivePolicies \subseteq Groups \X Policies
    BY DEF LiveGroups, LivePolicies
  <1> HIDE DEF new
  <1>5. AccountTypeOK'
    BY <1>1, <1>2, <1>4 DEF AccountInv, AccountTypeOK
  <1>6. ReferencesHold'
    BY <1>1, <1>3 DEF AccountInv, ReferencesHold
  <1> QED
    BY <1>2, <1>5, <1>6 DEF AccountInv

\* Nobody is in the group and nothing names it: what is left does not refer to it.
LEMMA DropGroupStep ==
    ASSUME AccountInv, NEW w \in Workers, DropGroup(w)
    PROVE  AccountInv'
  <1> DEFINE g == work[w].group
  <1>1. /\ work' = [work EXCEPT ![w] = NoWork]
        /\ UNCHANGED <<group, roots, policies, default, told>>
    BY DEF DropGroup, Ends
  <1>2. g \in Groups
    BY OtherShapes DEF DropGroup, AccountInv, AccountTypeOK
  <1>3. CASE UNCHANGED <<groups, links>>
    BY <1>1, <1>3, NoWorkShape, OnlyWork DEF tables
  <1>4. CASE g \in LiveGroups /\ g # default /\ \A e \in Emails : group[e] # g
    <2>1. groups' = [groups EXCEPT ![g] = "gone"] /\ links' = {l \in links : l[1] # g}
      BY <1>4 DEF DropGroup
    <2> HIDE DEF g
    <2>2. Settled' /\ RegisteredHaveRoot' /\ OneRoot' /\ work' \in [Workers -> WorkTypes]
      BY <1>1, NoWorkShape, Untouched
    <2>3. LiveGroups' = LiveGroups \ {g} /\ LivePolicies' = LivePolicies
      BY <1>1, <1>2, <2>1 DEF AccountInv, AccountTypeOK, LiveGroups, LivePolicies
    <2>4. AccountTypeOK'
      BY <1>1, <2>1, <2>2 DEF AccountInv, AccountTypeOK
    <2>5. links' \subseteq LiveGroups' \X LivePolicies'
      <3>1. ASSUME NEW l \in links, l[1] # g PROVE l \in (LiveGroups \ {g}) \X LivePolicies
        <4>1. l \in LiveGroups \X LivePolicies
          BY DEF AccountInv, ReferencesHold
        <4> QED
          BY <3>1, <4>1
      <3> QED
        BY <2>1, <2>3, <3>1
    <2>6. ReferencesHold'
      BY <1>1, <1>4, <2>3, <2>5 DEF AccountInv, ReferencesHold
    <2> QED
      BY <2>2, <2>4, <2>6 DEF AccountInv
  <1> QED
    BY <1>3, <1>4 DEF DropGroup

LEMMA DropPolicyStep ==
    ASSUME AccountInv, NEW w \in Workers, DropPolicy(w)
    PROVE  AccountInv'
  <1> DEFINE p == work[w].policy
  <1>1. /\ work' = [work EXCEPT ![w] = NoWork]
        /\ UNCHANGED <<group, roots, groups, default, told>>
    BY DEF DropPolicy, Ends
  <1>2. p \in Policies
    BY OtherShapes DEF DropPolicy, AccountInv, AccountTypeOK
  <1>3. CASE UNCHANGED <<policies, links>>
    BY <1>1, <1>3, NoWorkShape, OnlyWork DEF tables
  <1>4. CASE p \in LivePolicies /\ \A e \in Emails : p \notin roots[e]
    <2>1. policies' = [policies EXCEPT ![p] = "gone"] /\ links' = {l \in links : l[2] # p}
      BY <1>4 DEF DropPolicy
    <2> HIDE DEF p
    <2>2. Settled' /\ RegisteredHaveRoot' /\ OneRoot' /\ work' \in [Workers -> WorkTypes]
      BY <1>1, NoWorkShape, Untouched
    <2>3. LiveGroups' = LiveGroups /\ LivePolicies' = LivePolicies \ {p}
      BY <1>1, <1>2, <2>1 DEF AccountInv, AccountTypeOK, LiveGroups, LivePolicies
    <2>4. AccountTypeOK'
      BY <1>1, <2>1, <2>2 DEF AccountInv, AccountTypeOK
    <2>5. links' \subseteq LiveGroups' \X LivePolicies'
      <3>1. ASSUME NEW l \in links, l[2] # p PROVE l \in LiveGroups \X (LivePolicies \ {p})
        <4>1. l \in LiveGroups \X LivePolicies
          BY DEF AccountInv, ReferencesHold
        <4> QED
          BY <3>1, <4>1
      <3> QED
        BY <2>1, <2>3, <3>1
    <2>6. ReferencesHold'
      BY <1>1, <1>4, <2>3, <2>5 DEF AccountInv, ReferencesHold
    <2> QED
      BY <2>2, <2>4, <2>6 DEF AccountInv
  <1> QED
    BY <1>3, <1>4 DEF DropPolicy

\* One commit, and no request of the model's is concerned.
LEMMA PlainStep ==
    ASSUME AccountInv,
           \/ \E g \in Groups : SetDefault(g)
           \/ \E p \in Policies : CreatePolicy(p)
           \/ UNCHANGED accountVars
    PROVE  AccountInv'
  <1>1. UNCHANGED <<group, roots, groups, links, work, told>>
    BY DEF SetDefault, CreatePolicy, accountVars, tables
  <1>2. /\ policies' \in [Policies -> {"new", "live", "gone"}]
        /\ default' \in Groups /\ groups[default'] = "live"
        /\ LivePolicies \subseteq LivePolicies'
    <2>1. CASE \E g \in Groups : SetDefault(g)
      BY <2>1 DEF SetDefault, AccountInv, AccountTypeOK, ReferencesHold, LiveGroups, LivePolicies
    <2>2. CASE \E p \in Policies : CreatePolicy(p)
      BY <2>2 DEF CreatePolicy, AccountInv, AccountTypeOK, ReferencesHold, LiveGroups, LivePolicies
    <2>3. CASE UNCHANGED accountVars
      BY <2>3 DEF accountVars, tables, AccountInv, AccountTypeOK, ReferencesHold, LiveGroups,
          LivePolicies
    <2> QED
      BY <2>1, <2>2, <2>3
  <1>3. LiveGroups' = LiveGroups
    BY <1>1 DEF LiveGroups
  <1>4. AccountTypeOK'
    BY <1>1, <1>2 DEF AccountInv, AccountTypeOK
  <1>5. ReferencesHold'
    BY <1>1, <1>2, <1>3 DEF AccountInv, ReferencesHold, LiveGroups
  <1>6. Settled' /\ RegisteredHaveRoot' /\ OneRoot'
    BY <1>1 DEF AccountInv, Settled, Settling, RegisteredHaveRoot, OneRoot
  <1> QED
    BY <1>4, <1>5, <1>6 DEF AccountInv

LEMMA AccountInvStep == AccountInv /\ [AccountNext]_accountVars => AccountInv'
  BY Checks, InsertUserStep, ChoosePolicyStep, ChooseLocalStep, InsertRootStep, MoveUserStep,
     CreateGroupStep, UpdateGroupStep, LinkGroupStep, DropGroupStep, DropPolicyStep, PlainStep
  DEF AccountNext

\* The invariant holds in every reachable state.
THEOREM AccountInvariant == AccountSpec => []AccountInv
  BY AccountInvInit, AccountInvStep, PTL DEF AccountSpec

\* The variables keep their types, for any addresses, groups, policies and requests.
THEOREM AccountTypeCorrect == AccountSpec => []AccountTypeOK
  BY AccountInvariant, PTL DEF AccountInv

\* No row refers to a group or a policy that is gone.
THEOREM NothingDangles == AccountSpec => []ReferencesHold
  BY AccountInvariant, PTL DEF AccountInv

\* A registration answered with success has left a user with a root folder.
THEOREM RegistrationsAreWhole == AccountSpec => []RegisteredHaveRoot
  BY AccountInvariant, PTL DEF AccountInv

\* However registrations overlap, no user gets two root folders.
THEOREM RootsAreSingle == AccountSpec => []OneRoot
  BY AccountInvariant, PTL DEF AccountInv
=============================================================================
