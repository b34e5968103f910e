------------------------------ MODULE MCServer ------------------------------
(***************************************************************************)
(* The parts of the server that share no state with each other, checked    *)
(* side by side: each behaviour follows one of them, the others stay as    *)
(* they begin.                                                             *)
(***************************************************************************)
EXTENDS Access, ConfigCache, Mail, Sms, Bootstrap

VARIABLE focus      \* the part this behaviour follows

Follow(part) == focus = part /\ UNCHANGED focus

ServerInit ==
    /\ focus \in {"access", "config", "mail", "sms", "boot"}
    /\ AccessInit /\ ConfigInit /\ MailInit /\ SmsInit /\ BootInit

ServerNext ==
    \/ Follow("access") /\ AccessNext /\ UNCHANGED <<configVars, mailVars, smsVars, bootVars>>
    \/ Follow("config") /\ ConfigNext /\ UNCHANGED <<accessVars, mailVars, smsVars, bootVars>>
    \/ Follow("mail") /\ MailNext /\ UNCHANGED <<accessVars, configVars, smsVars, bootVars>>
    \/ Follow("sms") /\ SmsNext /\ UNCHANGED <<accessVars, configVars, mailVars, bootVars>>
    \/ Follow("boot") /\ BootNext /\ UNCHANGED <<accessVars, configVars, mailVars, smsVars>>

serverVars == <<accessVars, configVars, mailVars, smsVars, bootVars, focus>>

\* Two actions can be taken from the start: their fairness is asked for where
\* their part is followed.  Nothing the others are fair about is possible there.
ServerFairness ==
    /\ AccessFairness /\ ConfigFairness
    /\ \A u \in Users : SF_accessVars(focus = "access" /\ DavAsks(u))
    /\ WF_bootVars(focus = "boot" /\ BootStep)

ServerSpec == ServerInit /\ [][ServerNext]_serverVars /\ ServerFairness

\* The types of all parts.
TypeOK == AccessTypeOK /\ ConfigTypeOK /\ MailTypeOK /\ SmsTypeOK /\ BootTypeOK
=============================================================================
