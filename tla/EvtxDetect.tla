----------------------------- MODULE EvtxDetect -----------------------------
(* The detection rules over the events of a log (_detect of                 *)
(* analyze/evtx.py). A rule reads the events of some ids; what it says of   *)
(* them is a set of findings, each a rule and a severity. Texts a rule      *)
(* searches are members of small sets.                                      *)
EXTENDS Integers, Sequences, FiniteSets

CONSTANTS
    SprayUsers,   \* accounts one source must fail on (5)
    BruteFails,   \* failures one account must have (10)
    RarePorts,    \* connections to uncommon ports (3)
    Lockouts,     \* account lockouts (3)
    NtlmLogons    \* NTLM authentications (5)

LOW == 30
MEDIUM == 50
HIGH == 70
CRITICAL == 90
Finding(rule, severity) == [rule |-> rule, severity |-> severity]
If(holds, rule, severity) == IF holds THEN {Finding(rule, severity)} ELSE {}

Blank == ""   \* what is said of a field that is not there
F(ev, name) == IF name \in DOMAIN ev.fields THEN ev.fields[name] ELSE Blank
Either(ev, name, other) == IF name \in DOMAIN ev.fields THEN ev.fields[name] ELSE F(ev, other)
Of(events, ids) == {i \in DOMAIN events : events[i].id \in ids}
Where(events, ids, Test(_)) == {i \in Of(events, ids) : Test(events[i])}
Seen(events, ids, Test(_)) == Where(events, ids, Test) # {}

Ip(text) == IF text \in {"-", "LOCAL", Blank, "::1", "127.0.0.1", "hostname"} THEN Blank ELSE text
SourceIp(ev) == Ip(F(ev, "IpAddress"))

(* Rules 1 to 3: cleared logs and roastable tickets.                        *)
WeakEtypes == {"0x17", "0x18", "0x3", "23", "24", "3"}
MachineAccounts == {Blank, "HOST$"}
Cleared(events) ==
    If(Of(events, {"1102"}) # {}, "security_log_cleared", CRITICAL)
    \cup If(Seen(events, {"104"}, LAMBDA ev : F(ev, "Channel") = "System" \/ F(ev, "Provider") = "Eventlog"),
            "system_log_cleared", CRITICAL)
Roasted(events) ==
    LET Weak(ev) == F(ev, "TicketEncryptionType") \in WeakEtypes
    IN  If(Seen(events, {"4769"}, LAMBDA ev : Weak(ev) /\ F(ev, "ServiceName") \notin MachineAccounts),
           "kerberoasting", HIGH)
        \cup If(Seen(events, {"4768"}, Weak), "asrep_roasting", HIGH)

(* Rules 4 and 5: guessed passwords. A success counts as following failures *)
(* when the account failed anywhere in the log, before or after.            *)
FailSource(ev) ==
    IF F(ev, "IpAddress") # Blank THEN SourceIp(ev) ELSE Ip(F(ev, "WorkstationName"))
User(ev) == F(ev, "TargetUserName")
Guessed(events) ==
    LET failed == Of(events, {"4625"})
        Victims(source) == {User(events[i]) : i \in {j \in failed : FailSource(events[j]) = source}}
        sources == {FailSource(events[i]) : i \in failed} \ {Blank}
        Fails(user) == {i \in failed : User(events[i]) = user}
    IN  UNION {
          If(\E s \in sources : Cardinality(Victims(s)) >= SprayUsers, "pass_spray", HIGH),
          If(\E i \in failed : Cardinality(Fails(User(events[i]))) >= BruteFails, "bruteforce_logon", HIGH),
          If(Seen(events, {"4624"}, LAMBDA ev : Fails(User(ev)) # {}), "success_after_failures", HIGH)}

(* Rules 6 to 8: logons that move sideways.                                 *)
Logons(events) ==
    UNION {
      If(Seen(events, {"4624"}, LAMBDA ev : F(ev, "LogonType") = "10"), "rdp_logon", MEDIUM),
      If(Seen(events, {"4624"}, LAMBDA ev : F(ev, "LogonType") = "3" /\ SourceIp(ev) # Blank), "network_logon", LOW),
      If(Of(events, {"4648"}) # {}, "explicit_credential_logon", MEDIUM)}

(* Rules 9 to 11 and 25: processes and scripts. A command line is encoded,  *)
(* suspicious, or both.                                                     *)
Lolbins == {"certutil.exe", "wmic.exe"}
Encoded == {"encoded", "encoded and suspicious"}
Suspicious == {"suspicious", "encoded and suspicious"}
Processes(events) ==
    LET encoded == {F(events[i], "CommandLine") : i \in
                       Where(events, {"4688"}, LAMBDA ev : F(ev, "CommandLine") \in Encoded)}
    IN  UNION {
          If(Seen(events, {"4688"}, LAMBDA ev : F(ev, "NewProcessName") \in Lolbins), "lolbin_execution", MEDIUM),
          If(encoded # {}, "encoded_powershell", HIGH),
          If(Seen(events, {"4688"}, LAMBDA ev : F(ev, "CommandLine") \in Suspicious \ encoded),
             "suspicious_cmdline", MEDIUM),
          If(Seen(events, {"4104"}, LAMBDA ev : F(ev, "ScriptBlockText") \in Suspicious),
             "suspicious_ps_script_block", HIGH)}
WmiProcesses(events) ==
    If(Seen(events, {"4688"}, LAMBDA ev : F(ev, "ParentProcessName") \in {"wmiprvse.exe", "wmic.exe"}
                                         \/ F(ev, "NewProcessName") = "wmic.exe"),
       "wmi_execution", MEDIUM)

(* Rules 12 to 15: persistence and accounts.                                *)
Persistence(events) ==
    UNION {
      If(Of(events, {"4698"}) # {}, "scheduled_task_created", HIGH),
      If(Of(events, {"7045", "4697"}) # {}, "new_service", HIGH),
      If(Of(events, {"4720"}) # {}, "account_created", HIGH)}
SensitiveGroups == {"Domain Admins", "Backup Operators", "Helpdesk Admin"}
(* Mutant: one harmless change hides the sensitive ones.                    *)
GroupChangesAll(events) ==
    LET changes == Of(events, {"4728", "4732", "4756"})
        sensitive == {i \in changes : User(events[i]) \in SensitiveGroups}
    IN  If(changes # {} /\ sensitive = changes, "sensitive_group_change", HIGH)
        \cup If(changes # sensitive, "group_membership_change", LOW)
GroupChanges(events) ==
    LET changes == Of(events, {"4728", "4732", "4756"})
        sensitive == {i \in changes : User(events[i]) \in SensitiveGroups}
    IN  If(sensitive # {}, "sensitive_group_change", HIGH)
        \cup If(changes # {} /\ sensitive = {}, "group_membership_change", LOW)

(* Rules 16 to 19: shares, privileges, LSASS and pipes.                     *)
SharesAndPrivileges(events) ==
    UNION {
      If(Seen(events, {"5140"}, LAMBDA ev : F(ev, "ShareName") \in {"ADMIN$", "C$", "D$", "IPC$"}),
         "admin_share_access", MEDIUM),
      If(Seen(events, {"4672"}, LAMBDA ev : F(ev, "SubjectUserName") \notin {"SYSTEM", "HOST$"}),
         "privileged_logon", MEDIUM)}
CredentialStores(events) ==
    UNION {
      If(Seen(events, {"10"}, LAMBDA ev : F(ev, "TargetImage") \in {"lsass.exe", "lsaiso.exe"}),
         "lsass_access", CRITICAL),
      If(Seen(events, {"18"}, LAMBDA ev : F(ev, "PipeName") = "\\lsass"), "pipe_lsass_connect", CRITICAL),
      If(Seen(events, {"17"}, LAMBDA ev : F(ev, "Image") = "temp"), "pipe_create_suspicious", HIGH)}

(* Rule 20: of several detections of one threat the last tells how bad.     *)
Threat(ev) == Either(ev, "Threat Name", "ThreatName")
ThreatSeverity(ev) == Either(ev, "Severity Name", "SeverityName")
Defender(events) ==
    LET seen == Of(events, {"1116"})
        latest == {i \in seen : \A j \in seen : Threat(events[j]) = Threat(events[i]) => j <= i}
        severe == \E i \in latest : ThreatSeverity(events[i]) \in {"Severe", "High"}
    IN  If(seen # {}, "defender_threat_detected", IF severe THEN CRITICAL ELSE HIGH)
        \cup If(Of(events, {"1117"}) # {}, "defender_threat_actioned", HIGH)

(* Rules 21 to 24 and 26 to 28.                                             *)
CommonPorts == {"80", "443", "8080", "8443", "53", "22", "25", "3389"}
NetworkAndFirewall(events) ==
    If(Cardinality(Where(events, {"3"}, LAMBDA ev :
           F(ev, "DestinationPort") \notin CommonPorts \cup {Blank, "1023"})) >= RarePorts, "sysmon_rare_port", LOW)
    \cup If(Seen(events, {"4950", "2004"}, LAMBDA ev : F(ev, "SettingValue") \in {"Disabled", "Off"}),
            "firewall_disabled", HIGH)
AccountTrouble(events) ==
    UNION {
      If(Cardinality(Of(events, {"4740"})) >= Lockouts, "account_lockout", LOW),
      If(Of(events, {"4723", "4724"}) # {}, "password_reset", MEDIUM),
      If(Cardinality(Of(events, {"4776"})) >= NtlmLogons, "ntlm_auth", LOW)}
Registry(events) ==
    If(Seen(events, {"4657", "12", "13"}, LAMBDA ev : Either(ev, "ObjectName", "TargetObject") = "Run"),
       "registry_persistence", HIGH)
RemoteThreads(events) ==
    If(Seen(events, {"8"}, LAMBDA ev : F(ev, "SourceImage") # "werfault.exe"), "create_remote_thread", CRITICAL)

Findings(events) ==
    UNION {Cleared(events), Roasted(events), Guessed(events), Logons(events), Processes(events),
           WmiProcesses(events), Persistence(events), GroupChanges(events), SharesAndPrivileges(events),
           CredentialStores(events), Defender(events), NetworkAndFirewall(events), AccountTrouble(events),
           Registry(events), RemoteThreads(events)}
=============================================================================
