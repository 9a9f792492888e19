-------------------------- MODULE MCLogForwarding --------------------------
(* LogForwarding on small instances. *)
EXTENDS LogForwarding

CONSTANTS l1, a1

Everything == [o \in Outputs |-> Streams]
AuditToSyslog == [o \in Outputs |-> IF o = "syslog" THEN {"audit"} ELSE {"app"}]

Off == [enabled |-> {}, takes |-> Everything, levels |-> {"WARNING", "ERROR"}]
Default == [enabled |-> {"hec"}, takes |-> Everything, levels |-> {"WARNING", "ERROR"}]
ErrorsOnly == [enabled |-> {"hec", "syslog"}, takes |-> AuditToSyslog, levels |-> {"ERROR"}]

ThreeConfigs == {Off, Default, ErrorsOnly}
OnlyDefault == {Default}
NoThreads == {}
OneLogger == {l1}
OneAuditor == {a1}
=============================================================================
