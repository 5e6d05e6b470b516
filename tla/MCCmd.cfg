CONSTANT Programs = {"exec_linux", "exec_mac", "net_mac", "dns_linux", "dns_mac", "waiter"}
SPECIFICATION CmdSpec
INVARIANT NotBeforeCommand
PROPERTY EndsAfterCommand
