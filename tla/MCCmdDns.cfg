CONSTANT Programs = {"dns_mac"}
SPECIFICATION CmdSpec
INVARIANT DnsNotBeforeCommand
