------------------------------- MODULE CmdMode ------------------------------
(***************************************************************************)
(* "CMD mode": a tracer starts the command it was given, traces while the  *)
(* command runs and ends when it has ended.  Every tracer does it its own  *)
(* way; Programs lists the ways, and one behaviour is of one of them:      *)
(*                                                                         *)
(*   exec_linux   c/exec.c, proc connector loop                            *)
(*   exec_mac     c/exec.c, polling loop                                   *)
(*   net_mac      c/net.c, polling lsof                                    *)
(*   dns_linux    c/dns.c, packet loop, /proc lookups                      *)
(*   dns_mac      c/dns.c, packet loop, lsof lookups                       *)
(*   waiter       a goroutine or thread of its own waits for the command   *)
(*                (net_main of c/net.c on Linux; the Go tracers)           *)
(*                                                                         *)
(* The kernel's signals and children are modelled: a SIGCHLD stays pending *)
(* until the handler runs, between any two steps of the main thread; one   *)
(* that comes before there is a handler is discarded.                      *)
(***************************************************************************)
CONSTANT Programs

VARIABLES prog,      \* which tracer this is
          main,      \* where its main thread is
          handler,   \* SIGCHLD handler installed
          saved,     \* g_child, net_child_pid: the command's pid stored
          cmd,       \* the command: none, running, zombie, reaped
          lsof,      \* the lsof child: none, running, zombie
          pend,      \* SIGCHLD pending
          flag,      \* g_childExited, net_child_done
          timer,     \* the alarm or sleep that ends the tracer is running
          event      \* the connector's exit event of the command: none, queued, read

cmdVars == <<prog, main, handler, saved, cmd, lsof, pend, flag, timer, event>>
children == <<cmd, lsof, pend>>

\* When the handler is installed; whether it looks only for the command's pid
\* (and sets a flag) or takes any child for it (and starts a timer).
Before == {"exec_linux", "exec_mac", "dns_linux", "dns_mac"}
After == {"net_mac"}
OwnChild == {"exec_linux", "exec_mac", "net_mac"}
AnyChild == {"dns_linux", "dns_mac"}
ASSUME ProgramsAssumption == Programs \subseteq Before \cup After \cup {"waiter"}

CmdInit ==
  /\ prog \in Programs
  /\ main = IF prog \in Before THEN "install" ELSE "fork"
  /\ handler = FALSE
  /\ saved = FALSE
  /\ cmd = "none"
  /\ lsof = "none"
  /\ pend = FALSE
  /\ flag = FALSE
  /\ timer = FALSE
  /\ event = "none"

Goto(l) == main' = l /\ UNCHANGED <<prog, handler, saved, flag, timer, event>>

-----------------------------------------------------------------------------
(* Starting the command.                                                   *)

\* net_mac goes on to its seed scan.
Install ==
  /\ main = "install"
  /\ handler' = TRUE
  /\ main' = IF prog \in Before THEN "fork" ELSE "seed"
  /\ lsof' \in IF prog \in After THEN {"running", "none"} ELSE {lsof}
  /\ UNCHANGED <<prog, saved, cmd, pend, flag, timer, event>>

ForkCmd ==
  /\ main = "fork"
  /\ cmd' = "running"
  /\ main' = "save"
  /\ UNCHANGED <<prog, handler, saved, lsof, pend, flag, timer, event>>

\* g_child = pid (dns: pid_set), or the thread that waits for it is started.
Save ==
  /\ main = "save"
  /\ saved' = TRUE
  /\ main' = IF prog \in After THEN "install" ELSE "loop"
  /\ UNCHANGED <<prog, handler, children, flag, timer, event>>

-----------------------------------------------------------------------------
(* The children and the kernel.                                            *)

CmdExit ==
  /\ cmd = "running"
  /\ main # "exited"
  /\ cmd' = "zombie"
  /\ pend' = handler
  /\ UNCHANGED <<prog, main, handler, saved, lsof, flag, timer, event>>

\* The connector's event follows the signal.
CmdExitEvent ==
  /\ prog = "exec_linux"
  /\ cmd \in {"zombie", "reaped"}
  /\ main # "exited"
  /\ event = "none"
  /\ event' = "queued"
  /\ UNCHANGED <<prog, main, handler, saved, children, flag, timer>>

LsofExit ==
  /\ lsof = "running"
  /\ lsof' = "zombie"
  /\ pend' = handler
  /\ UNCHANGED <<prog, main, handler, saved, cmd, flag, timer, event>>

\* Mutants: the child's pid is not compared; one waitpid where a loop is needed.
on_childAny ==
  /\ pend
  /\ main # "exited"
  /\ pend' = FALSE
  /\ cmd' = IF cmd = "zombie" THEN "reaped" ELSE cmd
  /\ lsof' = IF lsof = "zombie" THEN "none" ELSE lsof
  /\ flag' = (flag \/ prog \in OwnChild)
  /\ timer' = (timer \/ prog \in AnyChild)
  /\ UNCHANGED <<prog, main, handler, saved, event>>
on_childOnce ==
  /\ pend
  /\ main # "exited"
  /\ pend' = FALSE
  /\ \/ lsof = "zombie" /\ lsof' = "none" /\ UNCHANGED <<cmd, flag>>
     \/ cmd = "zombie" /\ cmd' = "reaped" /\ UNCHANGED lsof
        /\ flag' = (flag \/ (prog \in OwnChild /\ saved))
     \/ cmd # "zombie" /\ lsof # "zombie" /\ UNCHANGED <<cmd, lsof, flag>>
  /\ timer' = (timer \/ prog \in AnyChild)
  /\ UNCHANGED <<prog, main, handler, saved, event>>

\* on_child, mac_on_child, net_on_sigchld: reap whatever there is to reap.
on_child ==
  /\ pend
  /\ main # "exited"
  /\ pend' = FALSE
  /\ cmd' = IF cmd = "zombie" THEN "reaped" ELSE cmd
  /\ lsof' = IF lsof = "zombie" THEN "none" ELSE lsof
  /\ flag' = (flag \/ (prog \in OwnChild /\ cmd = "zombie" /\ saved))
  /\ timer' = (timer \/ prog \in AnyChild)
  /\ UNCHANGED <<prog, main, handler, saved, event>>

\* cmd.Wait or waitpid in the waiting thread, which then sleeps.
child_waiter ==
  /\ prog = "waiter"
  /\ saved
  /\ cmd = "zombie"
  /\ cmd' = "reaped"
  /\ timer' = TRUE
  /\ UNCHANGED <<prog, main, handler, saved, lsof, pend, flag, event>>

\* on_alarm: _exit(0); os.Exit(0) after the sleep.
on_alarm ==
  /\ timer
  /\ main # "exited"
  /\ Goto("exited")
  /\ UNCHANGED children

-----------------------------------------------------------------------------
(* The main loops.                                                         *)

\* A scan starts lsof and reads its output through a pipe ...
RunLsof(l) ==
  /\ Goto(l)
  /\ lsof' = "running"
  /\ UNCHANGED <<cmd, pend>>

\* ... or returns because it has no arguments, pipe or process for it.
NoLsof(l) ==
  /\ Goto(l)
  /\ UNCHANGED children

\* exec: look at the flag, then wait for an event or sleep and scan.
ExecLoop ==
  /\ prog \in {"exec_linux", "exec_mac"}
  /\ main = "loop"
  /\ Goto(IF flag THEN "exited" ELSE IF prog = "exec_linux" THEN "recv" ELSE "loop")
  /\ UNCHANGED children

\* recvfrom returns an event; it restarts after a signal (SA_RESTART), and a
\* signal sent before the event is handled before it returns.
ExecRecv ==
  /\ prog = "exec_linux"
  /\ main = "recv"
  /\ event = "queued"
  /\ ~pend
  /\ event' = "read"
  /\ main' = "loop"
  /\ UNCHANGED <<prog, handler, saved, children, flag, timer>>

\* Some other process's event.
OtherEvent ==
  /\ prog = "exec_linux"
  /\ main = "recv"
  /\ ~pend
  /\ Goto("loop")
  /\ UNCHANGED children

\* net, macOS: sleep and scan ...
NetScan ==
  /\ prog = "net_mac"
  /\ main = "loop"
  /\ RunLsof("scan")
NetScanFails ==
  /\ prog = "net_mac"
  /\ main = "loop"
  /\ NoLsof("scan")

\* ... wait for lsof, which the handler may have reaped already, if it was started ...
ScanEnd ==
  /\ main \in {"seed", "scan", "final", "lookup"}
  /\ lsof \in {"zombie", "none"}
  /\ lsof' = "none"
  /\ Goto(CASE main = "scan" -> "check"
            [] main = "final" -> "exited"
            [] main \in {"seed", "lookup"} -> "loop")
  /\ UNCHANGED <<cmd, pend>>

\* ... and look at the flag, to scan a last time and end.
NetCheck ==
  /\ main = "check"
  /\ IF flag THEN RunLsof("final") \/ NoLsof("final")
             ELSE Goto("loop") /\ UNCHANGED children

\* dns, macOS: a query's packet makes mac_scan_udp run lsof.
DnsLookup ==
  /\ prog = "dns_mac"
  /\ main = "loop"
  /\ RunLsof("lookup") \/ NoLsof("lookup")

Main == Install \/ ForkCmd \/ Save \/ ExecLoop \/ ExecRecv \/ NetScan \/ NetScanFails \/ ScanEnd \/ NetCheck

Exited == main = "exited" /\ UNCHANGED cmdVars

CmdNext ==
  \/ Main \/ OtherEvent \/ DnsLookup
  \/ CmdExit \/ CmdExitEvent \/ LsofExit
  \/ on_child \/ child_waiter \/ on_alarm
  \/ Exited

\* The threads run, children that have been started end (lsof) or may not (the
\* command), pending signals are delivered and timers run out; of the scans tried again
\* and again some do start lsof.
CmdSpec ==
  /\ CmdInit /\ [][CmdNext]_cmdVars
  /\ WF_cmdVars(Main) /\ SF_cmdVars(NetScan) /\ WF_cmdVars(CmdExitEvent) /\ WF_cmdVars(LsofExit)
  /\ WF_cmdVars(on_child) /\ WF_cmdVars(child_waiter) /\ WF_cmdVars(on_alarm)

-----------------------------------------------------------------------------
(* Properties.                                                             *)

\* The state is well formed, and only net and dns on macOS run lsof.
CmdTypeOK ==
  /\ prog \in Programs
  /\ main \in {"install", "fork", "save", "seed", "loop", "recv", "scan", "check",
              "final", "lookup", "exited"}
  /\ handler \in BOOLEAN
  /\ saved \in BOOLEAN
  /\ pend \in BOOLEAN
  /\ flag \in BOOLEAN
  /\ timer \in BOOLEAN
  /\ cmd \in {"none", "running", "zombie", "reaped"}
  /\ lsof \in {"none", "running", "zombie"}
  /\ event \in {"none", "queued", "read"}
  /\ lsof = "running" => prog \in {"net_mac", "dns_mac"}

\* The tracer does not end before the command has, whatever other children
\* come and go, and it has waited for the command: dns on macOS excepted.
NotBeforeCommand == main = "exited" /\ prog # "dns_mac" => cmd = "reaped"

\* "exit shortly after it ends" (c/dns.c), and not before.
DnsNotBeforeCommand == main = "exited" /\ prog \in AnyChild => cmd = "reaped"

\* Once the command has ended the tracer ends, however soon that was, also when
\* the command was quicker than the tracer's own start: the exec tracers only
\* if its end is noticed after its pid has been stored.
\* net on macOS learns of a command that ended before its handler was installed only from
\* the handler's next call, when some lsof has ended.
EndsAfterCommand ==
  cmd = "zombie" /\ (prog \in {"exec_linux", "exec_mac"} => saved) ~> main = "exited"

\* "the SIGCHLD handler flags exit; on the next loop turn (or right away if
\* already flagged) we IGNORE and exit(0)" (c/exec.c).
ExecEndsAfterCommand ==
  cmd = "zombie" /\ prog \in {"exec_linux", "exec_mac"} ~> main = "exited"

\* Why it holds: what ends a tracer (the flag, the timer) is set when the command is
\* reaped, except that dns on macOS takes lsof for the command.
CmdIInv ==
  /\ CmdTypeOK
  /\ flag => cmd = "reaped"
  /\ timer => prog \in AnyChild \cup {"waiter"}
  /\ timer /\ prog # "dns_mac" => cmd = "reaped"
  /\ pend /\ prog = "dns_linux" => cmd = "zombie"
  /\ main \in {"scan", "check", "final"} => prog = "net_mac"
  /\ main = "fork" \/ (main = "install" /\ prog \in Before) => cmd = "none"
  /\ main = "final" => flag
  /\ NotBeforeCommand

=============================================================================
