---------------------------- MODULE Healthcheck -----------------------------
(***************************************************************************)
(* The -healthcheck probe (checker/server/healthcheck.go, and the first    *)
(* lines of ListenAndServe): the same binary, given the same address,      *)
(* asks the server that listens there for /health and exits 0 or 1.  The   *)
(* server may start, fail, hang and stop at any time meanwhile.            *)
(*                                                                         *)
(* An address is a host and a port, by the forms the code or the libraries *)
(* tell apart, or the empty string.                                        *)
(***************************************************************************)
EXTENDS Integers

CONSTANTS
  MaxChanges    \* bound: changes of the server's condition

ASSUME ChangesAreNat == MaxChanges \in Nat

\* "" is a host left out, "named" any host or address but the other ones, and
\* "zoned" an IPv6 address with a zone.
Hosts == {"", "0.0.0.0", "::", "127.0.0.1", "::1", "named", "zoned"}

\* A number other than 0, the name of a service, 0, and a port left out.
Ports == {"number", "service", "0", ""}

Empty == [host |-> "", port |-> "missing"]          \* the address ""
Addresses == [host : Hosts, port : Ports] \cup {Empty}

VARIABLES
  addr,         \* the address both processes were given
  server,       \* the server's condition
  pc,           \* where the probe is
  dialled,      \* the host and port it dials
  exit,         \* its exit code
  seen,         \* history: conditions the server had since it was dialled
  timedOut,     \* history: did the two seconds expire?
  changes       \* history: changes of the server's condition

probeVars == <<addr, server, pc, dialled, exit, seen, timedOut, changes>>

\* "failing" answers /health with another status than 2xx (a wrapped handler
\* can), "stuck" accepts connections and does not answer.
Conditions == {"down", "up", "failing", "stuck"}

Unset == [host |-> "none", port |-> "none"]
Running == 2                                        \* not an exit code

ProbeInit ==
  /\ addr \in Addresses
  /\ server \in Conditions
  /\ pc = "resolve"
  /\ dialled = Unset
  /\ exit = Running
  /\ seen = {server}
  /\ timedOut = FALSE
  /\ changes = 0

-----------------------------------------------------------------------------
(* Addresses.                                                               *)

\* What net.Listen binds: a host left out and "::" both families, 0.0.0.0 only
\* IPv4, and port 0 or none a port of the system's choice.
ListensOn(a) ==
  [host : CASE a.host \in {"", "::"} -> {"127.0.0.1", "::1", "named"}
            [] a.host = "0.0.0.0" -> {"127.0.0.1", "named"}
            [] OTHER -> {a.host},
   port : {IF a.port = "missing" THEN "80" ELSE
           IF a.port \in {"0", ""} THEN "chosen" ELSE a.port}]

normalizeHealthcheckAddr(a) ==
  CASE a.host = "" /\ a # Empty -> [a EXCEPT !.host = "127.0.0.1"]
    [] a.host = "::" -> [a EXCEPT !.host = "::1"]
    [] OTHER -> a

\* Mutant: every wildcard becomes the IPv6 loopback.
LocalHostV6(a) == IF a.host \in {"", "0.0.0.0", "::"} THEN "::1" ELSE a.host

\* The host of the URL, for a normalized address.
LocalHost(a) == IF a.host \in {"", "0.0.0.0", "::"} THEN "127.0.0.1" ELSE a.host

\* net.SplitHostPort wants a colon; net/url wants a numeric port and the zone's
\* percent sign escaped.
Invalid(a) == a = Empty \/ a.port = "service" \/ a.host = "zoned"

\* The addresses whose probe dials what the server listens on.
Probeable(a) == a.port = "number" /\ a.host # "zoned"

-----------------------------------------------------------------------------
(* The probe.                                                               *)

\* runHealthcheck returns, and ListenAndServe exits.
Exits(code) == pc' = "exited" /\ exit' = code

\* The address is rewritten and the URL built.
ResolveAddr ==
  /\ pc = "resolve"
  /\ LET a == normalizeHealthcheckAddr(addr)
     IN IF Invalid(a)
          THEN Exits(1) /\ UNCHANGED dialled
          ELSE /\ dialled' = [host |-> LocalHost(a),
                             port |-> IF a.port = "" THEN "80" ELSE a.port]
               /\ pc' = "dial"
               /\ UNCHANGED exit
  /\ UNCHANGED <<addr, server, seen, timedOut, changes>>

\* (On a port of its own: nothing else listens where the server does not.)
Reachable == server # "down" /\ dialled \in ListensOn(addr)

Connect ==
  /\ pc = "dial"
  /\ Reachable
  /\ pc' = "await"
  /\ seen' = {server}
  /\ UNCHANGED <<addr, server, dialled, exit, timedOut, changes>>

Refused ==
  /\ pc = "dial"
  /\ ~Reachable
  /\ Exits(1)
  /\ seen' = {server}
  /\ UNCHANGED <<addr, server, dialled, timedOut, changes>>

\* The response is healthy if its status is 2xx.
Answer ==
  /\ pc = "await"
  /\ server \in {"up", "failing"}
  /\ Exits(IF server = "up" THEN 0 ELSE 1)
  /\ UNCHANGED <<addr, server, dialled, seen, timedOut, changes>>

\* The server went away under the request; another one may run by now.
Lost ==
  /\ pc = "lost"
  /\ Exits(1)
  /\ UNCHANGED <<addr, server, dialled, seen, timedOut, changes>>

\* The two seconds of the context and of the client.
Timeout ==
  /\ pc \in {"dial", "await", "lost"}
  /\ Exits(1)
  /\ timedOut' = TRUE
  /\ UNCHANGED <<addr, server, dialled, seen, changes>>

\* The server process does what it likes; a connection does not survive it.
ServerChanges ==
  /\ pc # "exited"
  /\ changes < MaxChanges
  /\ changes' = changes + 1
  /\ server' \in Conditions \ {server}
  /\ seen' = seen \cup {server'}
  /\ pc' = IF pc = "await" /\ server' = "down" THEN "lost" ELSE pc
  /\ UNCHANGED <<addr, dialled, exit, timedOut>>

ProbeStep == ResolveAddr \/ Connect \/ Refused \/ Answer \/ Lost \/ Timeout

ProbeNext == ProbeStep \/ ServerChanges

ProbeSpec == ProbeInit /\ [][ProbeNext]_probeVars

-----------------------------------------------------------------------------
(* Properties.                                                              *)

\* The exit code is about the server of this address, as it was while it was
\* probed.  A bad one means that the server was down or failing at some time since
\* it was dialled or that the two seconds were over, whatever it was before and
\* whatever else it does meanwhile, for every form of address that can be
\* probed; a good one that it was well at some time since.
VerdictIsJustified ==
  /\ exit = 1 => ~Probeable(addr) \/ timedOut \/ seen \cap {"down", "failing"} # {}
  /\ exit = 0 => "up" \in seen /\ dialled \in ListensOn(addr)
=============================================================================
