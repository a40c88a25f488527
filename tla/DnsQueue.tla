------------------------------ MODULE DnsQueue ------------------------------
(***************************************************************************)
(* libevent_sample/dns/dns.cpp: main puts a url into a queue and signals;  *)
(* a thread waits for it, takes it apart, lets the library resolve the     *)
(* host and puts the result into a second queue, which main empties when   *)
(* the thread has ended. There is one url, so host_ip_m knows no host yet. *)
(*                                                                         *)
(* What the lock covers without a wait is one step.                        *)
(***************************************************************************)
EXTENDS Integers, Sequences

CONSTANT Url   \* the port it gives or -1, whether it has a path, the number
               \* behind a colon of the path or -1, and whether a label of
               \* its domain is too long for a name of the DNS

VARIABLES
  surl_q, ourl_q,
  pc,       \* main: "create", "put", "join", "clean", "over", "undefined"
  tpc,      \* the thread: "none", "check", "wait", "woken", "parse", "resolve",
            \* "stuck", "ended"
  o_url,    \* what it made of the url
  ip        \* the address was stored

dnsVars == <<surl_q, ourl_q, pc, tpc, o_url, ip>>

\* surl2ourl: the domain is all before the first slash, the port with it; the
\* port is read behind the first colon, be it one of the path.
HasColon(u) == u.port >= 0 \/ (u.path /\ u.colon >= 0)
AfterColon(u) == IF u.port >= 0 THEN u.port ELSE u.colon
Surl2ourl(u) ==
  [domain |-> IF u.port >= 0 THEN "host:port" ELSE "host",
   path |-> u.path,
   long |-> u.long,
   port |-> IF HasColon(u) /\ AfterColon(u) # 0 THEN AfterColon(u) ELSE 80]

----------------------------------------------------------------------------
\* pthread_create; its errors are above zero, where main looks below.
Create ==
  /\ pc = "create"
  /\ pc' = "put" /\ tpc' \in {"none", "check"}
  /\ UNCHANGED <<surl_q, ourl_q, o_url, ip>>

\* pthread_cond_signal (mutant: there is none).
Unsignalled(p) == p
Signalled(p) == IF p = "wait" THEN "woken" ELSE p

Put ==
  /\ pc = "put"
  /\ \E u \in Url : surl_q' = Append(surl_q, u)
  /\ tpc' = Signalled(tpc)
  /\ pc' = "join"
  /\ UNCHANGED <<ourl_q, o_url, ip>>

\* Of a thread that was not created: undefined.
Join ==
  /\ pc = "join"
  /\ \/ tpc = "ended" /\ pc' = "clean"
     \/ tpc = "none" /\ pc' \in {"clean", "undefined"}
  /\ UNCHANGED <<surl_q, ourl_q, tpc, o_url, ip>>

Clean ==
  /\ pc = "clean"
  /\ IF ourl_q = <<>> THEN pc' = "over" /\ UNCHANGED ourl_q
                      ELSE ourl_q' = Tail(ourl_q) /\ UNCHANGED pc
  /\ UNCHANGED <<surl_q, tpc, o_url, ip>>

Main == Create \/ Put \/ Join \/ Clean

----------------------------------------------------------------------------
(* url_parse.                                                              *)

\* The loop looks at the queue when it is come to and when it was woken.
Check ==
  /\ tpc \in {"check", "woken"}
  /\ tpc' = IF surl_q = <<>> THEN "wait" ELSE "parse"
  /\ UNCHANGED <<surl_q, ourl_q, pc, o_url, ip>>

Spurious ==
  /\ tpc = "wait" /\ tpc' = "woken"
  /\ UNCHANGED <<surl_q, ourl_q, pc, o_url, ip>>

\* front and pop, and surl2ourl.
Parse ==
  /\ tpc = "parse"
  /\ surl_q' = Tail(surl_q)
  /\ o_url' = Surl2ourl(Head(surl_q)) /\ tpc' = "resolve"
  /\ UNCHANGED <<ourl_q, pc, ip>>

\* dns_callback, and event_dispatch returns. A domain with a port in it is no
\* host; the result of one that fails is dropped.
DnsCallback ==
  /\ tpc = "resolve" /\ ~o_url.long
  /\ \/ /\ o_url.domain = "host"
        /\ ip' = TRUE /\ ourl_q' = Append(ourl_q, o_url)
     \/ UNCHANGED <<ip, ourl_q>>
  /\ tpc' = "ended"
  /\ UNCHANGED <<surl_q, pc, o_url>>

\* evdns_resolve_ipv4 refuses the name, and nobody looks: no callback comes,
\* and event_dispatch waits for the sockets of the name servers for ever.
Refused ==
  /\ tpc = "resolve" /\ o_url.long
  /\ tpc' = "stuck"
  /\ UNCHANGED <<surl_q, ourl_q, pc, o_url, ip>>

UrlParse == Check \/ Parse \/ DnsCallback \/ Refused

----------------------------------------------------------------------------
Init == surl_q = <<>> /\ ourl_q = <<>> /\ pc = "create" /\ tpc = "none" /\ o_url = <<>> /\ ip = FALSE

Next == Main \/ UrlParse \/ Spurious

----------------------------------------------------------------------------
\* The url was taken out, by whichever of the two came first, and the results
\* with it. (Of a name that is refused the thread is stuck, and so is main, which
\* waits for it: taken out the url is all the same.)
Done ==
  \/ pc \in {"over", "undefined"} /\ (tpc = "ended" => surl_q = <<>>) /\ ourl_q = <<>>
  \/ tpc = "stuck" /\ o_url.long /\ surl_q = <<>>
=============================================================================
