----------------------------- MODULE MCDnsCache -----------------------------
(* One name, a known type and one without a name in dns.TypeToString, an    *)
(* answer below the floor and one above the ceiling.                        *)
EXTENDS DnsCache

CONSTANTS t1, t2
=============================================================================
