------------------------------- MODULE SpxAccess -------------------------------
(***************************************************************************)
(* Who may use SPX over HTTP: check_access of src/src/php_spx.c and        *)
(* spx_utils_ip_match of src/src/spx_utils.c.                              *)
(*                                                                         *)
(* An address is its text and the number inet_addr makes of it, which is   *)
(* INADDR_NONE when it is none.  A list of targets is the set of its       *)
(* tokens; the empty set is a list that is not set.                        *)
(***************************************************************************)
EXTENDS Integers

CONSTANTS
  Bits,      \* of an address, 32
  Hosts      \* the texts of addresses and targets

ASSUME AccessAssumption == Bits \in Nat /\ Bits >= 2

\* 2^n, by a definition that proofs can be about.
TwoTo[n \in Nat] == IF n = 0 THEN 1 ELSE 2 * TwoTo[n - 1]

INADDR_NONE == TwoTo[Bits] - 1

Address == [text : Hosts \cup {""}, ip : 0..INADDR_NONE]

\* What $_SERVER has no entry for.
NoAddress == [text |-> "", ip |-> INADDR_NONE]

\* bits is what strtol reads behind the slash, 0 when there is no slash or
\* when its sides are too long or too short.
Target == [text : Hosts \cup {"*"}, ip : 0..INADDR_NONE, bits : Int]

\* The part of the address that a mask of so many bits leaves.
Masked(ip, bits) == ip \div TwoTo[Bits - bits]

InSubnet(address, target) ==
  Masked(address.ip, target.bits) = Masked(target.ip, target.bits)

ip_match(address, target) ==
  /\ address # NoAddress
  /\ \/ target.text = "*"
     \/ target.text = address.text
     \/ /\ target.ip # INADDR_NONE /\ target.bits \in 1..Bits - 1
        /\ address.ip # INADDR_NONE
        /\ InSubnet(address, target)

\* The ini entries spx.http_*; ip_var names the entry of $_SERVER.
Gate == [enabled : BOOLEAN, ip_var : {"", "REMOTE_ADDR", "FORWARDED"},
         trusted_proxies : SUBSET Target, ip_whitelist : SUBSET Target]

TrustsProxy(gate, server) ==
  gate.ip_var = "REMOTE_ADDR"
  \/ \E t \in gate.trusted_proxies : ip_match(server["REMOTE_ADDR"], t)

IsListed(gate, server) ==
  LET client == server[gate.ip_var]
  IN  client.text # "" /\ \E t \in gate.ip_whitelist : ip_match(client, t)

\* http_key is the ini entry, key what the client gives; NULL and "" are unset.
\* Keys are taken to be shorter than 256 characters, where the comparison of
\* spx_crypto_compare_strings_constant_time is equality.
KeysAgree(http_key, key, unset) == http_key \notin unset /\ key \notin unset /\ http_key = key

check_access(gate, server, http_key, key, unset) ==
  /\ gate.enabled
  /\ gate.ip_var # ""
  /\ TrustsProxy(gate, server)
  /\ IsListed(gate, server)
  /\ KeysAgree(http_key, key, unset)
=============================================================================
