---------------------------- MODULE MCRateLimit ----------------------------
(* One bucket with two ticks to the second, whose rate moves between ten and *)
(* fourteen tokens a second, an operator's address and a stranger's.         *)
EXTENDS RateLimit

CONSTANTS b1, ip, stranger

MCBackends == {b1}
MCAddresses == {ip, stranger}
MCAllowlist == {ip}
=============================================================================
