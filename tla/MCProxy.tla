------------------------------ MODULE MCProxy ------------------------------
(* Two backends, one request that may be retried and one that may not.      *)
EXTENDS Proxy

CONSTANTS get, post, op

MCRequests == {get, post}
MCUnsafe == {post}
MCAdmins == {op}
=============================================================================
