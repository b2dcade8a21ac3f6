-------------------------- MODULE MCRedisCodeFlow --------------------------
(* Instances of RedisCodeFlow for TLC. *)
EXTENDS RedisCodeFlow

CONSTANTS r1, r2, r3, t1, t2, k1, none, server

Ask(k, c, res) ==
  [key |-> k, client |-> c, redirect |-> "cb", resource |-> res, challenge |-> "s256"]

Exchange(c, res, v) ==
  [client |-> c, redirect |-> "cb", resource |-> res, verifier |-> v]

\* One account that logs in again and again.
OneAccount == {Ask(k1, "app", server)}

MCExchanges == {Exchange("app", server, "s256"), Exchange("cli", server, "wrong")}
=============================================================================
