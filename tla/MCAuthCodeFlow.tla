--------------------------- MODULE MCAuthCodeFlow ---------------------------
(* Instances of AuthCodeFlow for TLC. *)
EXTENDS AuthCodeFlow

CONSTANTS r1, r2, r3, t1, t2, k1, k2, none, server

Ask(k, c, res) ==
  [key |-> k, client |-> c, redirect |-> "cb", resource |-> res, challenge |-> "s256"]

Exchange(c, res, v) ==
  [client |-> c, redirect |-> "cb", resource |-> res, verifier |-> v]

\* Two accounts; one client names the resource, the other does not.
MCAsks == {Ask(k1, "app", server), Ask(k2, "cli", none)}

\* Each misses the fit with some authorization in another way.
MCExchanges == {Exchange("app", server, "s256"), Exchange("app", server, "wrong"),
                Exchange("cli", server, "s256"), Exchange("cli", "other", "s256")}
=============================================================================
