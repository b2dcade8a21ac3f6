---------------------------- MODULE MCBrokerLogin ----------------------------
(* Instances of BrokerLogin for TLC. *)
EXTENDS BrokerLogin, TLC

CONSTANTS b1, b2, l1, l2, c1, c2, c3, a1, a2, u1, u2

\* Nothing tells browsers, logins, callbacks, accounts or codes apart.
Symmetry ==
  Permutations(Browsers) \cup Permutations(Logins) \cup
  Permutations(Callbacks) \cup Permutations(Accounts) \cup Permutations(UpCodes)
=============================================================================
