----------------------------- MODULE CodeLedger -----------------------------
(***************************************************************************)
(* What the shim promises about authorization codes, whichever store holds *)
(* them: a code is minted once for one authorization, it may lapse, and it *)
(* is turned into a token at most once, by an exchange that fits the       *)
(* authorization it was minted for.  The in-process store and the shared   *)
(* Redis store are both shown to implement this module.                    *)
(***************************************************************************)
EXTENDS Functions

CONSTANTS Codes,          \* the names of all authorization codes
          Asks,           \* authorizations a code can be minted for
          Exchanges,      \* what a token request can present with a code
          Redeemers,      \* token requests
          Fits(_, _)      \* Fits(ask, exchange): the checks of /token hold

VARIABLES live,           \* code -> the authorization it stands for
          issued,         \* codes ever handed to a client
          redeemed        \* one record per token response sent

ledger == <<live, issued, redeemed>>

Redemption == [code: Codes, ask: Asks, by: Redeemers, with: Exchanges]

LedgerInit ==
  /\ live = [c \in {} |-> CHOOSE a \in Asks : TRUE]
  /\ issued = {}
  /\ redeemed = {}

IssueCode(c, a) ==
  /\ c \notin issued
  /\ live' = [d \in DOMAIN live \cup {c} |-> IF d = c THEN a ELSE live[d]]
  /\ issued' = issued \cup {c}
  /\ UNCHANGED redeemed

Redeem(c, r, x) ==
  /\ c \in DOMAIN live
  /\ Fits(live[c], x)
  /\ redeemed' = redeemed \cup {[code |-> c, ask |-> live[c], by |-> r, with |-> x]}
  /\ live' = Restrict(live, DOMAIN live \ {c})
  /\ UNCHANGED issued

Lapse(S) ==
  /\ S # {}
  /\ live' = Restrict(live, DOMAIN live \ S)
  /\ UNCHANGED <<issued, redeemed>>

LedgerNext ==
  \/ \E c \in Codes, a \in Asks : IssueCode(c, a)
  \/ \E c \in Codes, r \in Redeemers, x \in Exchanges : Redeem(c, r, x)
  \/ \E S \in SUBSET DOMAIN live : Lapse(S)

LedgerSpec == LedgerInit /\ [][LedgerNext]_ledger
-----------------------------------------------------------------------------
(* No code is ever turned into two tokens. *)
AtMostOnce ==
  \A p, q \in redeemed : p.code = q.code => p = q

(* Every token answers an exchange that fits the authorization of its code. *)
OnlyFitting ==
  \A p \in redeemed : Fits(p.ask, p.with)
=============================================================================
