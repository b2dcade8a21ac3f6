------------------------------- MODULE Grants -------------------------------
(***************************************************************************)
(* What an authorization code is minted for and what a token request shows *)
(* with it: the data both code flows share, and the checks of POST /token  *)
(* that compare the two.                                                   *)
(***************************************************************************)
CONSTANTS Asks,           \* [key, client, redirect, resource, challenge]
          Exchanges,      \* [client, redirect, resource, verifier]
          None,           \* Python None: no value, no resource parameter
          ThisServer      \* the resource this server identifies itself as

\* _validate_authorization_request lets only this server's resource through;
\* the syntax of the other parameters is left out.
ValidAsk(a) == a.resource \in {None, ThisServer}

ASSUME AsksAssumption == \A a \in Asks : ValidAsk(a)

NoPkce(a, x) ==                                     \* mutant
  /\ x.client = a.client
  /\ x.redirect = a.redirect
  /\ x.resource = a.resource \/ (a.resource = None /\ x.resource = ThisServer)

\* The checks between codes.get and codes.consume.  A verifier is named by its
\* S256 challenge.
Fits(a, x) ==
  /\ x.client = a.client
  /\ x.redirect = a.redirect
  /\ x.resource = a.resource \/ (a.resource = None /\ x.resource = ThisServer)
  /\ x.verifier = a.challenge

(* What any token must satisfy of its code, whatever the code says: the    *)
(* exchange names the client and redirect_uri of the authorization, proves *)
(* knowledge of the verifier, and does not name another resource server.   *)
BoundTo(a, x) ==
  /\ <<x.client, x.redirect, x.verifier>> = <<a.client, a.redirect, a.challenge>>
  /\ x.resource \in {None, ThisServer}
=============================================================================
