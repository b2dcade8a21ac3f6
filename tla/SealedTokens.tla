---------------------------- MODULE SealedTokens ----------------------------
(***************************************************************************)
(* The life of sealed tokens: POST /token mints an access and a refresh    *)
(* token for a code, the refresh_token grant mints another pair from a     *)
(* refresh token, and calls of the MCP server open access tokens.  Nothing *)
(* is stored: a token is all the server knows, an old one stays good until *)
(* it expires, and every server with the same MCP_OAUTH_TOKEN_SECRET opens *)
(* it.  Servers are redeployed one by one, with another secret or without  *)
(* one: then they hand out the API key itself.                             *)
(*                                                                         *)
(* pairs[i] stands for the i-th pair minted; both its tokens carry the     *)
(* same claims.  A request that is refused changes nothing and is no step. *)
(* A code never outlives the secret it was minted under, in memory or      *)
(* sealed in Redis, so its exchange is a single step.                      *)
(***************************************************************************)
EXTENDS Integers, Sequences

CONSTANTS Grants,         \* [client, scope, refresh]: authorizations, by consumed codes
          Clients,        \* clients that bring tokens, their own or another's
          Scopes,         \* SUPPORTED_SCOPES
          Servers,        \* the resources of the servers
          Configured,     \* those with MCP_OAUTH_RESOURCE_URL or ..._ISSUER_URL set
          Secrets,        \* values of MCP_OAUTH_TOKEN_SECRET
          AccessTtl,      \* MCP_OAUTH_ACCESS_TOKEN_TTL
          RefreshTtl,     \* MCP_OAUTH_REFRESH_TOKEN_TTL
          MaxPairs,       \* bound: pairs minted in one behaviour
          MaxRedeploys,   \* bound: redeployments in one behaviour
          None            \* a parameter that is not sent, a secret that is not set

ASSUME TokensAssumption ==
  /\ Grants \subseteq [client : Clients, scope : SUBSET Scopes, refresh : BOOLEAN]
  /\ Configured \subseteq Servers
  /\ AccessTtl \in Nat \ {0} /\ RefreshTtl \in Nat \ {0}
  /\ MaxPairs \in Nat /\ MaxRedeploys \in Nat
  /\ None \notin Secrets

VARIABLES secret,         \* the secret each server runs with
          pairs,          \* the pairs minted so far
          served,         \* the call this step lets through: its token, server, server's secret
          redeploys       \* history: how many redeployments there were

vars == <<secret, pairs, served, redeploys>>

Kinds == {"access", "refresh"}
Minted == 1..Len(pairs)

Pair == [grant : Grants, home : Servers, parent : 0..MaxPairs,
         client : Clients, aud : Servers, scope : SUBSET Scopes,
         sealed : Secrets \cup {None}, since : Secrets \cup {None},
         sent : SUBSET Kinds, left : [Kinds -> Int]]
NoCall == [pair |-> 0, kind |-> None, server |-> None, under |-> None]

TypeOK ==
  /\ secret \in [Servers -> Secrets \cup {None}]
  /\ pairs \in Seq(Pair)
  /\ Len(pairs) <= MaxPairs
  /\ \A i \in Minted : /\ pairs[i].parent < i
                       /\ pairs[i].left["access"] \in 0..AccessTtl
                       /\ pairs[i].left["refresh"] \in 0..RefreshTtl
  /\ served \in {NoCall} \cup [pair : Minted, kind : Kinds, server : Servers, under : Secrets \cup {None}]
  /\ redeploys \in 0..MaxRedeploys

\* Before the first redeployment all servers share a secret.
Init ==
  /\ \E k \in Secrets : secret = [s \in Servers |-> k]
  /\ pairs = <<>>
  /\ served = NoCall
  /\ redeploys = 0
-----------------------------------------------------------------------------
DoubleLife == [access |-> AccessTtl, refresh |-> AccessTtl + RefreshTtl]  \* mutant
\* SealedTokenCodec.issue: both expire counting from now.
Life == [access |-> AccessTtl, refresh |-> RefreshTtl]

AlwaysSent(allowed) == Kinds                        \* mutant
\* The refresh token is minted in any case, and sent where it may be used.
Sent(allowed) == IF allowed THEN Kinds ELSE {"access"}

\* A server without a secret sends the API key, which nothing expires.
IsRaw(i) == pairs[i].sealed = None

KeyRing(i, server) == ~IsRaw(i) /\ secret[server] # None   \* mutant
\* _open_raw: the token decrypts under the one secret of the server.
Decrypts(i, server) == ~IsRaw(i) /\ secret[server] = pairs[i].sealed

\* _open: unexpired; open_access_token and open_refresh_token: of that kind.
Opens(i, kind, wanted, server) ==
  Decrypts(i, server) /\ kind = wanted /\ pairs[i].left[kind] > 0

Mint(p) == Len(pairs) < MaxPairs /\ pairs' = Append(pairs, p)

ExchangeCode(g, server) ==
  LET k == secret[server]
  IN  /\ Mint([grant |-> g, home |-> server, parent |-> 0, client |-> g.client,
               aud |-> server, scope |-> g.scope, sealed |-> k, since |-> k,
               sent |-> Sent(g.refresh /\ k # None), left |-> Life])
      /\ served' = NoCall
      /\ UNCHANGED <<secret, redeploys>>

AnyScope(i, scope) == TRUE                          \* mutant
MayNarrow(i, scope) == scope # None => scope \subseteq pairs[i].scope

NewScope(i, scope) == IF scope = None THEN pairs[i].scope ELSE scope

NewHome(i, server) == server                        \* mutant
NewAud(i, server) == pairs[i].aud

\* The token of a request at some server; claims, not the server, decide.
Refresh(i, kind, server, client, resource, scope) ==
  /\ Opens(i, kind, "refresh", server)
  /\ client = pairs[i].client
  /\ resource \in {None, pairs[i].aud}
  /\ MayNarrow(i, scope)
  /\ Mint([pairs[i] EXCEPT !.parent = i, !.aud = NewAud(i, server), !.sealed = secret[server],
                           !.scope = NewScope(i, scope), !.sent = Sent(TRUE), !.left = Life])
  /\ served' = NoCall
  /\ UNCHANGED <<secret, redeploys>>

\* current_authorization_header, for any call of a tool that reaches the API:
\* what is not a sealed token is passed on as it is.
Call(i, kind, server) ==
  /\ IsRaw(i) \/ /\ Opens(i, kind, "access", server)
                 /\ server \in Configured => pairs[i].aud = server
  /\ served' = [pair |-> i, kind |-> kind, server |-> server, under |-> secret[server]]
  /\ UNCHANGED <<secret, pairs, redeploys>>

\* A server starts again with another value of MCP_OAUTH_TOKEN_SECRET.
Redeploy(server, k) ==
  /\ redeploys < MaxRedeploys
  /\ k # secret[server]
  /\ secret' = [secret EXCEPT ![server] = k]
  /\ redeploys' = redeploys + 1
  /\ served' = NoCall
  /\ UNCHANGED pairs

Tick ==
  /\ \E i \in Minted, k \in Kinds : pairs[i].left[k] > 0
  /\ pairs' = [i \in Minted |->
       [pairs[i] EXCEPT !.left = [k \in Kinds |-> IF @[k] > 0 THEN @[k] - 1 ELSE 0]]]
  /\ served' = NoCall
  /\ UNCHANGED <<secret, redeploys>>

\* Clients bring the tokens they were sent.
Next ==
  \/ \E g \in Grants, s \in Servers : ExchangeCode(g, s)
  \/ \E i \in Minted : \E kind \in pairs[i].sent, s \in Servers, c \in Clients,
        r \in Servers \cup {None}, scope \in (SUBSET Scopes) \cup {None} :
       Refresh(i, kind, s, c, r, scope)
  \/ \E i \in Minted : \E kind \in pairs[i].sent, s \in Servers : Call(i, kind, s)
  \/ \E s \in Servers, k \in Secrets \cup {None} : Redeploy(s, k)
  \/ Tick

Spec == Init /\ [][Next]_vars
-----------------------------------------------------------------------------
(* A connection is prolonged only if its authorization allows refresh: the *)
(* client's metadata document lists the grant (refresh_allowed), however   *)
(* its tokens are presented.                                               *)
RefreshOnlyWhereAllowed ==
  \A i \in Minted : pairs[i].parent # 0 => pairs[i].grant.refresh

(* Along any chain of refreshes the scope never exceeds what the refreshed *)
(* token had, and so never what the user granted.                          *)
ScopeNeverWidens ==
  \A i \in Minted :
    /\ pairs[i].scope \subseteq pairs[i].grant.scope
    /\ pairs[i].parent # 0 => pairs[i].scope \subseteq pairs[pairs[i].parent].scope

(* A server that knows its own resource serves only connections that were  *)
(* authorized for it, wherever their tokens were refreshed in between, and *)
(* never on the longer lived refresh token.  API keys know no audience.    *)
OnlyItsAudience ==
  served # NoCall /\ ~IsRaw(served.pair) =>
    /\ served.kind = "access"
    /\ served.server \in Configured => pairs[served.pair].home = served.server

(* Rotating MCP_OAUTH_TOKEN_SECRET logs every user out: no server serves   *)
(* or prolongs a connection that was authorized under another secret than  *)
(* its own, not even one that reached it by way of a server that still ran *)
(* the old one (CURRENT-STATUS.md, environment variables).                 *)
RotationLogsOut ==
  /\ \A i \in Minted : pairs[i].sealed = pairs[i].since
  /\ served # NoCall /\ ~IsRaw(served.pair) => served.under = pairs[served.pair].since
=============================================================================
