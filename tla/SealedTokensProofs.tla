------------------------- MODULE SealedTokensProofs -------------------------
(***************************************************************************)
(* Proofs about SealedTokens, for any grants, scopes, servers, secrets,    *)
(* lifetimes and lengths of chains.                                        *)
(*                                                                         *)
(* What a refresh copies from a pair to the next has to be true of every   *)
(* pair: Faithful says that it still is what its code was authorized for,  *)
(* and that a refresh token in the hands of a client is one that its       *)
(* authorization allows.                                                   *)
(***************************************************************************)
EXTENDS SealedTokens, TLAPS

Faithful(p) ==
  /\ p.sealed = p.since
  /\ p.aud = p.home
  /\ p.scope \subseteq p.grant.scope
  /\ "refresh" \in p.sent \/ p.parent # 0 => p.grant.refresh

Inv ==
  /\ TypeOK
  /\ \A i \in Minted :
       /\ Faithful(pairs[i])
       /\ pairs[i].parent # 0 => pairs[i].scope \subseteq pairs[pairs[i].parent].scope
  /\ OnlyItsAudience
  /\ RotationLogsOut

LEMMA MintPreserves ==
  ASSUME Inv, NEW p \in Pair, Mint(p), Faithful(p), p.left = Life,
         p.parent <= Len(pairs),
         p.parent # 0 => p.scope \subseteq pairs[p.parent].scope,
         served' = NoCall, UNCHANGED <<secret, redeploys>>
  PROVE  Inv'
<1>1. /\ pairs' = Append(pairs, p) /\ pairs \in Seq(Pair)
      /\ Len(pairs) \in Nat /\ Len(pairs) < MaxPairs
  BY DEF Inv, TypeOK, Mint
<1>2. /\ pairs' \in Seq(Pair) /\ Len(pairs') = Len(pairs) + 1
      /\ \A i \in Minted : pairs'[i] = pairs[i]
      /\ pairs'[Len(pairs) + 1] = p
      /\ Minted' = Minted \cup {Len(pairs) + 1}
  BY <1>1 DEF Minted
<1>3. p.parent \in 0..MaxPairs
  BY DEF Pair
<1>4. /\ p.left["access"] \in 0..AccessTtl
      /\ p.left["refresh"] \in 0..RefreshTtl
  BY TokensAssumption DEF Life
<1>5. ASSUME NEW i \in Minted'
      PROVE  /\ pairs'[i].parent < i
             /\ pairs'[i].left["access"] \in 0..AccessTtl
             /\ pairs'[i].left["refresh"] \in 0..RefreshTtl
             /\ Faithful(pairs'[i])
             /\ pairs'[i].parent # 0 => pairs'[i].scope \subseteq pairs'[pairs'[i].parent].scope
  <2>1. CASE i \in Minted
    <3>1. pairs[i].parent \in 0..MaxPairs /\ pairs[i].parent < i
      <4>1. pairs[i] \in Pair
        BY <2>1, <1>1 DEF Minted
      <4>2. pairs[i].parent < i
        BY <2>1 DEF Inv, TypeOK
      <4>. QED
        BY <4>1, <4>2 DEF Pair
    <3>2. pairs[i].parent # 0 => pairs[i].parent \in Minted
      BY <2>1, <3>1, <1>1 DEF Minted
    <3>. QED
      BY <2>1, <3>1, <3>2, <1>2 DEF Inv, TypeOK
  <2>2. CASE i = Len(pairs) + 1
    <3>1. p.parent # 0 => p.parent \in Minted
      BY <1>1, <1>3 DEF Minted
    <3>. QED
      BY <2>2, <3>1, <1>1, <1>2, <1>3, <1>4
  <2>. QED
    BY <2>1, <2>2, <1>2
<1>6. TypeOK'
  <2>1. Len(pairs') <= MaxPairs
    BY <1>1, <1>2, TokensAssumption
  <2>2. /\ secret' \in [Servers -> Secrets \cup {None}]
        /\ redeploys' \in 0..MaxRedeploys
    BY DEF Inv, TypeOK
  <2>. QED
    BY <1>2, <1>5, <2>1, <2>2 DEF TypeOK
<1>7. OnlyItsAudience'
  BY DEF OnlyItsAudience
<1>8. RotationLogsOut'
  BY <1>5 DEF RotationLogsOut, Faithful
<1>. QED
  BY <1>5, <1>6, <1>7, <1>8 DEF Inv

LEMMA InitOK == Init => Inv
<1>. SUFFICES ASSUME Init PROVE Inv
  OBVIOUS
<1>1. pairs \in Seq(Pair) /\ Len(pairs) = 0 /\ Minted = {}
  BY DEF Init, Minted
<1>2. TypeOK
  BY <1>1, TokensAssumption DEF Init, TypeOK
<1>. QED
  BY <1>1, <1>2 DEF Init, Inv, OnlyItsAudience, RotationLogsOut

LEMMA StepOK == Inv /\ [Next]_vars => Inv'
<1>. SUFFICES ASSUME Inv, [Next]_vars PROVE Inv'
  OBVIOUS
<1>t. /\ TypeOK /\ pairs \in Seq(Pair) /\ Len(pairs) \in Nat
      /\ secret \in [Servers -> Secrets \cup {None}]
      /\ \A i \in Minted : pairs[i] \in Pair /\ Faithful(pairs[i])
  BY DEF Inv, TypeOK, Minted
<1>l. Life \in [Kinds -> Int]
  BY TokensAssumption DEF Life, Kinds
<1>1. ASSUME NEW g \in Grants, NEW s \in Servers, ExchangeCode(g, s) PROVE Inv'
  <2>. DEFINE p == [grant |-> g, home |-> s, parent |-> 0, client |-> g.client,
                    aud |-> s, scope |-> g.scope, sealed |-> secret[s], since |-> secret[s],
                    sent |-> Sent(g.refresh /\ secret[s] # None), left |-> Life]
  <2>1. p \in Pair
    BY <1>t, <1>l, TokensAssumption DEF Pair, Sent, Kinds, TypeOK
  <2>2. Faithful(p)
    BY TokensAssumption DEF Faithful, Sent
  <2>3. Mint(p) /\ served' = NoCall /\ UNCHANGED <<secret, redeploys>>
    BY <1>1 DEF ExchangeCode
  <2>4. p.left = Life /\ p.parent <= Len(pairs) /\ p.parent = 0
    BY <1>t
  <2>. HIDE DEF p
  <2>. QED
    BY <2>1, <2>2, <2>3, <2>4, MintPreserves
<1>2. ASSUME NEW i \in Minted, NEW kind \in pairs[i].sent, NEW s \in Servers,
             NEW c \in Clients, NEW r \in Servers \cup {None},
             NEW scope \in (SUBSET Scopes) \cup {None}, Refresh(i, kind, s, c, r, scope)
      PROVE  Inv'
  <2>. DEFINE p == [pairs[i] EXCEPT !.parent = i, !.aud = pairs[i].aud, !.sealed = secret[s],
                                    !.scope = NewScope(i, scope), !.sent = Sent(TRUE), !.left = Life]
  <2>1. pairs[i] \in Pair /\ Faithful(pairs[i]) /\ i \in Nat /\ 0 < i /\ i <= Len(pairs)
    BY <1>t DEF Minted
  <2>2. "refresh" \in pairs[i].sent /\ secret[s] = pairs[i].sealed
    BY <1>2 DEF Refresh, Opens, Decrypts
  <2>3. NewScope(i, scope) \subseteq pairs[i].scope /\ NewScope(i, scope) \in SUBSET Scopes
    BY <1>2, <2>1 DEF Refresh, MayNarrow, NewScope, Pair
  <2>4. Mint(p) /\ served' = NoCall /\ UNCHANGED <<secret, redeploys>>
    BY <1>2 DEF Refresh, NewAud
  <2>5. i \in 0..MaxPairs
    BY <2>1, <1>t, TokensAssumption DEF TypeOK
  <2>6. p \in Pair
    BY <1>t, <1>l, <2>1, <2>3, <2>5 DEF Pair, Sent
  <2>7. /\ p.left = Life /\ p.parent = i /\ p.scope = NewScope(i, scope)
        /\ p.sealed = secret[s] /\ p.since = pairs[i].since
        /\ p.aud = pairs[i].aud /\ p.home = pairs[i].home /\ p.grant = pairs[i].grant
    BY <2>1 DEF Pair
  <2>. HIDE DEF p
  <2>8. Faithful(p)
    BY <2>1, <2>2, <2>3, <2>7 DEF Faithful
  <2>. QED
    BY <2>1, <2>3, <2>4, <2>6, <2>7, <2>8, MintPreserves
<1>3. ASSUME NEW i \in Minted, NEW kind \in pairs[i].sent, NEW s \in Servers, Call(i, kind, s)
      PROVE  Inv'
  <2>1. /\ pairs' = pairs /\ secret' = secret /\ redeploys' = redeploys /\ Minted' = Minted
        /\ served' = [pair |-> i, kind |-> kind, server |-> s, under |-> secret[s]]
    BY <1>3 DEF Call, Minted
  <2>2. kind \in Kinds /\ secret[s] \in Secrets \cup {None}
    BY <1>t, <1>3 DEF Pair
  <2>3. TypeOK'
    BY <2>1, <2>2 DEF Inv, TypeOK
  <2>4. OnlyItsAudience'
    BY <1>t, <1>3, <2>1 DEF Call, OnlyItsAudience, Opens, IsRaw, Faithful
  <2>5. RotationLogsOut'
    BY <1>t, <1>3, <2>1 DEF Call, RotationLogsOut, Opens, Decrypts, IsRaw, Faithful
  <2>. QED
    BY <2>1, <2>3, <2>4, <2>5 DEF Inv
<1>4. ASSUME NEW s \in Servers, NEW k \in Secrets \cup {None}, Redeploy(s, k) PROVE Inv'
  <2>1. pairs' = pairs /\ Minted' = Minted /\ served' = NoCall
    BY <1>4 DEF Redeploy, Minted
  <2>2. redeploys' \in 0..MaxRedeploys
    BY <1>t, <1>4, TokensAssumption DEF Redeploy, TypeOK
  <2>3. TypeOK'
    BY <1>t, <1>4, <2>1, <2>2 DEF Redeploy, TypeOK
  <2>. QED
    BY <2>1, <2>3 DEF Inv, OnlyItsAudience, RotationLogsOut
<1>5. CASE Tick
  <2>. DEFINE Older(i) == [pairs[i] EXCEPT !.left =
                             [k \in Kinds |-> IF @[k] > 0 THEN @[k] - 1 ELSE 0]]
  <2>1. pairs' = [i \in Minted |-> Older(i)] /\ served' = NoCall /\ UNCHANGED <<secret, redeploys>>
    BY <1>5 DEF Tick
  <2>2. ASSUME NEW i \in Minted
        PROVE  /\ Older(i) \in Pair
               /\ Older(i).left["access"] \in 0..AccessTtl
               /\ Older(i).left["refresh"] \in 0..RefreshTtl
               /\ Older(i).parent = pairs[i].parent /\ Older(i).scope = pairs[i].scope
               /\ Older(i).sealed = pairs[i].sealed /\ Older(i).since = pairs[i].since
               /\ Faithful(Older(i))
    <3>1. /\ pairs[i] \in Pair /\ pairs[i].left \in [Kinds -> Int] /\ Faithful(pairs[i])
          /\ pairs[i].left["access"] \in 0..AccessTtl
          /\ pairs[i].left["refresh"] \in 0..RefreshTtl
      BY <1>t DEF TypeOK, Pair
    <3>. QED
      BY <3>1, TokensAssumption DEF Pair, Faithful, Kinds
  <2>. HIDE DEF Older
  <2>3. pairs' \in Seq(Pair) /\ Len(pairs') = Len(pairs) /\ Minted' = Minted
    BY <1>t, <2>1, <2>2 DEF Minted
  <2>4. \A i \in Minted : pairs'[i] = Older(i)
    BY <2>1
  <2>5. TypeOK'
    BY <1>t, <2>1, <2>2, <2>3, <2>4 DEF TypeOK
  <2>6. ASSUME NEW i \in Minted
        PROVE  /\ Faithful(pairs'[i])
               /\ pairs'[i].parent # 0 => pairs'[i].scope \subseteq pairs'[pairs'[i].parent].scope
    <3>1. pairs[i].parent \in Nat /\ pairs[i].parent < i
      BY <1>t DEF TypeOK, Pair
    <3>2. pairs[i].parent # 0 => pairs[i].parent \in Minted
      BY <1>t, <3>1 DEF Minted
    <3>. QED
      BY <3>2, <2>2, <2>4 DEF Inv
  <2>7. RotationLogsOut'
    BY <2>1, <2>3, <2>6 DEF RotationLogsOut, Faithful
  <2>. QED
    BY <2>1, <2>3, <2>5, <2>6, <2>7 DEF Inv, OnlyItsAudience
<1>6. CASE UNCHANGED vars
  BY <1>6 DEF vars, Inv, TypeOK, Minted, OnlyItsAudience, RotationLogsOut, IsRaw
<1>. QED
  BY <1>1, <1>2, <1>3, <1>4, <1>5, <1>6 DEF Next

LEMMA Invariance == Spec => []Inv
BY InitOK, StepOK, PTL DEF Spec

(* The types hold for all values of the constants.                         *)
THEOREM TypeCorrect == Spec => []TypeOK
<1>1. Inv => TypeOK
  BY DEF Inv
<1>. QED
  BY <1>1, Invariance, PTL

(* However long its chain of refreshes, a connection is prolonged only if  *)
(* its authorization allows refresh.                                       *)
THEOREM RefreshOnlyWhereAllowedHolds == Spec => []RefreshOnlyWhereAllowed
<1>1. Inv => RefreshOnlyWhereAllowed
  BY DEF Inv, RefreshOnlyWhereAllowed, Faithful
<1>. QED
  BY <1>1, Invariance, PTL

(* No chain of refreshes exceeds what its refreshed token had, or what the *)
(* user granted.                                                           *)
THEOREM ScopeNeverWidensHolds == Spec => []ScopeNeverWidens
<1>1. Inv => ScopeNeverWidens
  BY DEF Inv, ScopeNeverWidens, Faithful
<1>. QED
  BY <1>1, Invariance, PTL

(* A server that knows its resource serves connections authorized for it   *)
(* only, among any number of servers that share a secret.                  *)
THEOREM OnlyItsAudienceHolds == Spec => []OnlyItsAudience
<1>1. Inv => OnlyItsAudience
  BY DEF Inv
<1>. QED
  BY <1>1, Invariance, PTL

(* No connection outlives the secret it was authorized under, whatever the *)
(* order in which any number of servers are redeployed.                    *)
THEOREM RotationLogsOutHolds == Spec => []RotationLogsOut
<1>1. Inv => RotationLogsOut
  BY DEF Inv
<1>. QED
  BY <1>1, Invariance, PTL
=============================================================================
