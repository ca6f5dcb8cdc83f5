--------------------------- MODULE JwtAuth_proofs ---------------------------
(***************************************************************************)
(* Proofs about JwtAuth, for any number of replicas, tabs, pages, daemons, *)
(* dashboards and tokens, and any lifetimes.                               *)
(*                                                                         *)
(* That an entry outlives its token is not inductive.  The invariant       *)
(* compares the moment the entry lapses with the moment the token expires  *)
(* (UsedKept, RevokedKept), which no later step changes for the worse:     *)
(* entries are only ever written anew with the full lifetime (NotBeyond).  *)
(* It holds for any number of replicas, while Redis answers.               *)
(*                                                                         *)
(* That a token is used no more often than there are replicas also needs   *)
(* that what a replica has found out is still true when it acts on it      *)
(* (Fresh): the token it is to use has not expired, so if it has no entry  *)
(* it was, by UsedKept, not used before (UnlistedIsUnused). Two replicas   *)
(* may both find that, so what is bounded is the uses together with those  *)
(* under way (UsedOnce); and whoever looks later is refused (NoLateUse).   *)
(*                                                                         *)
(* If no answer is lost, and no request that uses the token of a browser   *)
(* is sent while another is under way, each token is in one caller's hands *)
(* (UnusedInv): whoever used it up has been given the next one, and nobody *)
(* presents it again.                                                      *)
(***************************************************************************)
EXTENDS JwtAuth, FiniteSetTheorems, TLAPS

\* The requests of callers and replicas, when n tokens have been issued.
CallRec(n) == [state : {"idle", "off", "sent", "served", "granted", "denied"},
               kind : Kind, token : 0..n, by : Replica \cup {NoReplica}]
BusyRec(n) == [step : {"idle", "checkJti", "revoke", "rotate", "logout", "exchange"},
               caller : Caller \cup {Browser}, kind : Kind, token : 0..n]

Ends == [Entry -> Nat]
Budget == [{"loss", "outage", "restart", "logout"} -> Nat]

-----------------------------------------------------------------------------

\* The type invariant, with the names of this module.
LEMMA Types ==
  TypeOK <=> /\ now \in 0..MaxTime /\ made \in 0..MaxTokens
             /\ issuedAt \in [Token -> 0..MaxTime]
             /\ jar \in [Jar -> 0..made]
             /\ call \in [Caller -> CallRec(made)] /\ busy \in [Replica -> BusyRec(made)]
             /\ redis \in Ends /\ memory \in [Replica -> Ends]
             /\ redisUp \in BOOLEAN /\ mark \in 0..made
             /\ spent \in [Token -> Nat] /\ exchanges \in [0..MaxTime -> Nat]
             /\ crossed \in BOOLEAN /\ budget \in Budget
BY DEF TypeOK, CallRec, BusyRec, Ends, Budget

\* The same of the next state.
LEMMA TypesNext ==
  TypeOK' <=> /\ now' \in 0..MaxTime /\ made' \in 0..MaxTokens
             /\ issuedAt' \in [Token -> 0..MaxTime]
             /\ jar' \in [Jar -> 0..made']
             /\ call' \in [Caller -> CallRec(made')] /\ busy' \in [Replica -> BusyRec(made')]
             /\ redis' \in Ends /\ memory' \in [Replica -> Ends]
             /\ redisUp' \in BOOLEAN /\ mark' \in 0..made'
             /\ spent' \in [Token -> Nat] /\ exchanges' \in [0..MaxTime -> Nat]
             /\ crossed' \in BOOLEAN /\ budget' \in Budget
BY DEF TypeOK, CallRec, BusyRec, Ends, Budget

\* The lifetimes and bounds are natural numbers.
LEMMA Naturals ==
  /\ {RefreshTTL, PodTTL, MaxTokens, MaxTime, MaxLosses, MaxOutages, MaxRestarts, MaxLogouts}
       \subseteq Nat
  /\ RefreshTTL > 0 /\ PodTTL > 0
BY JwtAuthAssumption

\* The null values, and the request with a pod token, are requests.
LEMMA Nobody == /\ NoCall \in CallRec(0) /\ NoPodToken \in CallRec(0) /\ Idle \in BusyRec(0)
                /\ [NoCall EXCEPT !.state = "sent", !.kind = "exchange"] \in CallRec(0)
                /\ Idle.step = "idle"
<1>1. /\ {"none", "exchange"} \subseteq Kind /\ NoToken \in 0..0
      /\ NoReplica \in Replica \cup {NoReplica} /\ Browser \in Caller \cup {Browser}
  BY DEF Kind, Refreshes, NoToken
<1>2. NoCall \in CallRec(0)
  BY <1>1 DEF NoCall, CallRec
<1>3. NoPodToken \in CallRec(0)
  BY <1>2 DEF NoPodToken, CallRec
<1>4. [NoCall EXCEPT !.state = "sent", !.kind = "exchange"] \in CallRec(0)
  BY <1>1, <1>2 DEF CallRec
<1>5. Idle \in BusyRec(0) /\ Idle.step = "idle"
  BY <1>1 DEF Idle, BusyRec
<1>6. QED
  BY <1>2, <1>3, <1>4, <1>5

\* Requests that were good with fewer tokens are good with more.
LEMMA MoreTokens ==
  ASSUME NEW m \in Nat, NEW n \in Nat, m <= n
  PROVE  CallRec(m) \subseteq CallRec(n) /\ BusyRec(m) \subseteq BusyRec(n)
BY DEF CallRec, BusyRec

\* A token is issued.
LEMMA Issuing ==
  ASSUME TypeOK, Issue
  PROVE  /\ made' = made + 1 /\ made' \in 1..MaxTokens /\ made' \in Token
         /\ issuedAt' \in [Token -> 0..MaxTime] /\ issuedAt'[made'] = now
         /\ \A t \in 1..made : issuedAt'[t] = issuedAt[t]
         /\ jar \in [Jar -> 0..made'] /\ mark \in 0..made'
         /\ call \in [Caller -> CallRec(made')] /\ busy \in [Replica -> BusyRec(made')]
<1>1. made' = made + 1 /\ made' \in 1..MaxTokens /\ made' \in Token
  BY Types, Naturals DEF Issue, Token
<1>2. CallRec(made) \subseteq CallRec(made') /\ BusyRec(made) \subseteq BusyRec(made')
  BY <1>1, Types, MoreTokens
<1>3. QED
  BY <1>1, <1>2, Types DEF Issue, Token

\* An entry of the blacklist is written.
LEMMA Listing ==
  ASSUME TypeOK, NEW r \in Replica, NEW e, NEW ttl \in Nat, Blacklist(r, e, ttl)
  PROVE  /\ redis' \in Ends /\ memory' \in [Replica -> Ends]
         /\ redisUp => redis' = [redis EXCEPT ![e] = now + ttl]
<1>1. now + ttl \in Nat
  BY Types, Naturals
<1>2. [redis EXCEPT ![e] = now + ttl] \in Ends
  BY <1>1, Types DEF Ends
<1>3. [memory[r] EXCEPT ![e] = now + ttl] \in Ends
  BY <1>1, Types DEF Ends
<1>4. memory \in [Replica -> Ends] /\ redis \in Ends
  BY Types
<1>5. CASE redisUp
  BY <1>2, <1>4, <1>5 DEF Blacklist
<1>6. CASE ~redisUp
  <2>1. memory' = [memory EXCEPT ![r] = [memory[r] EXCEPT ![e] = now + ttl]] /\ redis' = redis
    BY <1>4, <1>6 DEF Blacklist
  <2>2. QED
    BY <2>1, <1>3, <1>4, <1>6
<1>7. QED
  BY <1>5, <1>6

\* A replica answers.
LEMMA Replying ==
  ASSUME NEW n \in Nat, NEW r \in Replica, NEW state \in {"granted", "denied"},
         NEW token \in 0..n,
         call \in [Caller -> CallRec(n)], busy \in [Replica -> BusyRec(n)],
         Reply(r, state, token)
  PROVE  /\ call' \in [Caller -> CallRec(n)] /\ busy' \in [Replica -> BusyRec(n)]
         /\ busy' = [busy EXCEPT ![r] = Idle]
<1>1. Idle \in BusyRec(n)
  BY Nobody, MoreTokens
<1>2. busy' = [busy EXCEPT ![r] = Idle]
  BY DEF Reply
<1>3. call' \in [Caller -> CallRec(n)]
  <2>1. CASE call' = call
    BY <2>1
  <2>2. CASE \E c \in Caller :
               call' = [call EXCEPT ![c].state = state, ![c].token = token, ![c].by = NoReplica]
    <3> PICK c \in Caller :
          call' = [call EXCEPT ![c].state = state, ![c].token = token, ![c].by = NoReplica]
      BY <2>2
    <3>1. [call[c] EXCEPT !.state = state, !.token = token, !.by = NoReplica] \in CallRec(n)
      BY DEF CallRec
    <3>2. QED
      BY <3>1
  <2>3. QED
    BY <2>1, <2>2 DEF Reply
<1>4. QED
  BY <1>1, <1>2, <1>3

\* One field of a request that a caller has sent is written.
LEMMA SentIsCall ==
  ASSUME TypeOK, NEW r \in Replica, NEW c \in Caller
  PROVE  /\ Serve(r, c) => call' \in [Caller -> CallRec(made)]
         /\ Deny(c) => call' \in [Caller -> CallRec(made)]
         /\ \A step \in {"checkJti", "logout", "exchange"} :
              Take(r, c, step) => /\ busy' \in [Replica -> BusyRec(made)]
                                  /\ busy' = [busy EXCEPT ![r] = [step |-> step, caller |-> c,
                                       kind |-> call[c].kind, token |-> call[c].token]]
         /\ \A step \in {"revoke", "rotate"} :
              Continue(r, step) => busy' \in [Replica -> BusyRec(made)]
<1>1. call \in [Caller -> CallRec(made)] /\ busy \in [Replica -> BusyRec(made)] /\ made \in Nat
  BY Types, Naturals
<1>2. [call[c] EXCEPT !.state = "served", !.by = r] \in CallRec(made)
  BY <1>1 DEF CallRec
<1>3. [call[c] EXCEPT !.state = "denied", !.token = NoToken] \in CallRec(made)
  <2>1. call[c] \in CallRec(made) /\ NoToken \in 0..made
    BY <1>1 DEF NoToken
  <2>2. QED
    BY <2>1 DEF CallRec
<1>4. \A step \in {"checkJti", "logout", "exchange"} :
        [step |-> step, caller |-> c, kind |-> call[c].kind, token |-> call[c].token]
          \in BusyRec(made)
  BY <1>1 DEF CallRec, BusyRec
<1>5. \A step \in {"revoke", "rotate"} : [busy[r] EXCEPT !.step = step] \in BusyRec(made)
  BY <1>1 DEF BusyRec
<1>6. Serve(r, c) => call' = [call EXCEPT ![c] = [call[c] EXCEPT !.state = "served", !.by = r]]
  BY <1>1 DEF Serve
<1>7. Deny(c) => call' = [call EXCEPT ![c] = [call[c] EXCEPT !.state = "denied",
                                                            !.token = NoToken]]
  BY <1>1 DEF Deny
<1>8. QED
  BY <1>1, <1>2, <1>3, <1>4, <1>5, <1>6, <1>7 DEF Take, Continue

-----------------------------------------------------------------------------
(* The types *)

\* At first there are no tokens, and nobody asks for anything.
LEMMA InitTypes == Init => TypeOK
<1> SUFFICES ASSUME Init PROVE TypeOK
  OBVIOUS
<1>1. now \in 0..MaxTime /\ made \in 0..MaxTokens /\ mark \in 0..made /\ redisUp \in BOOLEAN
  BY Naturals DEF Init
<1>2. /\ issuedAt \in [Token -> 0..MaxTime] /\ spent \in [Token -> Nat]
      /\ jar \in [Jar -> 0..made] /\ redis \in Ends /\ memory \in [Replica -> Ends]
  BY Naturals DEF Init, Ends, NoToken
<1>3. call \in [Caller -> CallRec(made)] /\ busy \in [Replica -> BusyRec(made)]
  BY Nobody DEF Init
<1>4. exchanges \in [0..MaxTime -> Nat] /\ crossed \in BOOLEAN
  BY DEF Init
<1>5. budget \in Budget
  BY DEF Init, Budget
<1>6. QED
  BY <1>1, <1>2, <1>3, <1>4, <1>5, Types

\* A rare event is counted.
LEMMA Spending ==
  ASSUME TypeOK, NEW what \in {"loss", "outage", "restart", "logout"}, NEW max, Spend(what, max)
  PROVE  budget' \in Budget
BY Types DEF Spend, Budget

\* A request of a caller is written.
LEMMA Calling ==
  ASSUME TypeOK, NEW c \in Caller, NEW a \in CallRec(made), call' = [call EXCEPT ![c] = a]
  PROVE  call' \in [Caller -> CallRec(made)]
BY Types

\* How a caller's request ends.
LEMMA EndedIsCall == \A c : TypeOK => Ended(c) \in CallRec(made)
<1> SUFFICES ASSUME TypeOK PROVE \A c : Ended(c) \in CallRec(made)
  OBVIOUS
<1>1. made \in Nat /\ 0 \in Nat /\ 0 <= made
  BY Types, Naturals
<1>2. CallRec(0) \subseteq CallRec(made)
  BY <1>1, MoreTokens
<1>3. QED
  BY <1>2, Nobody DEF Ended

\* A caller has a jar.
LEMMA JarsExist == \A c \in Caller : JarOf(c) \in Jar
BY DEF Caller, BrowserWindow, Jar, JarOf

\* A token is used.
LEMMA SpentIsCounted ==
  ASSUME TypeOK, NEW t, Consume(t)
  PROVE  spent' \in [Token -> Nat]
<1>1. spent \in [Token -> Nat]
  BY Types
<1>2. t \in Token => spent[t] + 1 \in Nat
  BY <1>1
<1>3. QED
  BY <1>1, <1>2 DEF Consume

\* A caller's step keeps the types.
LEMMA CallerTypes ==
  ASSUME TypeOK, NEW c \in Caller, CallerStep(c)
  PROVE  TypeOK'
<1>1. made \in Nat /\ JarOf(c) \in Jar
  BY Types, Naturals, JarsExist
<1>2. CASE Login(c)
  <2>1. NoToken \in 0..made
    BY <1>1 DEF NoToken
  <2>2. jar' \in [Jar -> 0..made']
    BY <1>1, <1>2, <2>1, Issuing DEF Login
  <2>3. QED
    BY <1>2, <2>1, <2>2, Issuing, Types, TypesNext DEF Login, blacklist, history
<1>3. CASE SendPodToken(c) \/ EntrypointAgain(c)
  <2>1. [NoCall EXCEPT !.state = "sent", !.kind = "exchange"] \in CallRec(made)
    BY <1>1, Nobody, MoreTokens
  <2>2. call' \in [Caller -> CallRec(made)]
    BY <1>3, <2>1, Calling DEF SendPodToken, EntrypointAgain
  <2>3. budget' \in Budget
    BY <1>3, Spending, Types DEF SendPodToken, EntrypointAgain
  <2>4. QED
    BY <1>3, <2>2, <2>3, Types, TypesNext
    DEF SendPodToken, EntrypointAgain, issue, blacklist, history
<1>4. CASE Receive(c)
  <2>1. call[c] \in CallRec(made)
    BY Types
  <2>2. call[c].token \in 0..made
    BY <2>1 DEF CallRec
  <2>3. jar' \in [Jar -> 0..made]
    BY <1>1, <1>4, <2>2, Types DEF Receive
  <2>4. call' \in [Caller -> CallRec(made)]
    BY <1>4, EndedIsCall, Calling DEF Receive
  <2>5. QED
    BY <1>4, <2>3, <2>4, Types, TypesNext DEF Receive, issue, blacklist, history
<1>5. CASE GiveUp(c)
  <2>1. call' \in [Caller -> CallRec(made)] /\ budget' \in Budget
    BY <1>5, EndedIsCall, Calling, Spending DEF GiveUp
  <2>2. QED
    BY <1>5, <2>1, Types, TypesNext DEF GiveUp, issue, blacklist, history
<1>6. ASSUME NEW kind \in Kinds(c), Send(c, kind) PROVE TypeOK'
  <2>1. kind \in Kind /\ jar[JarOf(c)] \in 0..made
    BY <1>1, <1>6, Types DEF Kinds, Kind, Refreshes, Caller, BrowserWindow
  <2>2. [NoCall EXCEPT !.state = "sent", !.kind = kind, !.token = jar[JarOf(c)]] \in CallRec(made)
    BY <2>1 DEF NoCall, CallRec
  <2>3. call' \in [Caller -> CallRec(made)]
    BY <1>6, <2>2, Calling DEF Send
  <2>4. budget' \in Budget /\ crossed' \in BOOLEAN
    <3>1. budget' \in Budget
      BY <1>6, Spending, Types DEF Send
    <3>2. crossed' \in BOOLEAN
      BY <1>6, Types DEF Send
    <3>3. QED
      BY <3>1, <3>2
  <2>5. QED
    BY <1>6, <2>3, <2>4, Types, TypesNext DEF Send, issue, blacklist
<1>7. QED
  BY <1>2, <1>3, <1>4, <1>5, <1>6 DEF CallerStep

\* A replica's step keeps the types.
LEMMA ReplicaTypes ==
  ASSUME TypeOK, NEW r \in Replica, ReplicaStep(r)
  PROVE  TypeOK'
<1>1. /\ made \in Nat /\ busy[r] \in BusyRec(made) /\ busy[r].token \in 0..made
      /\ NoToken \in 0..made
  BY Types, Naturals DEF BusyRec, NoToken
<1>2. ASSUME NEW c \in Caller, CheckUser(r, c) \/ LogoutCheck(r, c) \/ CheckPodToken(r, c)
      PROVE  TypeOK'
  <2>1. [call[c] EXCEPT !.state = "granted", !.token = NoToken] \in CallRec(made)
    <3>1. call[c] \in CallRec(made)
      BY Types
    <3>2. QED
      BY <1>1, <3>1 DEF CallRec
  <2>2. [call EXCEPT ![c].state = "granted", ![c].token = NoToken]
          = [call EXCEPT ![c] = [call[c] EXCEPT !.state = "granted", !.token = NoToken]]
    BY Types
  <2>3. call' \in [Caller -> CallRec(made)] /\ busy' \in [Replica -> BusyRec(made)]
    <3>1. CASE UNCHANGED busy /\ Deny(c)
      BY <3>1, SentIsCall, Types
    <3>2. CASE Serve(r, c) /\ \E step \in {"checkJti", "logout", "exchange"} : Take(r, c, step)
      BY <3>2, SentIsCall, Types
    <3>3. CASE /\ UNCHANGED busy
               /\ call' = [call EXCEPT ![c].state = "granted", ![c].token = NoToken]
      BY <2>1, <2>2, <3>3, Calling, Types
    <3>4. QED
      BY <1>2, <3>1, <3>2, <3>3 DEF CheckUser, LogoutCheck, CheckPodToken
  <2>4. QED
    BY <1>2, <2>3, Types, TypesNext
    DEF CheckUser, LogoutCheck, CheckPodToken, issue, blacklist, history
<1>3. CASE CheckJti(r)
  <2>1. call' \in [Caller -> CallRec(made)] /\ busy' \in [Replica -> BusyRec(made)]
    <3>1. CASE UNCHANGED call /\ \E step \in {"revoke", "rotate"} : Continue(r, step)
      <4>1. \A step \in {"revoke", "rotate"} : [busy[r] EXCEPT !.step = step] \in BusyRec(made)
        BY <1>1 DEF BusyRec
      <4>2. QED
        BY <3>1, <4>1, Types DEF Continue
    <3>2. CASE \E state \in {"granted", "denied"} : Reply(r, state, NoToken)
      <4>1. PICK state \in {"granted", "denied"} : Reply(r, state, NoToken)
        BY <3>2
      <4>2. call \in [Caller -> CallRec(made)] /\ busy \in [Replica -> BusyRec(made)]
        BY Types
      <4>3. QED
        BY <1>1, <4>1, <4>2, Replying
    <3>3. QED
      BY <1>3, <3>1, <3>2 DEF CheckJti
  <2>2. QED
    BY <1>3, <2>1, Types, TypesNext DEF CheckJti, issue, blacklist, history
<1>4. CASE RevokeAll(r)
  <2>1. call' \in [Caller -> CallRec(made)] /\ busy' \in [Replica -> BusyRec(made)]
    BY <1>1, <1>4, Replying, Types DEF RevokeAll
  <2>2. redis' \in Ends /\ memory' \in [Replica -> Ends]
    BY <1>4, Listing, Naturals DEF RevokeAll
  <2>3. mark' \in 0..made
    BY <1>1, <1>4 DEF RevokeAll
  <2>4. QED
    BY <1>4, <2>1, <2>2, <2>3, Types, TypesNext DEF RevokeAll, issue
<1>5. CASE Rotate(r)
  <2>1. redis' \in Ends /\ memory' \in [Replica -> Ends]
    BY <1>5, Listing, Naturals DEF Rotate
  <2>2. /\ call' \in [Caller -> CallRec(made')] /\ busy' \in [Replica -> BusyRec(made')]
        /\ jar \in [Jar -> 0..made'] /\ mark \in 0..made' /\ made' \in 1..MaxTokens
        /\ issuedAt' \in [Token -> 0..MaxTime]
    BY <1>1, <1>5, Issuing, Replying DEF Rotate
  <2>3. spent' \in [Token -> Nat]
    BY <1>5, SpentIsCounted DEF Rotate
  <2>4. QED
    BY <1>5, <2>1, <2>2, <2>3, Types, TypesNext DEF Rotate
<1>6. CASE LogoutBlacklist(r)
  <2>1. redis' \in Ends /\ memory' \in [Replica -> Ends]
    BY <1>6, Listing, Naturals DEF LogoutBlacklist
  <2>2. call' \in [Caller -> CallRec(made)] /\ busy' \in [Replica -> BusyRec(made)]
    BY <1>1, <1>6, Replying, Types DEF LogoutBlacklist
  <2>3. spent' \in [Token -> Nat]
    BY <1>6, SpentIsCounted DEF LogoutBlacklist
  <2>4. QED
    BY <1>6, <2>1, <2>2, <2>3, Types, TypesNext DEF LogoutBlacklist, issue
<1>7. CASE Exchange(r)
  <2>1. redis' \in Ends /\ memory' \in [Replica -> Ends]
    BY <1>7, Listing, Naturals DEF Exchange
  <2>2. /\ call' \in [Caller -> CallRec(made')] /\ busy' \in [Replica -> BusyRec(made')]
        /\ jar \in [Jar -> 0..made'] /\ mark \in 0..made' /\ made' \in 1..MaxTokens
        /\ issuedAt' \in [Token -> 0..MaxTime]
    BY <1>1, <1>7, Issuing, Replying DEF Exchange
  <2>3. exchanges' \in [0..MaxTime -> Nat]
    <3>1. exchanges \in [0..MaxTime -> Nat] /\ now \in 0..MaxTime
      BY Types
    <3>2. exchanges[now] + 1 \in Nat
      BY <3>1
    <3>3. QED
      BY <1>7, <3>1, <3>2 DEF Exchange
  <2>4. QED
    BY <1>7, <2>1, <2>2, <2>3, Types, TypesNext DEF Exchange
<1>8. CASE ReplicaRestarts(r)
  <2>1. memory' \in [Replica -> Ends]
    BY <1>8, Types DEF ReplicaRestarts, Ends
  <2>2. call' \in [Caller -> CallRec(made)] /\ busy' \in [Replica -> BusyRec(made)]
    BY <1>1, <1>8, Replying, Types DEF ReplicaRestarts
  <2>3. budget' \in Budget
    BY <1>8, Spending DEF ReplicaRestarts
  <2>4. QED
    BY <1>8, <2>1, <2>2, <2>3, Types, TypesNext DEF ReplicaRestarts, issue, history
<1>9. QED
  BY <1>2, <1>3, <1>4, <1>5, <1>6, <1>7, <1>8 DEF ReplicaStep

\* A step of the environment keeps the types.
LEMMA EnvironmentTypes ==
  ASSUME TypeOK, Tick \/ RedisFails \/ RedisReturns \/ UNCHANGED vars
  PROVE  TypeOK'
<1>1. CASE Tick
  <2>1. now' \in 0..MaxTime
    BY <1>1, Types, Naturals DEF Tick
  <2>2. QED
    BY <1>1, <2>1, Types, TypesNext DEF Tick, issue, clients, blacklist, history
<1>2. CASE RedisFails \/ RedisReturns
  <2>1. budget' \in Budget /\ redisUp' \in BOOLEAN
    BY <1>2, Spending, Types DEF RedisFails, RedisReturns
  <2>2. QED
    BY <1>2, <2>1, Types, TypesNext
    DEF RedisFails, RedisReturns, issue, clients, blacklist, history
<1>3. CASE UNCHANGED vars
  BY <1>3, Types, TypesNext DEF vars, issue, clients, blacklist, history
<1>4. QED
  BY <1>1, <1>2, <1>3

\* Every step keeps the types.
LEMMA NextTypes == TypeOK /\ [Next]_vars => TypeOK'
BY CallerTypes, ReplicaTypes, EnvironmentTypes DEF Next

\* Every variable keeps its type: a caller's or a replica's token is one that was issued.
THEOREM JwtTypeCorrect == Spec => []TypeOK
BY InitTypes, NextTypes, PTL DEF Spec

-----------------------------------------------------------------------------
(* The entries of the blacklist *)

\* While a replica handles a refresh token, it is one that was issued.
BusyHasToken ==
  \A r \in Replica :
    busy[r].step \in {"checkJti", "revoke", "rotate", "logout"} => busy[r].token \in 1..made

IssuedBefore == \A t \in 1..made : issuedAt[t] <= now

\* No entry of a refresh token or of the user lapses later than one that is written now.
NotBeyond == \A e \in Token \cup {UserRevoked} : redis[e] <= now + RefreshTTL

\* A token that was used has an entry that lapses no sooner than the token, and so have,
\* together, those issued before the user was revoked.
UsedKept == \A t \in 1..made : spent[t] > 0 => issuedAt[t] + RefreshTTL <= redis[t]
UsedWereMade == \A t \in Token : spent[t] > 0 => t \in 1..made
RevokedKept == \A t \in 1..mark : issuedAt[t] + RefreshTTL <= redis[UserRevoked]

EntriesInv ==
  /\ TypeOK /\ redisUp
  /\ BusyHasToken /\ IssuedBefore /\ UsedWereMade
  /\ NotBeyond /\ UsedKept /\ RevokedKept

\* The invariant is enough.
LEMMA EntriesSuffice == EntriesInv => EntriesOutliveTokens
<1> SUFFICES ASSUME EntriesInv PROVE EntriesOutliveTokens
  OBVIOUS
<1> USE DEF EntriesInv
<1>1. /\ now \in Nat /\ made \in Nat /\ mark \in Nat /\ mark <= made /\ made <= MaxTokens
      /\ redis \in [Entry -> Nat] /\ issuedAt \in [Token -> Nat]
  BY Types, Naturals DEF Ends
<1>2. UsedOutlivesExpiry
  <2> SUFFICES ASSUME NEW t \in 1..made, spent[t] > 0, Valid(t), NEW r \in Replica
               PROVE  Listed(r, t)
    BY DEF UsedOutlivesExpiry
  <2>1. t \in Token /\ t \in Entry
    BY <1>1, Naturals DEF Token, Entry
  <2>2. QED
    BY <1>1, <2>1, Naturals DEF UsedKept, Valid, Listed
<1>3. RevocationOutlivesTokens
  <2> SUFFICES ASSUME NEW t \in 1..mark, Valid(t), NEW r \in Replica
               PROVE  Listed(r, UserRevoked)
    BY DEF RevocationOutlivesTokens
  <2>1. t \in Token /\ UserRevoked \in Entry
    BY <1>1, Naturals DEF Token, Entry
  <2>2. QED
    BY <1>1, <2>1, Naturals DEF RevokedKept, Valid, Listed
<1>4. QED
  BY <1>2, <1>3 DEF EntriesOutliveTokens

\* At first nothing is issued.
LEMMA InitEntries == Init => EntriesInv
<1> SUFFICES ASSUME Init PROVE EntriesInv
  OBVIOUS
<1>1. \A e \in Token \cup {UserRevoked} : redis[e] <= now + RefreshTTL
  BY Naturals DEF Init, Entry
<1>2. \A r \in Replica : busy[r].step = "idle"
  BY Nobody DEF Init
<1>3. UsedWereMade
  BY DEF Init, UsedWereMade
<1>4. QED
  BY <1>1, <1>2, <1>3, InitTypes
  DEF Init, EntriesInv, BusyHasToken, IssuedBefore, NotBeyond, UsedKept, RevokedKept

\* A step in which nothing is issued and no entry is written.
LEMMA EntriesRest ==
  ASSUME EntriesInv, TypeOK', redisUp', BusyHasToken', now <= now',
         UNCHANGED <<issue, redis, mark, spent>>
  PROVE  EntriesInv'
<1>1. now \in Nat /\ now' \in Nat /\ made \in Nat /\ made <= MaxTokens
      /\ redis \in [Entry -> Nat] /\ issuedAt \in [Token -> Nat]
  BY Types, TypesNext, Naturals DEF EntriesInv, Ends
<1>2. Token \cup {UserRevoked} \subseteq Entry /\ 1..made \subseteq Token
  BY <1>1, Naturals DEF Entry, Token
<1>3. IssuedBefore' /\ NotBeyond'
  BY <1>1, <1>2, Naturals DEF EntriesInv, IssuedBefore, NotBeyond, issue
<1>4. UsedWereMade' /\ UsedKept' /\ RevokedKept'
  BY DEF EntriesInv, UsedWereMade, UsedKept, RevokedKept, issue
<1>5. QED
  BY <1>3, <1>4 DEF EntriesInv

\* A step that writes an entry for the user or for a refresh token, the one that it uses if it
\* uses one, or issues a token.
LEMMA EntriesGrow ==
  ASSUME EntriesInv, TypeOK', redisUp', BusyHasToken', UNCHANGED now,
         made' \in {made, made + 1},
         \A t \in 1..made : issuedAt'[t] = issuedAt[t],
         made' = made + 1 => issuedAt'[made'] = now,
         \A t \in Token : spent'[t] = spent[t] \/ (t \in 1..made /\ redis'[t] = now + RefreshTTL),
         \A e \in Token \cup {UserRevoked} : redis'[e] \in {redis[e], now + RefreshTTL},
         mark' # mark => mark' = made /\ redis'[UserRevoked] = now + RefreshTTL
  PROVE  EntriesInv'
<1>1. now \in Nat /\ made \in Nat /\ made' \in Nat /\ made' <= MaxTokens /\ made <= MaxTokens
      /\ mark \in Nat /\ mark <= made
      /\ redis \in [Entry -> Nat] /\ redis' \in [Entry -> Nat]
      /\ issuedAt \in [Token -> Nat] /\ issuedAt' \in [Token -> Nat]
  BY Types, TypesNext, Naturals DEF EntriesInv, Ends
<1>2. /\ Token \cup {UserRevoked} \subseteq Entry
      /\ 1..made \subseteq Token /\ 1..made' \subseteq Token
  BY <1>1, Naturals DEF Entry, Token
<1>3. \A e \in Token \cup {UserRevoked} : redis[e] <= redis'[e] /\ redis'[e] <= now + RefreshTTL
  BY <1>1, <1>2, Naturals DEF EntriesInv, NotBeyond
<1>4. \A t \in 1..made' : t \in 1..made \/ (t = made' /\ made' = made + 1)
  BY <1>1
<1>5. NotBeyond'
  BY <1>3 DEF NotBeyond
<1>6. IssuedBefore'
  BY <1>1, <1>4 DEF EntriesInv, IssuedBefore
<1>7. UsedWereMade'
  BY <1>1 DEF EntriesInv, UsedWereMade
<1>8. UsedKept'
  <2> SUFFICES ASSUME NEW t \in 1..made', spent'[t] > 0
               PROVE  issuedAt'[t] + RefreshTTL <= redis'[t]
    BY DEF UsedKept
  <2>1. t \in Token
    BY <1>2
  <2>2. CASE spent'[t] = spent[t]
    <3>1. t \in 1..made /\ issuedAt'[t] = issuedAt[t]
      BY <2>1, <2>2 DEF EntriesInv, UsedWereMade
    <3>2. redis[t] <= redis'[t] /\ issuedAt[t] + RefreshTTL <= redis[t]
      BY <1>3, <2>1, <2>2, <3>1 DEF EntriesInv, UsedKept
    <3>3. redis[t] \in Nat /\ redis'[t] \in Nat /\ issuedAt[t] \in Nat
      BY <1>1, <1>2, <2>1
    <3>4. QED
      BY <3>1, <3>2, <3>3, Naturals
  <2>3. CASE t \in 1..made /\ redis'[t] = now + RefreshTTL
    BY <1>1, <1>2, <2>3, Naturals DEF EntriesInv, IssuedBefore
  <2>4. QED
    BY <2>1, <2>2, <2>3
<1>9. RevokedKept'
  <2> SUFFICES ASSUME NEW t \in 1..mark'
               PROVE  issuedAt'[t] + RefreshTTL <= redis'[UserRevoked]
    BY DEF RevokedKept
  <2>1. t \in 1..made /\ issuedAt'[t] = issuedAt[t]
    BY <1>1
  <2>2. CASE mark' = mark
    BY <1>1, <1>2, <1>3, <2>1, <2>2, Naturals DEF EntriesInv, RevokedKept
  <2>3. CASE mark' # mark
    BY <1>1, <1>2, <2>1, <2>3, Naturals DEF EntriesInv, IssuedBefore
  <2>4. QED
    BY <2>2, <2>3
<1>10. QED
  BY <1>5, <1>6, <1>7, <1>8, <1>9 DEF EntriesInv

\* One token is used.
LEMMA SpentOne ==
  ASSUME EntriesInv, NEW u, Consume(u)
  PROVE  \A t \in Token : spent'[t] = IF t = u THEN spent[u] + 1 ELSE spent[t]
BY Types DEF EntriesInv, Consume

\* A caller's step.
LEMMA CallerEntries ==
  ASSUME EntriesInv, NEW c \in Caller, CallerStep(c)
  PROVE  EntriesInv'
<1>1. TypeOK' /\ UNCHANGED <<now, redisUp, redis, mark, spent, busy>>
  BY CallerTypes DEF EntriesInv, CallerStep, Login, SendPodToken, EntrypointAgain, Receive, GiveUp,
                     Send, blacklist, history
<1>2. CASE Login(c)
  <2>1. Issue /\ made \in Nat
    BY <1>2, Types, Naturals DEF EntriesInv, Login
  <2>2. /\ made' = made + 1 /\ issuedAt'[made'] = now
        /\ \A t \in 1..made : issuedAt'[t] = issuedAt[t]
    BY <2>1, Issuing DEF EntriesInv
  <2>3. BusyHasToken'
    BY <1>1, <2>1, <2>2 DEF EntriesInv, BusyHasToken
  <2>4. QED
    BY <1>1, <2>2, <2>3, EntriesGrow DEF EntriesInv
<1>3. CASE ~Login(c)
  <2>1. UNCHANGED issue
    BY <1>3 DEF CallerStep, SendPodToken, EntrypointAgain, Receive, GiveUp, Send
  <2>2. BusyHasToken' /\ now <= now'
    BY <1>1, <2>1, Types, Naturals DEF EntriesInv, BusyHasToken, issue
  <2>3. QED
    BY <1>1, <2>1, <2>2, EntriesRest DEF EntriesInv
<1>4. QED
  BY <1>2, <1>3

\* A replica goes on with a request, or ends it.
LEMMA BusyMoves ==
  ASSUME EntriesInv, NEW r \in Replica, NEW b, busy' = [busy EXCEPT ![r] = b],
         made' \in {made, made + 1},
         b.step \in {"checkJti", "revoke", "rotate", "logout"} => b.token \in 1..made
  PROVE  BusyHasToken'
<1>1. made \in Nat /\ busy \in [Replica -> BusyRec(made)]
  BY Types, Naturals DEF EntriesInv
<1>2. \A q \in Replica : busy'[q] = IF q = r THEN b ELSE busy[q]
  BY <1>1
<1>3. 1..made \subseteq 1..made'
  BY <1>1
<1>4. QED
  BY <1>2, <1>3 DEF EntriesInv, BusyHasToken

\* A replica that has answered handles nothing.
LEMMA ReplyEntries ==
  ASSUME EntriesInv, NEW r \in Replica, NEW state, NEW token, Reply(r, state, token),
         made' \in {made, made + 1}
  PROVE  BusyHasToken'
BY BusyMoves, Nobody DEF Reply

\* A valid token is one that was issued.
LEMMA ValidIsMade ==
  ASSUME TypeOK, NEW c \in Caller, Valid(call[c].token)
  PROVE  call[c].token \in 1..made
<1>1. call[c].token \in 0..made /\ call[c].token # 0 /\ made \in Nat
  BY Types, Naturals DEF CallRec, Valid, NoToken
<1>2. QED
  BY <1>1

\* A replica's step.
LEMMA ReplicaEntries ==
  ASSUME EntriesInv, NEW r \in Replica, ReplicaStep(r)
  PROVE  EntriesInv'
<1> USE Naturals
<1>1. TypeOK' /\ UNCHANGED <<now, redisUp>> /\ redisUp /\ made \in Nat /\ now \in Nat
  <2>1. UNCHANGED now /\ UNCHANGED redisUp
    BY DEF ReplicaStep, CheckUser, LogoutCheck, CheckPodToken, CheckJti, RevokeAll, Rotate,
           LogoutBlacklist, Exchange, ReplicaRestarts
  <2>2. QED
    BY <2>1, ReplicaTypes, Types DEF EntriesInv
<1>2. busy[r].step \in {"checkJti", "revoke", "rotate", "logout"} =>
        busy[r].token \in 1..made /\ busy[r].token \in Token /\ busy[r].token \in Entry
  <2>1. made <= MaxTokens
    BY Types DEF EntriesInv
  <2>2. QED
    BY <1>1, <2>1 DEF EntriesInv, BusyHasToken, Token, Entry
<1>3. redis \in [Entry -> Nat] /\ busy \in [Replica -> BusyRec(made)]
  BY Types DEF EntriesInv, Ends
<1>4. ASSUME NEW c \in Caller, CheckUser(r, c) \/ LogoutCheck(r, c) \/ CheckPodToken(r, c)
      PROVE  EntriesInv'
  <2>1. UNCHANGED <<issue, redis, mark, spent>> /\ made' = made
    BY <1>4 DEF CheckUser, LogoutCheck, CheckPodToken, blacklist, history, issue
  <2>2. BusyHasToken'
    <3>1. CASE UNCHANGED busy
      BY <2>1, <3>1 DEF EntriesInv, BusyHasToken
    <3>2. CASE Take(r, c, "exchange")
      BY <2>1, <3>2, BusyMoves DEF Take
    <3>3. CASE Valid(call[c].token) /\ \E step \in {"checkJti", "logout"} : Take(r, c, step)
      BY <2>1, <3>3, BusyMoves, ValidIsMade DEF Take, EntriesInv
    <3>4. QED
      BY <1>4, <3>1, <3>2, <3>3 DEF CheckUser, LogoutCheck, CheckPodToken
  <2>3. QED
    BY <1>1, <2>1, <2>2, EntriesRest
<1>5. CASE CheckJti(r)
  <2>1. UNCHANGED <<issue, redis, mark, spent>> /\ made' = made
    BY <1>5 DEF CheckJti, blacklist, history, issue
  <2>2. BusyHasToken'
    <3>1. CASE \E step \in {"revoke", "rotate"} : Continue(r, step)
      <4>1. PICK step \in {"revoke", "rotate"} :
                   busy' = [busy EXCEPT ![r] = [busy[r] EXCEPT !.step = step]]
        BY <1>3, <3>1 DEF Continue
      <4>2. [busy[r] EXCEPT !.step = step].token = busy[r].token
        BY <1>3 DEF BusyRec
      <4>3. QED
        BY <1>2, <1>5, <2>1, <4>1, <4>2, BusyMoves DEF CheckJti
    <3>2. CASE \E state : Reply(r, state, NoToken)
      BY <2>1, <3>2, ReplyEntries
    <3>3. QED
      BY <1>5, <3>1, <3>2 DEF CheckJti
  <2>3. QED
    BY <1>1, <2>1, <2>2, EntriesRest
<1>6. CASE RevokeAll(r)
  <2>1. BusyHasToken' /\ UNCHANGED <<issue, spent>> /\ mark' = made
    BY <1>6, ReplyEntries DEF RevokeAll, issue
  <2>2. redis' = [redis EXCEPT ![UserRevoked] = now + RefreshTTL] /\ UserRevoked \in Entry
    BY <1>1, <1>6 DEF RevokeAll, Blacklist, Entry
  <2>3. \A e \in Token \cup {UserRevoked} : redis'[e] \in {redis[e], now + RefreshTTL}
    BY <1>3, <2>2 DEF Entry
  <2>4. redis'[UserRevoked] = now + RefreshTTL
    BY <1>3, <2>2
  <2>5. QED
    BY <1>1, <2>1, <2>3, <2>4, EntriesGrow DEF issue
<1>7. CASE Rotate(r)
  <2> DEFINE from == busy[r].token
  <2>1. from \in 1..made /\ from \in Entry /\ Issue /\ Consume(from)
    BY <1>1, <1>2, <1>7 DEF Rotate
  <2>2. /\ made' = made + 1 /\ issuedAt'[made'] = now
        /\ \A t \in 1..made : issuedAt'[t] = issuedAt[t]
    BY <2>1, Issuing DEF EntriesInv
  <2>3. BusyHasToken' /\ UNCHANGED mark
    BY <1>7, <2>2, ReplyEntries DEF Rotate
  <2>4. redis' = [redis EXCEPT ![from] = now + RefreshTTL]
    BY <1>1, <1>7 DEF Rotate, Blacklist
  <2>5. \A e \in Token \cup {UserRevoked} : redis'[e] \in {redis[e], now + RefreshTTL}
    BY <1>3, <2>4 DEF Entry
  <2> HIDE DEF from
  <2>6. \A t \in Token : spent'[t] = spent[t] \/ (t \in 1..made /\ redis'[t] = now + RefreshTTL)
    BY <1>3, <2>1, <2>4, SpentOne
  <2>7. QED
    BY <1>1, <2>1, <2>2, <2>3, <2>5, <2>6, EntriesGrow
<1>8. CASE LogoutBlacklist(r)
  <2>1. BusyHasToken' /\ UNCHANGED <<issue, mark>>
    BY <1>8, ReplyEntries DEF LogoutBlacklist, issue
  <2>2. redis' = [redis EXCEPT ![busy[r].token] = now + RefreshTTL]
    BY <1>1, <1>8 DEF LogoutBlacklist, Blacklist
  <2>3. \A e \in Token \cup {UserRevoked} : redis'[e] \in {redis[e], now + RefreshTTL}
    BY <1>3, <2>2 DEF Entry
  <2>4. \A t \in Token : spent'[t] = spent[t] \/ (t \in 1..made /\ redis'[t] = now + RefreshTTL)
    <3>1. busy[r].token \in 1..made /\ busy[r].token \in Entry /\ Consume(busy[r].token)
      BY <1>2, <1>8 DEF LogoutBlacklist
    <3>2. QED
      BY <1>3, <2>2, <3>1, SpentOne
  <2>5. QED
    BY <1>1, <2>1, <2>3, <2>4, EntriesGrow DEF issue
<1>9. CASE Exchange(r)
  <2>1. Issue
    BY <1>9 DEF Exchange
  <2>2. /\ made' = made + 1 /\ issuedAt'[made'] = now
        /\ \A t \in 1..made : issuedAt'[t] = issuedAt[t]
    BY <2>1, Issuing DEF EntriesInv
  <2>3. BusyHasToken' /\ UNCHANGED <<mark, spent>>
    BY <1>9, <2>2, ReplyEntries DEF Exchange
  <2>4. /\ redis' = [redis EXCEPT ![PodToken] = now + PodTTL]
        /\ PodToken \notin Token \cup {UserRevoked}
    BY <1>1, <1>9, JwtAuthAssumption DEF Exchange, Blacklist
  <2>5. \A e \in Token \cup {UserRevoked} : redis'[e] \in {redis[e], now + RefreshTTL}
    BY <1>3, <2>4 DEF Entry
  <2>6. QED
    BY <1>1, <2>2, <2>3, <2>5, EntriesGrow
<1>10. CASE ReplicaRestarts(r)
  <2>1. UNCHANGED <<issue, redis, mark, spent>> /\ made' = made
    BY <1>10 DEF ReplicaRestarts, issue, history
  <2>2. BusyHasToken'
    BY <1>10, <2>1, ReplyEntries DEF ReplicaRestarts
  <2>3. QED
    BY <1>1, <2>1, <2>2, EntriesRest
<1>11. QED
  BY <1>4, <1>5, <1>6, <1>7, <1>8, <1>9, <1>10 DEF ReplicaStep

\* Time passes, or nothing happens; Redis does not fail.
LEMMA EnvironmentEntries ==
  ASSUME EntriesInv, MaxOutages = 0, Tick \/ RedisFails \/ RedisReturns \/ UNCHANGED vars
  PROVE  EntriesInv'
<1>1. ~RedisFails /\ ~RedisReturns
  BY Types DEF EntriesInv, RedisFails, RedisReturns, Spend, Budget
<1>2. TypeOK' /\ redisUp' /\ UNCHANGED <<issue, redis, mark, spent, busy>> /\ now <= now'
  <2>1. now \in Nat /\ (now' = now \/ now' = now + 1)
    <3>1. now \in Nat
      BY Types, Naturals DEF EntriesInv
    <3>2. now' = now \/ now' = now + 1
      BY <1>1 DEF Tick, vars
    <3>3. QED
      BY <3>1, <3>2
  <2>2. UNCHANGED <<redisUp, issue, redis, mark, spent, busy>>
    BY <1>1 DEF Tick, vars, blacklist, history
  <2>3. QED
    BY <2>1, <2>2, EnvironmentTypes DEF EntriesInv
<1>3. BusyHasToken'
  BY <1>2 DEF EntriesInv, BusyHasToken, issue
<1>4. QED
  BY <1>2, <1>3, EntriesRest

\* Every step keeps the entries, unless Redis fails.
LEMMA NextEntries == MaxOutages = 0 /\ EntriesInv /\ [Next]_vars => EntriesInv'
BY CallerEntries, ReplicaEntries, EnvironmentEntries DEF Next

\* While Redis answers, what blocks a token lives as long as the token, for any number of
\* replicas, callers, lost answers and restarts.
THEOREM EntriesHold == ASSUME MaxOutages = 0 PROVE Spec => []EntriesOutliveTokens
<1>1. EntriesInv /\ [Next]_vars => EntriesInv'
  BY NextEntries
<1>2. Spec => []EntriesInv
  BY <1>1, InitEntries, PTL DEF Spec
<1>3. QED
  BY <1>2, EntriesSuffice, PTL

-----------------------------------------------------------------------------
(* Tokens are used once *)

\* What a replica has found out about a request still holds when it acts on it: the refresh token
\* has not expired, and the pod token was not exchanged in the last PodTTL, unless just now.
Fresh ==
  \A r \in Replica :
    /\ busy[r].step \in {"checkJti", "rotate", "logout"} => Valid(busy[r].token)
    /\ busy[r].step = "exchange" =>
         \A t \in 0..MaxTime : exchanges[t] > 0 => t = now \/ t + PodTTL <= now

\* The pod token's entry lapses no sooner than its lifetime after each exchange.
ExchangedKept ==
  \A t \in 0..MaxTime : exchanges[t] > 0 => t <= now /\ t + PodTTL <= redis[PodToken]

UsedInv == EntriesInv /\ Fresh /\ ExchangedKept /\ UsedOnce

\* A token is valid in the next state.
ValidNext(t) == t # NoToken /\ now' < issuedAt'[t] + RefreshTTL

\* What NoLateUse says of a step.
Timely ==
  \A r \in Replica :
    /\ busy'[r].step \in {"rotate", "logout"} /\ busy'[r].step # busy[r].step =>
         spent[busy'[r].token] = 0
    /\ busy'[r].step = "exchange" /\ busy[r].step # "exchange" =>
         \A t \in 0..MaxTime : exchanges[t] > 0 => t + PodTTL <= now

\* Sets of replicas are finite.
LEMMA FewReplicas ==
  ASSUME NEW A, NEW B, A \subseteq B, B \subseteq Replica
  PROVE  /\ Cardinality(A) \in Nat /\ Cardinality(B) \in Nat /\ Cardinality(A) <= Cardinality(B)
         /\ \A r \in B : Cardinality(B \ {r}) = Cardinality(B) - 1
<1>1. IsFiniteSet(B)
  BY JwtAuthAssumption, FS_Subset
<1>2. QED
  BY <1>1, FS_Subset, FS_CardinalityType, FS_RemoveElement

\* What UsedInv compares are numbers.
LEMMA UsedTypes ==
  ASSUME EntriesInv
  PROVE  /\ now \in 0..MaxTime /\ now \in Nat /\ MaxTime \in Nat /\ PodTTL \in Nat /\ PodTTL > 0
         /\ made \in Nat /\ 1..made \subseteq Token /\ Token \subseteq Nat
         /\ spent \in [Token -> Nat] /\ exchanges \in [0..MaxTime -> Nat]
         /\ redis \in [Entry -> Nat] /\ issuedAt \in [Token -> Nat]
         /\ PodToken \in Entry /\ Token \subseteq Entry /\ PodToken \notin Token
         /\ PodToken # UserRevoked
         /\ busy \in [Replica -> BusyRec(made)]
BY Types, Naturals, JwtAuthAssumption DEF EntriesInv, Ends, Entry, Token

\* At first nothing is used.
LEMMA InitUsed == Init => UsedInv
<1> SUFFICES ASSUME Init PROVE UsedInv
  OBVIOUS
<1>1. \A r \in Replica : busy[r].step = "idle"
  BY Nobody DEF Init
<1>2. EntriesInv /\ now \in 0..MaxTime
  BY InitEntries, UsedTypes
<1>3. (\A t \in Token : spent[t] = 0) /\ (\A t \in 0..MaxTime : exchanges[t] = 0)
  BY DEF Init
<1>4. (\A t \in Token : Users(t) = {}) /\ Exchanging = {}
  BY <1>1 DEF Users, Exchanging
<1>5. Cardinality({}) = 0 /\ Cardinality(Replica) \in Nat
  BY FewReplicas, FS_EmptySet
<1>6. UsedOnce
  BY <1>2, <1>3, <1>4, <1>5 DEF UsedOnce
<1>7. Fresh /\ ExchangedKept
  BY <1>1, <1>3 DEF Fresh, ExchangedKept
<1>8. QED
  BY <1>2, <1>6, <1>7 DEF UsedInv

\* A step in which no replica goes on and nothing is used.
LEMMA UsedRests ==
  ASSUME UsedInv, EntriesInv', UNCHANGED <<now, busy, spent, exchanges>>,
         redis'[PodToken] = redis[PodToken],
         \A t \in 1..made : issuedAt'[t] = issuedAt[t]
  PROVE  UsedInv' /\ Timely
<1>1. Fresh'
  <2> SUFFICES ASSUME NEW r \in Replica, busy[r].step \in {"checkJti", "rotate", "logout"}
               PROVE  ValidNext(busy[r].token)
    BY DEF UsedInv, Fresh, Valid, ValidNext
  <2>1. busy[r].token \in 1..made /\ Valid(busy[r].token)
    BY DEF UsedInv, EntriesInv, BusyHasToken, Fresh
  <2>2. QED
    BY <2>1 DEF Valid, ValidNext
<1>2. ExchangedKept'
  BY DEF UsedInv, ExchangedKept
<1>3. UsedOnce'
  BY DEF UsedInv, UsedOnce, Users, Exchanging
<1>4. Timely
  BY DEF Timely
<1>5. QED
  BY <1>1, <1>2, <1>3, <1>4 DEF UsedInv

\* A replica goes on with b, and nothing is used yet: if b is to use a token, nobody did so far.
LEMMA UsedMoves ==
  ASSUME UsedInv, EntriesInv', NEW r \in Replica, NEW b, busy' = [busy EXCEPT ![r] = b],
         UNCHANGED <<now, spent, exchanges>>, redis'[PodToken] = redis[PodToken],
         \A t \in 1..made : issuedAt'[t] = issuedAt[t],
         b.step \in {"checkJti", "rotate", "logout"} => ValidNext(b.token),
         b.step \in {"rotate", "logout"} => spent[b.token] = 0,
         b.step = "exchange" =>
           \A t \in 0..MaxTime : exchanges[t] > 0 => t + PodTTL <= now
  PROVE  UsedInv' /\ Timely
<1> EntriesInv
  BY DEF UsedInv
<1> USE UsedTypes
<1>1. \A q \in Replica : busy'[q] = IF q = r THEN b ELSE busy[q]
  OBVIOUS
<1>2. Fresh'
  <2>1. \A q \in Replica : busy'[q].step \in {"checkJti", "rotate", "logout"} =>
          ValidNext(busy'[q].token)
    <3> SUFFICES ASSUME NEW q \in Replica, busy'[q].step \in {"checkJti", "rotate", "logout"}
                 PROVE  ValidNext(busy'[q].token)
      OBVIOUS
    <3>1. CASE q = r
      BY <1>1, <3>1
    <3>2. CASE q # r
      <4>1. busy'[q] = busy[q] /\ busy[q].token \in 1..made /\ Valid(busy[q].token)
        BY <1>1, <3>2 DEF UsedInv, EntriesInv, BusyHasToken, Fresh
      <4>2. QED
        BY <4>1 DEF Valid, ValidNext
    <3>3. QED
      BY <3>1, <3>2
  <2>2. \A q \in Replica : busy'[q].step = "exchange" =>
          \A t \in 0..MaxTime : exchanges[t] > 0 => t = now \/ t + PodTTL <= now
    BY <1>1 DEF UsedInv, Fresh
  <2>3. QED
    BY <2>1, <2>2 DEF Fresh, Valid, ValidNext
<1>3. ExchangedKept'
  BY DEF UsedInv, ExchangedKept
<1>4. \A t \in Token : spent'[t] + Cardinality(Users(t)') <= Cardinality(Replica)
  <2> SUFFICES ASSUME NEW t \in Token
               PROVE  spent[t] + Cardinality(Users(t)') <= Cardinality(Replica)
    OBVIOUS
  <2>1. spent[t] \in Nat /\ spent[t] + Cardinality(Users(t)) <= Cardinality(Replica)
    BY DEF UsedInv, UsedOnce
  <2>2. Users(t) \subseteq Replica /\ Users(t)' \subseteq Replica
    BY DEF Users
  <2>3. CASE spent[t] = 0
    <3>1. /\ Cardinality(Users(t)') \in Nat /\ Cardinality(Replica) \in Nat
          /\ Cardinality(Users(t)') <= Cardinality(Replica)
      BY <2>2, FewReplicas
    <3>2. QED
      BY <2>3, <3>1
  <2>4. CASE spent[t] # 0
    <3>1. Users(t)' \subseteq Users(t)
      BY <1>1, <2>4 DEF Users
    <3>2. /\ Cardinality(Users(t)') \in Nat /\ Cardinality(Users(t)) \in Nat
          /\ Cardinality(Users(t)') <= Cardinality(Users(t))
      BY <2>2, <3>1, FewReplicas
    <3>3. Cardinality(Replica) \in Nat
      BY FewReplicas
    <3>4. QED
      BY <2>1, <3>2, <3>3
  <2>5. QED
    BY <2>3, <2>4
<1>5. exchanges[now] + Cardinality(Exchanging') <= Cardinality(Replica)
  <2>1. exchanges[now] \in Nat /\ exchanges[now] + Cardinality(Exchanging) <= Cardinality(Replica)
    BY DEF UsedInv, UsedOnce
  <2>2. Exchanging \subseteq Replica /\ Exchanging' \subseteq Replica
    BY DEF Exchanging
  <2>3. CASE exchanges[now] = 0
    <3>1. /\ Cardinality(Exchanging') \in Nat /\ Cardinality(Replica) \in Nat
          /\ Cardinality(Exchanging') <= Cardinality(Replica)
      BY <2>2, FewReplicas
    <3>2. QED
      BY <2>3, <3>1
  <2>4. CASE exchanges[now] # 0
    <3>1. b.step # "exchange"
      BY <2>1, <2>4
    <3>2. Exchanging' \subseteq Exchanging
      BY <1>1, <3>1 DEF Exchanging
    <3>3. /\ Cardinality(Exchanging') \in Nat /\ Cardinality(Exchanging) \in Nat
          /\ Cardinality(Exchanging') <= Cardinality(Exchanging)
      BY <2>2, <3>2, FewReplicas
    <3>4. Cardinality(Replica) \in Nat
      BY FewReplicas
    <3>5. QED
      BY <2>1, <3>3, <3>4
  <2>5. QED
    BY <2>3, <2>4
<1>6. UsedOnce'
  BY <1>4, <1>5 DEF UsedInv, UsedOnce
<1>7. Timely
  BY <1>1 DEF Timely
<1>8. QED
  BY <1>2, <1>3, <1>6, <1>7 DEF UsedInv

\* A replica that was to use a refresh token has used it.
LEMMA TokenUsed ==
  ASSUME UsedInv, EntriesInv', NEW r \in Replica, busy' = [busy EXCEPT ![r] = Idle],
         busy[r].step \in {"rotate", "logout"}, Consume(busy[r].token),
         UNCHANGED <<now, exchanges>>, redis'[PodToken] = redis[PodToken],
         \A t \in 1..made : issuedAt'[t] = issuedAt[t]
  PROVE  UsedInv' /\ Timely
<1> EntriesInv
  BY DEF UsedInv
<1> USE UsedTypes
<1> DEFINE u == busy[r].token
<1>1. \A q \in Replica : busy'[q] = IF q = r THEN Idle ELSE busy[q]
  OBVIOUS
<1>2. Idle.step = "idle" /\ u \in 1..made
  BY Nobody DEF UsedInv, EntriesInv, BusyHasToken
<1>3. \A t \in Token : spent'[t] = IF t = u THEN spent[u] + 1 ELSE spent[t]
  BY SpentOne
<1>4. Fresh'
  <2>1. \A q \in Replica : busy'[q].step \in {"checkJti", "rotate", "logout"} =>
          ValidNext(busy'[q].token)
    <3> SUFFICES ASSUME NEW q \in Replica, busy'[q].step \in {"checkJti", "rotate", "logout"}
                 PROVE  ValidNext(busy'[q].token)
      OBVIOUS
    <3>1. busy'[q] = busy[q] /\ busy[q].token \in 1..made /\ Valid(busy[q].token)
      BY <1>1, <1>2 DEF UsedInv, EntriesInv, BusyHasToken, Fresh
    <3>2. QED
      BY <3>1 DEF Valid, ValidNext
  <2>2. \A q \in Replica : busy'[q].step = "exchange" =>
          \A t \in 0..MaxTime : exchanges[t] > 0 => t = now \/ t + PodTTL <= now
    BY <1>1, <1>2 DEF UsedInv, Fresh
  <2>3. QED
    BY <2>1, <2>2 DEF Fresh, Valid, ValidNext
<1>5. ExchangedKept'
  BY DEF UsedInv, ExchangedKept
<1>6. \A t \in Token : spent'[t] + Cardinality(Users(t)') <= Cardinality(Replica)
  <2> SUFFICES ASSUME NEW t \in Token
               PROVE  spent'[t] + Cardinality(Users(t)') <= Cardinality(Replica)
    OBVIOUS
  <2>1. spent[t] \in Nat /\ spent[t] + Cardinality(Users(t)) <= Cardinality(Replica)
    BY DEF UsedInv, UsedOnce
  <2>2. Users(t) \subseteq Replica /\ Cardinality(Users(t)) \in Nat
    BY FewReplicas DEF Users
  <2>3. CASE t = u
    <3>1. Users(t)' = Users(t) \ {r} /\ r \in Users(t)
      BY <1>1, <1>2, <2>3 DEF Users
    <3>2. Cardinality(Users(t)') = Cardinality(Users(t)) - 1
      BY <2>2, <3>1, FewReplicas
    <3>3. spent'[t] = spent[t] + 1
      BY <1>3, <2>3
    <3>4. Cardinality(Replica) \in Nat
      BY FewReplicas
    <3> HIDE DEF u
    <3>5. QED
      BY <2>1, <2>2, <3>2, <3>3, <3>4
  <2>4. CASE t # u
    <3>1. Users(t)' = Users(t)
      BY <1>1, <1>2, <2>4 DEF Users
    <3>2. spent'[t] = spent[t]
      BY <1>3, <2>4
    <3>3. QED
      BY <2>1, <3>1, <3>2
  <2>5. QED
    BY <2>3, <2>4
<1>7. Exchanging' = Exchanging
  BY <1>1, <1>2 DEF Exchanging
<1>8. UsedOnce'
  BY <1>6, <1>7 DEF UsedInv, UsedOnce
<1>9. Timely
  BY <1>1, <1>2 DEF Timely
<1>10. QED
  BY <1>4, <1>5, <1>8, <1>9 DEF UsedInv

\* A replica that was to exchange the pod token has done so.
LEMMA PodTokenUsed ==
  ASSUME UsedInv, EntriesInv', NEW r \in Replica, busy' = [busy EXCEPT ![r] = Idle],
         busy[r].step = "exchange", exchanges' = [exchanges EXCEPT ![now] = @ + 1],
         UNCHANGED <<now, spent>>, redis'[PodToken] = now + PodTTL,
         \A t \in 1..made : issuedAt'[t] = issuedAt[t]
  PROVE  UsedInv' /\ Timely
<1> EntriesInv
  BY DEF UsedInv
<1> USE UsedTypes
<1>1. \A q \in Replica : busy'[q] = IF q = r THEN Idle ELSE busy[q]
  OBVIOUS
<1>2. Idle.step = "idle"
  BY Nobody
<1>3. \A t \in 0..MaxTime : exchanges'[t] = IF t = now THEN exchanges[now] + 1 ELSE exchanges[t]
  OBVIOUS
<1>4. \A t \in 0..MaxTime : exchanges[t] > 0 => t = now \/ t + PodTTL <= now
  BY DEF UsedInv, Fresh
<1>5. \A t \in 0..MaxTime : exchanges'[t] > 0 => t = now \/ t + PodTTL <= now
  BY <1>3, <1>4
<1>6. Fresh'
  <2>1. \A q \in Replica : busy'[q].step \in {"checkJti", "rotate", "logout"} =>
          ValidNext(busy'[q].token)
    <3> SUFFICES ASSUME NEW q \in Replica, busy'[q].step \in {"checkJti", "rotate", "logout"}
                 PROVE  ValidNext(busy'[q].token)
      OBVIOUS
    <3>1. busy'[q] = busy[q] /\ busy[q].token \in 1..made /\ Valid(busy[q].token)
      BY <1>1, <1>2 DEF UsedInv, EntriesInv, BusyHasToken, Fresh
    <3>2. QED
      BY <3>1 DEF Valid, ValidNext
  <2>2. QED
    BY <1>5, <2>1 DEF Fresh, Valid, ValidNext
<1>7. ExchangedKept'
  <2> SUFFICES ASSUME NEW t \in 0..MaxTime, exchanges'[t] > 0
               PROVE  t <= now /\ t + PodTTL <= now + PodTTL
    BY DEF ExchangedKept
  <2>1. t = now \/ t + PodTTL <= now
    BY <1>5
  <2>2. QED
    BY <2>1
<1>8. exchanges'[now] + Cardinality(Exchanging') <= Cardinality(Replica)
  <2>1. exchanges[now] \in Nat /\ exchanges[now] + Cardinality(Exchanging) <= Cardinality(Replica)
    BY DEF UsedInv, UsedOnce
  <2>2. Exchanging \subseteq Replica /\ Cardinality(Exchanging) \in Nat
    BY FewReplicas DEF Exchanging
  <2>3. Exchanging' = Exchanging \ {r} /\ r \in Exchanging
    BY <1>1, <1>2 DEF Exchanging
  <2>4. Cardinality(Exchanging') = Cardinality(Exchanging) - 1 /\ Cardinality(Replica) \in Nat
    BY <2>2, <2>3, FewReplicas
  <2>5. QED
    BY <1>3, <2>1, <2>2, <2>4
<1>9. \A s, t \in 0..MaxTime :
        s < t /\ exchanges'[s] > 0 /\ exchanges'[t] > 0 => s + PodTTL <= t
  <2> SUFFICES ASSUME NEW s \in 0..MaxTime, NEW t \in 0..MaxTime, s < t,
                      exchanges'[s] > 0, exchanges'[t] > 0
               PROVE  s + PodTTL <= t
    OBVIOUS
  <2>1. (s = now \/ s + PodTTL <= now) /\ (t = now \/ t + PodTTL <= now)
    BY <1>5
  <2>2. CASE t = now
    BY <2>1, <2>2
  <2>3. CASE t # now
    <3>1. s # now
      BY <2>1, <2>3
    <3>2. exchanges[s] > 0 /\ exchanges[t] > 0
      BY <1>3, <2>3, <3>1
    <3>3. QED
      BY <3>2 DEF UsedInv, UsedOnce
  <2>4. QED
    BY <2>2, <2>3
<1>10. \A t \in Token : Users(t)' = Users(t)
  BY <1>1, <1>2 DEF Users
<1>11. UsedOnce'
  BY <1>8, <1>9, <1>10 DEF UsedInv, UsedOnce
<1>12. Timely
  BY <1>1, <1>2 DEF Timely
<1>13. QED
  BY <1>6, <1>7, <1>11, <1>12 DEF UsedInv

\* A caller's step uses nothing.
LEMMA CallerUsed ==
  ASSUME UsedInv, NEW c \in Caller, CallerStep(c)
  PROVE  UsedInv' /\ Timely
<1>1. EntriesInv' /\ UNCHANGED <<now, redis, spent, exchanges, busy>>
  BY CallerEntries DEF UsedInv, CallerStep, Login, SendPodToken, EntrypointAgain, Receive, GiveUp,
                       Send, blacklist, history
<1>2. \A t \in 1..made : issuedAt'[t] = issuedAt[t]
  <2>1. CASE Login(c)
    BY <2>1, Issuing DEF Login, UsedInv, EntriesInv
  <2>2. CASE ~Login(c)
    BY <2>2 DEF CallerStep, SendPodToken, EntrypointAgain, Receive, GiveUp, Send, issue
  <2>3. QED
    BY <2>1, <2>2
<1>3. QED
  BY <1>1, <1>2, UsedRests

\* A token that has not expired and is in no blacklist was not used.
LEMMA UnlistedIsUnused ==
  ASSUME EntriesInv, NEW r \in Replica, NEW t \in 1..made, Valid(t), ~Listed(r, t)
  PROVE  spent[t] = 0
<1>1. t \in Token /\ spent[t] \in Nat /\ redis[t] \in Nat /\ issuedAt[t] \in Nat
  BY UsedTypes
<1>2. now < issuedAt[t] + RefreshTTL /\ ~(now < redis[t]) /\ now \in Nat
  BY UsedTypes DEF EntriesInv, Valid, Listed
<1>3. spent[t] > 0 => issuedAt[t] + RefreshTTL <= redis[t]
  BY DEF EntriesInv, UsedKept
<1>4. QED
  BY <1>1, <1>2, <1>3, Naturals

\* A step of a replica.
LEMMA ReplicaUsed ==
  ASSUME UsedInv, NEW r \in Replica, ReplicaStep(r)
  PROVE  UsedInv' /\ Timely
<1> EntriesInv
  BY DEF UsedInv
<1> USE UsedTypes
<1>1. EntriesInv' /\ UNCHANGED now /\ redisUp
  <2>1. UNCHANGED now
    BY DEF ReplicaStep, CheckUser, LogoutCheck, CheckPodToken, CheckJti, RevokeAll, Rotate,
           LogoutBlacklist, Exchange, ReplicaRestarts
  <2>2. QED
    BY <2>1, ReplicaEntries DEF EntriesInv
<1>2. busy[r].step \in {"checkJti", "revoke", "rotate", "logout"} =>
        busy[r].token \in 1..made /\ busy[r].token \in Token /\ busy[r].token # PodToken
  BY DEF EntriesInv, BusyHasToken
<1>3. Idle.step = "idle"
  BY Nobody
\* A request is ended without the use of a token.
<1>4. ASSUME NEW state, NEW token, Reply(r, state, token), UNCHANGED <<issue, spent, exchanges>>,
             redis'[PodToken] = redis[PodToken]
      PROVE  UsedInv' /\ Timely
  <2>1. busy' = [busy EXCEPT ![r] = Idle]
    BY <1>4 DEF Reply
  <2>2. \A t \in 1..made : issuedAt'[t] = issuedAt[t]
    BY <1>4 DEF issue
  <2>3. QED
    BY <1>1, <1>3, <1>4, <2>1, <2>2, UsedMoves
<1>5. ASSUME NEW c \in Caller, CheckUser(r, c) \/ LogoutCheck(r, c) \/ CheckPodToken(r, c)
      PROVE  UsedInv' /\ Timely
  <2>1. UNCHANGED <<issue, redis, spent, exchanges>>
    BY <1>5 DEF CheckUser, LogoutCheck, CheckPodToken, blacklist, history
  <2>2. \A t \in 1..made : issuedAt'[t] = issuedAt[t]
    BY <2>1 DEF issue
  <2>3. CASE UNCHANGED busy
    BY <1>1, <2>1, <2>2, <2>3, UsedRests
  <2>4. CASE Take(r, c, "exchange") /\ ~Listed(r, PodToken)
    <3>1. redis[PodToken] <= now
      BY <1>1, <2>4 DEF Listed
    <3>2. \A t \in 0..MaxTime : exchanges[t] > 0 => t + PodTTL <= now
      BY <3>1 DEF UsedInv, ExchangedKept
    <3>3. QED
      BY <1>1, <2>1, <2>2, <2>4, <3>2, UsedMoves DEF Take
  <2>5. CASE Take(r, c, "checkJti") /\ Valid(call[c].token)
    <3>1. ValidNext(call[c].token)
      BY <1>1, <2>1, <2>5 DEF Valid, ValidNext, issue
    <3>2. QED
      BY <1>1, <2>1, <2>2, <2>5, <3>1, UsedMoves DEF Take
  <2>6. CASE Take(r, c, "logout") /\ Valid(call[c].token) /\ ~Listed(r, call[c].token)
    <3>1. ValidNext(call[c].token)
      BY <1>1, <2>1, <2>6 DEF Valid, ValidNext, issue
    <3>2. spent[call[c].token] = 0
      BY <2>6, ValidIsMade, UnlistedIsUnused DEF EntriesInv
    <3>3. QED
      BY <1>1, <2>1, <2>2, <2>6, <3>1, <3>2, UsedMoves DEF Take
  <2>7. QED
    BY <1>5, <2>3, <2>4, <2>5, <2>6 DEF CheckUser, LogoutCheck, CheckPodToken
<1>6. CASE CheckJti(r)
  <2>1. UNCHANGED <<issue, redis, spent, exchanges>> /\ busy[r].step = "checkJti"
    BY <1>6 DEF CheckJti, blacklist, history
  <2>2. \A t \in 1..made : issuedAt'[t] = issuedAt[t]
    BY <2>1 DEF issue
  <2>3. CASE Continue(r, "revoke") \/ (Continue(r, "rotate") /\ ~Listed(r, busy[r].token))
    <3>1. PICK step \in {"revoke", "rotate"} :
            /\ busy' = [busy EXCEPT ![r] = [busy[r] EXCEPT !.step = step]]
            /\ step = "rotate" => ~Listed(r, busy[r].token)
      BY <2>3 DEF Continue
    <3> DEFINE b == [busy[r] EXCEPT !.step = step]
    <3>2. b.token = busy[r].token /\ b.step = step /\ step \notin {"checkJti", "logout", "exchange"}
      BY <3>1 DEF BusyRec
    <3>3. Valid(busy[r].token) /\ ValidNext(busy[r].token)
      BY <1>1, <2>1 DEF UsedInv, Fresh, Valid, ValidNext, issue
    <3>4. step = "rotate" => spent[busy[r].token] = 0
      BY <1>2, <2>1, <3>1, <3>3, UnlistedIsUnused
    <3>5. b.step = "rotate" => ValidNext(b.token)
      BY <3>2, <3>3 DEF ValidNext
    <3> HIDE DEF b
    <3>6. busy' = [busy EXCEPT ![r] = b]
      BY <3>1 DEF b
    <3>7. QED
      BY <1>1, <2>1, <2>2, <3>2, <3>4, <3>5, <3>6, UsedMoves
  <2>4. CASE \E state : Reply(r, state, NoToken)
    BY <1>4, <2>1, <2>4
  <2>5. QED
    BY <1>6, <2>3, <2>4 DEF CheckJti
<1>7. CASE RevokeAll(r)
  <2>1. redis'[PodToken] = redis[PodToken]
    BY <1>1, <1>7 DEF RevokeAll, Blacklist
  <2>2. UNCHANGED <<issue, spent, exchanges>> /\ Reply(r, "denied", NoToken)
    BY <1>7 DEF RevokeAll
  <2>3. QED
    BY <1>4, <2>1, <2>2
<1>8. CASE Rotate(r) \/ LogoutBlacklist(r)
  <2>1. /\ busy[r].step \in {"rotate", "logout"} /\ Consume(busy[r].token)
        /\ busy' = [busy EXCEPT ![r] = Idle] /\ UNCHANGED exchanges
        /\ Blacklist(r, busy[r].token, RefreshTTL)
    BY <1>8 DEF Rotate, LogoutBlacklist, Reply
  <2>2. redis'[PodToken] = redis[PodToken]
    BY <1>1, <1>2, <2>1 DEF Blacklist
  <2>3. \A t \in 1..made : issuedAt'[t] = issuedAt[t]
    BY <1>8, Issuing DEF Rotate, LogoutBlacklist, issue, EntriesInv
  <2>4. QED
    BY <1>1, <2>1, <2>2, <2>3, TokenUsed
<1>9. CASE Exchange(r)
  <2>1. /\ busy[r].step = "exchange" /\ exchanges' = [exchanges EXCEPT ![now] = @ + 1]
        /\ busy' = [busy EXCEPT ![r] = Idle] /\ UNCHANGED spent
    BY <1>9 DEF Exchange, Reply
  <2>2. redis'[PodToken] = now + PodTTL
    BY <1>1, <1>9 DEF Exchange, Blacklist
  <2>3. \A t \in 1..made : issuedAt'[t] = issuedAt[t]
    BY <1>9, Issuing DEF Exchange, EntriesInv
  <2>4. QED
    BY <1>1, <2>1, <2>2, <2>3, PodTokenUsed
<1>10. CASE ReplicaRestarts(r)
  <2>1. UNCHANGED <<issue, spent, exchanges, redis>> /\ Reply(r, "denied", NoToken)
    BY <1>10 DEF ReplicaRestarts, history
  <2>2. QED
    BY <1>4, <2>1
<1>11. QED
  BY <1>5, <1>6, <1>7, <1>8, <1>9, <1>10 DEF ReplicaStep

\* The clock moves only while no replica is serving a request.
LEMMA EnvironmentUsed ==
  ASSUME UsedInv, MaxOutages = 0, Tick \/ RedisFails \/ RedisReturns \/ UNCHANGED vars
  PROVE  UsedInv' /\ Timely
<1> EntriesInv
  BY DEF UsedInv
<1> USE UsedTypes
<1>1. EntriesInv' /\ ~RedisFails /\ ~RedisReturns
  <2>1. ~RedisFails /\ ~RedisReturns
    BY Types DEF EntriesInv, RedisFails, RedisReturns, Spend, Budget
  <2>2. QED
    BY <2>1, EnvironmentEntries
<1>2. UNCHANGED <<issue, redis, spent, exchanges, busy>>
  BY <1>1 DEF Tick, vars, blacklist, history
<1>3. CASE Tick
  <2>1. now' = now + 1 /\ now' \in 0..MaxTime /\ \A r \in Replica : busy[r].step = "idle"
    BY <1>3, Nobody DEF Tick
  <2>2. Fresh' /\ Timely
    BY <1>2, <2>1 DEF Fresh, Timely
  <2>3. ExchangedKept'
    BY <1>2, <2>1 DEF UsedInv, ExchangedKept
  <2>4. exchanges[now + 1] = 0
    <3>1. exchanges[now + 1] \in Nat /\ ~(now + 1 <= now)
      BY <2>1
    <3>2. QED
      BY <2>1, <3>1 DEF UsedInv, ExchangedKept
  <2>5. Exchanging' = {} /\ \A t \in Token : Users(t)' = Users(t)
    BY <1>2, <2>1 DEF Exchanging, Users
  <2>6. Cardinality({}) = 0 /\ Cardinality(Replica) \in Nat
    BY FewReplicas, FS_EmptySet
  <2>7. UsedOnce'
    BY <1>2, <2>1, <2>4, <2>5, <2>6 DEF UsedInv, UsedOnce
  <2>8. QED
    BY <1>1, <2>2, <2>3, <2>7 DEF UsedInv
<1>4. CASE UNCHANGED vars
  <2>1. UNCHANGED now /\ \A t \in 1..made : issuedAt'[t] = issuedAt[t]
    BY <1>2, <1>4 DEF vars, issue
  <2>2. QED
    BY <1>1, <1>2, <2>1, UsedRests
<1>5. QED
  BY <1>1, <1>3, <1>4

\* Every step keeps the invariant, and uses nothing late.
LEMMA NextUsed == MaxOutages = 0 /\ UsedInv /\ [Next]_vars => UsedInv' /\ Timely
BY CallerUsed, ReplicaUsed, EnvironmentUsed DEF Next

\* While Redis answers, no token is used more often than there are replicas, and a pod token not
\* twice within the life of its entry but by overlapping requests: whatever tabs, logouts, daemons
\* and dashboards send and lose, for any number of replicas.
THEOREM TokensAreUsedOnce == ASSUME MaxOutages = 0 PROVE Spec => []UsedOnce
<1>1. UsedInv /\ [Next]_vars => UsedInv'
  BY NextUsed
<1>2. Spec => []UsedInv
  BY <1>1, InitUsed, PTL DEF Spec
<1>3. UsedInv => UsedOnce
  BY DEF UsedInv
<1>4. QED
  BY <1>2, <1>3, PTL

\* While Redis answers, a token that was exchanged or logged out is refused from then on, at every
\* replica: also the one that a logout closed, when a browser presents it again.
THEOREM LogoutIsFinal == ASSUME MaxOutages = 0 PROVE Spec => NoLateUse
<1>1. UsedInv /\ [Next]_vars => UsedInv'
  BY NextUsed
<1>2. Spec => []UsedInv
  BY <1>1, InitUsed, PTL DEF Spec
<1>3. UsedInv /\ [Next]_vars =>
        [\A r \in Replica :
           /\ busy'[r].step \in {"rotate", "logout"} /\ busy'[r].step # busy[r].step =>
                spent[busy'[r].token] = 0
           /\ busy'[r].step = "exchange" /\ busy[r].step # "exchange" =>
                \A t \in 0..MaxTime : exchanges[t] > 0 => t + PodTTL <= now]_vars
  BY NextUsed DEF Timely
<1>4. QED
  BY <1>2, <1>3, PTL DEF Spec, NoLateUse

-----------------------------------------------------------------------------
(* Requests and their answers *)

\* What a caller asks for, and what it is told: a logout is answered without a token.
Fits(c, a) ==
  /\ c \in Tab => a.kind \in {"none", "refresh"}
  /\ c \in Exit => a.kind \in {"none", "logout"}
  /\ c \in Page => a.kind \in {"none", "verify"}
  /\ c \in Daemon => a.kind \in {"none", "refresh", "exchange"}
  /\ c \in Dashboard => a.kind \in {"none", "adminRefresh"}
  /\ a.kind = "none" => a.state \in {"idle", "off"} /\ a.token = NoToken
  /\ a.state = "idle" => a.kind = "none"
  /\ a.kind = "logout" /\ a.state = "granted" => a.token = NoToken
RequestsFit == \A c \in Caller : Fits(c, call[c])

\* A caller that a replica is to answer waits for the request that the replica handles.
ServedFits ==
  \A c \in Caller, r \in Replica :
    call[c].by = r =>
      /\ call[c].state = "served" /\ busy[r].step # "idle" /\ busy[r].caller = c
      /\ busy[r].kind = call[c].kind /\ busy[r].token = call[c].token

\* What a replica is doing fits the request.
StepFits(b) ==
  /\ b.step \in {"checkJti", "revoke", "rotate"} => b.kind \in Refreshes
  /\ b.step = "rotate" => b.kind # "verify"
  /\ b.step = "logout" => b.kind = "logout"
  /\ b.step = "exchange" => b.kind = "exchange"
  /\ b.step \in {"checkJti", "rotate", "logout"} => b.token # NoToken
StepsFit == \A r \in Replica : StepFits(busy[r])

AnswersInv == TypeOK /\ RequestsFit /\ ServedFits /\ StepsFit

\* Which jar is whose.
LEMMA Jars ==
  /\ \A c \in BrowserWindow : JarOf(c) = Browser
  /\ \A c \in Daemon \cup Dashboard : JarOf(c) = c /\ c # Browser
  /\ \A c \in Caller :
       c \in Tab \/ c \in Page \/ c \in Exit \/ c \in Daemon \/ c \in Dashboard
  /\ Browser \notin Caller /\ Browser \in Jar /\ NoReplica \notin Replica
  /\ Tab \cap Page = {} /\ (Tab \cup Page) \cap Exit = {}
  /\ BrowserWindow \cap (Daemon \cup Dashboard) = {} /\ BrowserWindow = Tab \cup Page \cup Exit
  /\ Daemon \cap Dashboard = {}
BY JwtAuthAssumption DEF JarOf, Caller, Jar, BrowserWindow

\* At rest nothing is asked for.
LEMMA RestFits ==
  /\ \A c \in Caller : Fits(c, NoCall) /\ Fits(c, NoPodToken)
  /\ \A c \in Daemon : Fits(c, [NoCall EXCEPT !.state = "sent", !.kind = "exchange"])
  /\ \A a \in {NoCall, NoPodToken, [NoCall EXCEPT !.state = "sent", !.kind = "exchange"]} :
       a.by = NoReplica /\ a.token = NoToken /\ a.kind # "refresh" /\ a.state # "served"
  /\ StepFits(Idle) /\ Idle.step = "idle" /\ Idle.caller = Browser
<1>1. /\ NoCall.kind = "none" /\ NoCall.state = "idle" /\ NoCall.token = NoToken
      /\ NoCall.by = NoReplica
      /\ NoPodToken.kind = "none" /\ NoPodToken.state = "off" /\ NoPodToken.token = NoToken
      /\ NoPodToken.by = NoReplica
  BY DEF NoCall, NoPodToken
<1> DEFINE x == [NoCall EXCEPT !.state = "sent", !.kind = "exchange"]
<1>2. x.kind = "exchange" /\ x.state = "sent" /\ x.token = NoToken /\ x.by = NoReplica
  BY DEF NoCall
<1> HIDE DEF x
<1>3. \A c \in Caller : Fits(c, NoCall) /\ Fits(c, NoPodToken)
  BY <1>1 DEF Fits
<1>4. \A c \in Daemon : Fits(c, x)
  BY <1>2, Jars DEF Fits
<1>5. StepFits(Idle) /\ Idle.step = "idle" /\ Idle.caller = Browser
  BY DEF StepFits, Idle
<1>6. QED
  BY <1>1, <1>2, <1>3, <1>4, <1>5 DEF x

\* At first nothing is asked for.
LEMMA InitAnswers == Init => AnswersInv
<1> SUFFICES ASSUME Init PROVE AnswersInv
  OBVIOUS
<1>1. \A c \in Caller : call[c] = NoCall
  BY DEF Init
<1>2. \A r \in Replica : busy[r] = Idle
  BY DEF Init
<1>3. RequestsFit /\ ServedFits /\ StepsFit
  BY <1>1, <1>2, RestFits, Jars DEF RequestsFit, ServedFits, StepsFit
<1>4. QED
  BY <1>3, InitTypes DEF AnswersInv

\* A caller writes its own request.
LEMMA CallerWrites ==
  ASSUME AnswersInv, TypeOK', NEW c \in Caller, NEW a, call' = [call EXCEPT ![c] = a],
         UNCHANGED busy, Fits(c, a), a.by = NoReplica
  PROVE  AnswersInv'
<1>1. \A d \in Caller : call'[d] = IF d = c THEN a ELSE call[d]
  BY Types DEF AnswersInv
<1>2. RequestsFit'
  BY <1>1 DEF AnswersInv, RequestsFit, Fits
<1>3. ServedFits'
  BY <1>1, Jars DEF AnswersInv, ServedFits
<1>4. StepsFit'
  BY DEF AnswersInv, StepsFit
<1>5. QED
  BY <1>2, <1>3, <1>4 DEF AnswersInv

\* A caller's step.
LEMMA CallerAnswers ==
  ASSUME AnswersInv, NEW c \in Caller, CallerStep(c)
  PROVE  AnswersInv'
<1>1. TypeOK'
  BY CallerTypes DEF AnswersInv
<1>2. CASE Login(c)
  BY <1>1, <1>2 DEF Login, AnswersInv, RequestsFit, ServedFits, StepsFit
<1>3. CASE SendPodToken(c) \/ EntrypointAgain(c)
  <2> DEFINE a == [NoCall EXCEPT !.state = "sent", !.kind = "exchange"]
  <2>1. c \in Daemon /\ UNCHANGED busy /\ call' = [call EXCEPT ![c] = a]
    BY <1>3 DEF SendPodToken, EntrypointAgain
  <2>2. Fits(c, a) /\ a.by = NoReplica
    BY <2>1, RestFits
  <2> HIDE DEF a
  <2>3. QED
    BY <1>1, <2>1, <2>2, CallerWrites
<1>4. CASE Receive(c) \/ GiveUp(c)
  <2> DEFINE a == Ended(c)
  <2>1. UNCHANGED busy /\ call' = [call EXCEPT ![c] = a]
    BY <1>4 DEF Receive, GiveUp
  <2>2. Fits(c, a) /\ a.by = NoReplica
    BY RestFits DEF Ended
  <2> HIDE DEF a
  <2>3. QED
    BY <1>1, <2>1, <2>2, CallerWrites
<1>5. ASSUME NEW kind \in Kinds(c), Send(c, kind) PROVE AnswersInv'
  <2> DEFINE a == [NoCall EXCEPT !.state = "sent", !.kind = kind, !.token = jar[JarOf(c)]]
  <2>1. UNCHANGED busy /\ call' = [call EXCEPT ![c] = a]
    BY <1>5 DEF Send
  <2>2. a.by = NoReplica /\ a.kind = kind /\ a.state = "sent"
    BY DEF NoCall
  <2>3. Fits(c, a)
    <3>1. /\ c \in Tab => kind = "refresh"
          /\ c \in Page => kind = "verify"
          /\ c \in Exit => kind = "logout"
          /\ c \in Daemon => kind = "refresh"
          /\ c \in Dashboard => kind = "adminRefresh"
      BY <1>5, Jars DEF Kinds
    <3>2. kind # "none"
      BY <3>1, Jars
    <3>3. QED
      BY <2>2, <3>1, <3>2 DEF Fits
  <2> HIDE DEF a
  <2>4. QED
    BY <1>1, <2>1, <2>2, <2>3, CallerWrites
<1>6. QED
  BY <1>2, <1>3, <1>4, <1>5 DEF CallerStep

\* A replica answers its caller, if that still waits, and nobody else.
LEMMA ReplyMoves ==
  ASSUME TypeOK, ServedFits, NEW r \in Replica, NEW state, NEW token, Reply(r, state, token)
  PROVE  /\ \A q \in Replica : busy'[q] = IF q = r THEN Idle ELSE busy[q]
         /\ \A d \in Caller :
              /\ call[d].by # r => call'[d] = call[d]
              /\ call[d].by = r =>
                   /\ call'[d].state = state /\ call'[d].token = token
                   /\ call'[d].by = NoReplica /\ call'[d].kind = call[d].kind
<1>1. busy \in [Replica -> BusyRec(made)] /\ call \in [Caller -> CallRec(made)]
  BY Types
<1>2. \A q \in Replica : busy'[q] = IF q = r THEN Idle ELSE busy[q]
  BY <1>1 DEF Reply
<1>3. \A d \in Caller : call[d].by = r => d = busy[r].caller
  BY DEF ServedFits
<1>4. CASE busy[r].caller \in Caller /\ call[busy[r].caller].by = r
  <2> DEFINE c == busy[r].caller
             a == [call[c] EXCEPT !.state = state, !.token = token, !.by = NoReplica]
  <2>1. call' = [call EXCEPT ![c] = a] /\ c \in Caller
    BY <1>1, <1>4 DEF Reply
  <2>2. call[c] \in CallRec(made)
    BY <1>1, <1>4
  <2>3. a.state = state /\ a.token = token /\ a.by = NoReplica /\ a.kind = call[c].kind
    BY <2>2 DEF CallRec
  <2> HIDE DEF a, c
  <2>4. \A d \in Caller : call'[d] = IF d = c THEN a ELSE call[d]
    BY <1>1, <2>1
  <2>5. \A d \in Caller : call[d].by = r <=> d = c
    BY <1>3, <1>4 DEF c
  <2>6. QED
    BY <1>2, <2>3, <2>4, <2>5
<1>5. CASE ~(busy[r].caller \in Caller /\ call[busy[r].caller].by = r)
  <2>1. call' = call
    BY <1>5 DEF Reply
  <2>2. QED
    BY <1>2, <1>3, <1>5, <2>1
<1>6. QED
  BY <1>4, <1>5

\* An answer fits the request.
LEMMA ReplyAnswers ==
  ASSUME AnswersInv, TypeOK', NEW r \in Replica, NEW state \in {"granted", "denied"}, NEW token,
         Reply(r, state, token),
         busy[r].kind = "logout" /\ state = "granted" => token = NoToken
  PROVE  AnswersInv'
<1>1. /\ \A q \in Replica : busy'[q] = IF q = r THEN Idle ELSE busy[q]
      /\ \A d \in Caller :
           /\ call[d].by # r => call'[d] = call[d]
           /\ call[d].by = r =>
                /\ call'[d].state = state /\ call'[d].token = token
                /\ call'[d].by = NoReplica /\ call'[d].kind = call[d].kind
  BY ReplyMoves DEF AnswersInv
<1>2. \A d \in Caller : call[d].by = r => call[d].state = "served" /\ call[d].kind = busy[r].kind
  BY DEF AnswersInv, ServedFits
<1>3. RequestsFit'
  <2> SUFFICES ASSUME NEW d \in Caller PROVE Fits(d, call'[d])
    BY DEF RequestsFit, Fits
  <2>1. Fits(d, call[d])
    BY DEF AnswersInv, RequestsFit
  <2>2. CASE call[d].by # r
    BY <1>1, <2>1, <2>2
  <2>3. CASE call[d].by = r
    <3>1. /\ call'[d].state = state /\ call'[d].token = token /\ call'[d].kind = call[d].kind
          /\ call[d].state = "served" /\ call[d].kind = busy[r].kind
      BY <1>1, <1>2, <2>3
    <3>2. QED
      BY <2>1, <3>1 DEF Fits
  <2>4. QED
    BY <2>2, <2>3
<1>4. ServedFits'
  <2> SUFFICES ASSUME NEW d \in Caller, NEW q \in Replica, call'[d].by = q
               PROVE  /\ call'[d].state = "served" /\ busy'[q].step # "idle"
                      /\ busy'[q].caller = d
                      /\ busy'[q].kind = call'[d].kind /\ busy'[q].token = call'[d].token
    BY DEF ServedFits
  <2>1. call[d].by # r /\ call'[d] = call[d]
    BY <1>1, Jars
  <2>2. q # r /\ busy'[q] = busy[q]
    BY <1>1, <2>1
  <2>3. QED
    BY <2>1, <2>2 DEF AnswersInv, ServedFits
<1>5. StepsFit'
  BY <1>1, RestFits DEF AnswersInv, StepsFit, StepFits
<1>6. QED
  BY <1>3, <1>4, <1>5 DEF AnswersInv

\* A replica takes a request up.
LEMMA TakeMoves ==
  ASSUME TypeOK, NEW r \in Replica, NEW c \in Caller, NEW step, Serve(r, c), Take(r, c, step)
  PROVE  /\ \A q \in Replica : q # r => busy'[q] = busy[q]
         /\ busy'[r].step = step /\ busy'[r].caller = c
         /\ busy'[r].kind = call[c].kind /\ busy'[r].token = call[c].token
         /\ \A d \in Caller : d # c => call'[d] = call[d]
         /\ call'[c].state = "served" /\ call'[c].by = r
         /\ call'[c].kind = call[c].kind /\ call'[c].token = call[c].token
<1>1. busy \in [Replica -> BusyRec(made)] /\ call \in [Caller -> CallRec(made)]
  BY Types
<1>2. busy'[r] = [step |-> step, caller |-> c, kind |-> call[c].kind, token |-> call[c].token]
  BY <1>1 DEF Take
<1>3. \A q \in Replica : q # r => busy'[q] = busy[q]
  BY <1>1 DEF Take
<1>4. call' = [call EXCEPT ![c] = [call[c] EXCEPT !.state = "served", !.by = r]]
  BY <1>1 DEF Serve
<1>5. call[c] \in CallRec(made)
  BY <1>1
<1>6. call'[c] = [call[c] EXCEPT !.state = "served", !.by = r]
  BY <1>1, <1>4
<1>7. /\ call'[c].state = "served" /\ call'[c].by = r
      /\ call'[c].kind = call[c].kind /\ call'[c].token = call[c].token
  BY <1>5, <1>6 DEF CallRec
<1>8. \A d \in Caller : d # c => call'[d] = call[d]
  BY <1>1, <1>4
<1>9. QED
  BY <1>2, <1>3, <1>7, <1>8

\* A request that is refused, or a logout that is not worth an entry, at once.
LEMMA AtOnceMoves ==
  ASSUME TypeOK, NEW c \in Caller, NEW state,
         call' = [call EXCEPT ![c].state = state, ![c].token = NoToken]
  PROVE  /\ \A d \in Caller : d # c => call'[d] = call[d]
         /\ call'[c].state = state /\ call'[c].token = NoToken
         /\ call'[c].kind = call[c].kind /\ call'[c].by = call[c].by
<1>1. call \in [Caller -> CallRec(made)]
  BY Types
<1>2. call' = [call EXCEPT ![c] = [call[c] EXCEPT !.state = state, !.token = NoToken]]
  BY <1>1
<1> DEFINE a == call[c]
<1>3. a \in CallRec(made) /\ call'[c] = [a EXCEPT !.state = state, !.token = NoToken]
  BY <1>1, <1>2
<1> HIDE DEF a
<1>4. /\ [a EXCEPT !.state = state, !.token = NoToken].state = state
      /\ [a EXCEPT !.state = state, !.token = NoToken].token = NoToken
  BY <1>3 DEF CallRec
<1>5. [a EXCEPT !.state = state, !.token = NoToken].kind = a.kind
  BY <1>3 DEF CallRec
<1>6. [a EXCEPT !.state = state, !.token = NoToken].by = a.by
  BY <1>3 DEF CallRec
<1>7. \A d \in Caller : d # c => call'[d] = call[d]
  BY <1>1, <1>2
<1>8. QED
  BY <1>3, <1>4, <1>5, <1>6, <1>7 DEF a

\* What a replica does first with a request: refuses it, takes it up, or is done with it.
LEMMA FirstMoves ==
  ASSUME NEW r \in Replica, NEW c \in Caller,
         CheckUser(r, c) \/ LogoutCheck(r, c) \/ CheckPodToken(r, c)
  PROVE  /\ call[c].state = "sent" /\ busy[r] = Idle
         /\ UNCHANGED <<now, issue, jar, blacklist, redisUp, history, budget>>
         /\ \/ /\ \E state \in {"granted", "denied"} :
                    call' = [call EXCEPT ![c].state = state, ![c].token = NoToken]
               /\ UNCHANGED busy
            \/ \E step \in {"checkJti", "logout", "exchange"} :
                 /\ Serve(r, c) /\ Take(r, c, step)
                 /\ step = "checkJti" => call[c].kind \in Refreshes
                 /\ step = "logout" => call[c].kind = "logout"
                 /\ step = "exchange" => call[c].kind = "exchange"
                 /\ step # "exchange" => call[c].token # NoToken
<1>1. CASE CheckUser(r, c)
  BY <1>1 DEF CheckUser, Ready, Deny, Valid
<1>2. CASE LogoutCheck(r, c)
  BY <1>2 DEF LogoutCheck, Ready, Valid
<1>3. CASE CheckPodToken(r, c)
  BY <1>3 DEF CheckPodToken, Ready, Deny
<1>4. QED
  BY <1>1, <1>2, <1>3

\* The first step of a replica with a request.
LEMMA FirstAnswers ==
  ASSUME AnswersInv, NEW r \in Replica, NEW c \in Caller,
         CheckUser(r, c) \/ LogoutCheck(r, c) \/ CheckPodToken(r, c), TypeOK'
  PROVE  AnswersInv'
<1>1. call[c].state = "sent" /\ busy[r] = Idle /\ TypeOK
  BY FirstMoves DEF AnswersInv
<1>2. Fits(c, call[c])
  BY DEF AnswersInv, RequestsFit
<1>3. /\ \A d \in Caller : d # c => call'[d] = call[d]
      /\ call'[c].kind = call[c].kind
      /\ call'[c].token \in {NoToken, call[c].token} /\ call'[c].state # "idle"
      /\ call'[c].state \in {"granted", "denied"} => call'[c].token = NoToken
  <2>1. ASSUME NEW state \in {"granted", "denied"},
               call' = [call EXCEPT ![c].state = state, ![c].token = NoToken]
        PROVE  /\ \A d \in Caller : d # c => call'[d] = call[d]
               /\ call'[c].kind = call[c].kind /\ call'[c].token = NoToken
               /\ call'[c].state # "idle"
    BY <1>1, <2>1, AtOnceMoves
  <2>2. ASSUME NEW step, Serve(r, c), Take(r, c, step)
        PROVE  /\ \A d \in Caller : d # c => call'[d] = call[d]
               /\ call'[c].kind = call[c].kind /\ call'[c].token = call[c].token
               /\ call'[c].state = "served"
    BY <1>1, <2>2, TakeMoves
  <2>3. CASE \E state \in {"granted", "denied"} :
               call' = [call EXCEPT ![c].state = state, ![c].token = NoToken]
    BY <2>1, <2>3
  <2>4. CASE \E step : Serve(r, c) /\ Take(r, c, step)
    <3>1. /\ \A d \in Caller : d # c => call'[d] = call[d]
          /\ call'[c].kind = call[c].kind /\ call'[c].token = call[c].token
          /\ call'[c].state = "served"
      BY <2>2, <2>4
    <3>2. QED
      BY <3>1
  <2>5. QED
    BY <2>3, <2>4, FirstMoves
<1>4. RequestsFit'
  <2>1. Fits(c, call'[c])
    BY <1>1, <1>2, <1>3 DEF Fits
  <2>2. \A d \in Caller : Fits(d, call'[d])
    BY <1>3, <2>1 DEF AnswersInv, RequestsFit
  <2>3. QED
    BY <2>2 DEF RequestsFit, Fits
\* No other replica serves this caller, and this replica no other caller.
<1>5. /\ \A q \in Replica : call[c].by # q
      /\ \A d \in Caller : call[d].by # r
  BY <1>1, RestFits DEF AnswersInv, ServedFits
<1>6. ServedFits' /\ StepsFit'
  <2>1. CASE /\ \E state \in {"granted", "denied"} :
                  call' = [call EXCEPT ![c].state = state, ![c].token = NoToken]
             /\ UNCHANGED busy
    <3>1. call'[c].by = call[c].by
      BY <1>1, <2>1, AtOnceMoves
    <3>2. \A d \in Caller, q \in Replica : call'[d].by = q => d # c
      BY <1>5, <3>1
    <3>3. busy' = busy
      BY <2>1
    <3>4. ServedFits'
      BY <1>3, <3>2, <3>3 DEF AnswersInv, ServedFits
    <3>5. StepsFit'
      BY <3>3 DEF AnswersInv, StepsFit
    <3>6. QED
      BY <3>4, <3>5
  <2>2. ASSUME NEW step \in {"checkJti", "logout", "exchange"},
                 Serve(r, c), Take(r, c, step),
                 step = "checkJti" => call[c].kind \in Refreshes,
                 step = "logout" => call[c].kind = "logout",
                 step = "exchange" => call[c].kind = "exchange",
                 step # "exchange" => call[c].token # NoToken
        PROVE  ServedFits' /\ StepsFit'
    <3>1. /\ \A q \in Replica : q # r => busy'[q] = busy[q]
          /\ busy'[r].step = step /\ busy'[r].caller = c
          /\ busy'[r].kind = call[c].kind /\ busy'[r].token = call[c].token
          /\ call'[c].state = "served" /\ call'[c].by = r
          /\ call'[c].kind = call[c].kind /\ call'[c].token = call[c].token
      BY <1>1, <2>2, TakeMoves
    <3>2. StepsFit'
      BY <2>2, <3>1 DEF AnswersInv, StepsFit, StepFits
    <3>3. ServedFits'
      <4> SUFFICES ASSUME NEW d \in Caller, NEW q \in Replica, call'[d].by = q
                   PROVE  /\ call'[d].state = "served" /\ busy'[q].step # "idle"
                          /\ busy'[q].caller = d
                          /\ busy'[q].kind = call'[d].kind /\ busy'[q].token = call'[d].token
        BY DEF ServedFits
      <4>1. CASE d = c
        BY <3>1, <4>1
      <4>2. CASE d # c
        <5>1. call'[d] = call[d] /\ q # r
          BY <1>3, <1>5, <4>2
        <5>2. QED
          BY <3>1, <5>1 DEF AnswersInv, ServedFits
      <4>3. QED
        BY <4>1, <4>2
    <3>4. QED
      BY <3>2, <3>3
  <2>3. QED
    BY <2>1, <2>2, FirstMoves
<1>7. QED
  BY <1>4, <1>6 DEF AnswersInv

\* A replica goes on with a refresh.
LEMMA ContinueMoves ==
  ASSUME TypeOK, NEW r \in Replica, NEW step, Continue(r, step)
  PROVE  /\ \A q \in Replica : q # r => busy'[q] = busy[q]
         /\ busy'[r].step = step /\ busy'[r].caller = busy[r].caller
         /\ busy'[r].kind = busy[r].kind /\ busy'[r].token = busy[r].token
<1>1. busy \in [Replica -> BusyRec(made)]
  BY Types
<1>2. busy[r] \in BusyRec(made) /\ busy' = [busy EXCEPT ![r] = [busy[r] EXCEPT !.step = step]]
  BY <1>1 DEF Continue
<1>3. busy'[r] = [busy[r] EXCEPT !.step = step]
  BY <1>1, <1>2
<1>4. QED
  BY <1>1, <1>2, <1>3 DEF BusyRec

\* A replica's step.
LEMMA ReplicaAnswers ==
  ASSUME AnswersInv, NEW r \in Replica, ReplicaStep(r)
  PROVE  AnswersInv'
<1>1. TypeOK /\ TypeOK' /\ StepFits(busy[r])
  BY ReplicaTypes DEF AnswersInv, StepsFit
<1>2. CASE \E c \in Caller : CheckUser(r, c) \/ LogoutCheck(r, c) \/ CheckPodToken(r, c)
  BY <1>1, <1>2, FirstAnswers
<1>3. CASE CheckJti(r)
  <2>1. CASE UNCHANGED call /\ \E step \in {"revoke", "rotate"} :
               /\ Continue(r, step)
               /\ step = "rotate" => busy[r].kind # "verify"
    <3>1. PICK step \in {"revoke", "rotate"} :
            Continue(r, step) /\ (step = "rotate" => busy[r].kind # "verify")
      BY <2>1
    <3>2. /\ \A q \in Replica : q # r => busy'[q] = busy[q]
          /\ busy'[r].step = step /\ busy'[r].caller = busy[r].caller
          /\ busy'[r].kind = busy[r].kind /\ busy'[r].token = busy[r].token
      BY <1>1, <3>1, ContinueMoves
    <3>3. busy[r].kind \in Refreshes /\ busy[r].token # NoToken
      BY <1>1, <1>3 DEF CheckJti, StepFits
    <3>4. StepsFit'
      BY <3>1, <3>2, <3>3 DEF AnswersInv, StepsFit, StepFits
    <3>5. ServedFits'
      BY <2>1, <3>2 DEF AnswersInv, ServedFits
    <3>6. QED
      BY <1>1, <2>1, <3>4, <3>5 DEF AnswersInv, RequestsFit
  <2>2. CASE \E state \in {"granted", "denied"} : Reply(r, state, NoToken)
    BY <1>1, <2>2, ReplyAnswers
  <2>3. QED
    BY <1>1, <1>3, <2>1, <2>2 DEF CheckJti
<1>4. CASE RevokeAll(r) \/ LogoutBlacklist(r) \/ ReplicaRestarts(r)
  <2>1. \E state \in {"granted", "denied"} : Reply(r, state, NoToken)
    BY <1>4 DEF RevokeAll, LogoutBlacklist, ReplicaRestarts
  <2>2. QED
    BY <1>1, <2>1, ReplyAnswers
<1>5. CASE Rotate(r) \/ Exchange(r)
  <2>1. Reply(r, "granted", made') /\ busy[r].kind # "logout"
    BY <1>1, <1>5 DEF Rotate, Exchange, StepFits, Refreshes
  <2>2. QED
    BY <1>1, <2>1, ReplyAnswers
<1>6. QED
  BY <1>2, <1>3, <1>4, <1>5 DEF ReplicaStep

\* Every step: the environment touches no request.
LEMMA NextAnswers ==
  ASSUME AnswersInv, [Next]_vars
  PROVE  AnswersInv'
<1>1. CASE Tick \/ RedisFails \/ RedisReturns \/ UNCHANGED vars
  <2>1. UNCHANGED <<call, busy>>
    BY <1>1 DEF Tick, RedisFails, RedisReturns, vars, clients
  <2>2. QED
    BY <1>1, <2>1, EnvironmentTypes DEF AnswersInv, RequestsFit, ServedFits, StepsFit
<1>2. QED
  BY <1>1, CallerAnswers, ReplicaAnswers DEF Next

-----------------------------------------------------------------------------
(* Nobody's own token is taken for a replay *)

\* The token a request is about to use up, or its answer brings; a page only shows its token.
Carried(a) == IF a.kind = "verify" THEN NoToken ELSE a.token

\* What some blacklist has an entry for, lapsed or not.
Entries == {e \in Entry : redis[e] > 0 \/ \E r \in Replica : memory[r][e] > 0}

\* A token is carried by one caller and kept in one jar, the caller's own.
OneCarrier ==
  \A c, d \in Caller : c # d /\ Carried(call[c]) = Carried(call[d]) => Carried(call[c]) = NoToken
CarriedInJar ==
  \A c \in Caller, j \in Jar : j # JarOf(c) /\ Carried(call[c]) = jar[j] => jar[j] = NoToken
OneJar == \A i, j \in Jar : i # j /\ jar[i] = jar[j] => jar[i] = NoToken

\* No token that is carried has an entry, and one that a jar keeps only while the answer to the
\* request that used it has not arrived.
CarriedUnused == \A c \in Caller : Carried(call[c]) \in Entries => Carried(call[c]) = NoToken
Granted(j) == \E c \in Caller \ Page : JarOf(c) = j /\ call[c].state = "granted"
KeptUnused == \A j \in Jar : jar[j] \in Entries => jar[j] = NoToken \/ Granted(j)

EnteredWereMade == Entries \cap Token \subseteq 1..made

\* Every replica works for a caller that waits for it, and none has found a replay.
Awaited ==
  \A r \in Replica :
    busy[r].step # "idle" => busy[r].caller \in Caller /\ call[busy[r].caller].by = r
NoReplay == NoFalseReplay /\ \A r \in Replica : busy[r].step # "revoke"

UnusedInv ==
  /\ AnswersInv
  /\ OneCarrier /\ CarriedInJar /\ OneJar
  /\ CarriedUnused /\ KeptUnused /\ EnteredWereMade
  /\ Awaited /\ NoReplay

\* At first no token is anywhere.
LEMMA InitUnused == Init => UnusedInv
<1> SUFFICES ASSUME Init PROVE UnusedInv
  OBVIOUS
<1>1. /\ \A c \in Caller : call[c] = NoCall /\ Carried(NoCall) = NoToken
      /\ \A j \in Jar : jar[j] = NoToken
      /\ \A r \in Replica : busy[r] = Idle /\ Idle.step = "idle"
  BY RestFits DEF Init, Carried, NoCall
<1>2. \A e \in Entry : redis[e] = 0 /\ \A r \in Replica : memory[r][e] = 0
  BY DEF Init
<1>3. Entries = {} /\ UserRevoked \in Entry
  BY <1>2 DEF Entries, Entry
<1>4. OneCarrier /\ CarriedInJar /\ OneJar /\ CarriedUnused
  BY <1>1 DEF OneCarrier, CarriedInJar, OneJar, CarriedUnused
<1>5. KeptUnused /\ EnteredWereMade
  BY <1>3 DEF KeptUnused, EnteredWereMade
<1>6. Awaited /\ NoReplay
  BY <1>1, <1>2, <1>3 DEF Awaited, NoReplay, NoFalseReplay
<1>7. QED
  BY <1>4, <1>5, <1>6, InitAnswers DEF UnusedInv

\* What is listed has an entry.
LEMMA ListedIsEntered ==
  ASSUME TypeOK, NEW r \in Replica, NEW e \in Entry, Listed(r, e)
  PROVE  e \in Entries
<1>1. now \in Nat /\ redis[e] \in Nat /\ memory[r][e] \in Nat
  BY Types, Naturals DEF Ends
<1>2. QED
  BY <1>1 DEF Listed, Entries

\* Writing an entry changes that one only.
LEMMA ListingEnters ==
  ASSUME TypeOK, NEW r \in Replica, NEW e, NEW ttl \in Nat, Blacklist(r, e, ttl)
  PROVE  /\ \A x \in Entry :
              x # e => redis'[x] = redis[x] /\ \A q \in Replica : memory'[q][x] = memory[q][x]
         /\ Entries' \subseteq Entries \cup {e}
<1>1. redis \in Ends /\ memory \in [Replica -> Ends]
  BY Types
<1>2. ASSUME NEW x \in Entry, x # e
      PROVE  redis'[x] = redis[x] /\ \A q \in Replica : memory'[q][x] = memory[q][x]
  <2>1. CASE redisUp
    BY <1>1, <1>2, <2>1 DEF Blacklist, Ends
  <2>2. CASE ~redisUp
    <3>1. memory' = [memory EXCEPT ![r] = [memory[r] EXCEPT ![e] = now + ttl]] /\ redis' = redis
      BY <1>1, <2>2 DEF Blacklist
    <3>2. memory[r] \in [Entry -> Nat]
      BY <1>1 DEF Ends
    <3>3. [memory[r] EXCEPT ![e] = now + ttl][x] = memory[r][x]
      BY <1>2, <3>2
    <3>4. \A q \in Replica :
            memory'[q] = IF q = r THEN [memory[r] EXCEPT ![e] = now + ttl] ELSE memory[q]
      BY <1>1, <3>1
    <3>5. QED
      BY <3>1, <3>3, <3>4
  <2>3. QED
    BY <2>1, <2>2
<1>3. Entries' \subseteq Entries \cup {e}
  BY <1>2 DEF Entries
<1>4. QED
  BY <1>2, <1>3

\* The tokens in jars and requests were issued.
LEMMA TokensMade ==
  ASSUME TypeOK
  PROVE  /\ made \in Nat /\ Token = 1..MaxTokens /\ MaxTokens \in Nat /\ made <= MaxTokens
         /\ \A c \in Caller : call[c].token \in 0..made /\ Carried(call[c]) \in 0..made
         /\ \A r \in Replica : busy[r].token \in 0..made
         /\ \A j \in Jar : jar[j] \in 0..made
         /\ \A c \in Caller : JarOf(c) \in Jar
         /\ NoToken = 0
<1>1. made \in 0..MaxTokens /\ MaxTokens \in Nat /\ NoToken = 0 /\ Token = 1..MaxTokens
  BY Types, Naturals DEF NoToken, Token
<1>2. \A c \in Caller : call[c].token \in 0..made
  BY Types DEF CallRec
<1>3. \A c \in Caller : Carried(call[c]) \in 0..made
  BY <1>1, <1>2 DEF Carried
<1>4. \A r \in Replica : busy[r].token \in 0..made
  BY Types DEF BusyRec
<1>5. QED
  BY <1>1, <1>2, <1>3, <1>4, Types, JarsExist

\* A page carries nothing.
LEMMA PagesCarryNothing ==
  ASSUME RequestsFit, NEW c \in Caller \cap Page
  PROVE  Carried(call[c]) = NoToken
BY DEF RequestsFit, Fits, Carried

\* A step that moves no token.
LEMMA UnusedStays ==
  ASSUME UnusedInv, AnswersInv', made' \in {made, made + 1}, UNCHANGED <<jar, call>>,
         Entries' \cap Token \subseteq Entries, Awaited', NoReplay'
  PROVE  UnusedInv'
<1>1. OneCarrier' /\ CarriedInJar' /\ OneJar'
  BY DEF UnusedInv, OneCarrier, CarriedInJar, OneJar
<1>2. TypeOK /\ made \in Nat /\ NoToken = 0
  BY TokensMade DEF UnusedInv, AnswersInv
<1>3. /\ \A c \in Caller : Carried(call[c]) # NoToken => Carried(call[c]) \in Token
      /\ \A j \in Jar : jar[j] # NoToken => jar[j] \in Token
      /\ \A c \in Caller : JarOf(c) \in Jar
  BY <1>2, TokensMade
<1>4. CarriedUnused' /\ KeptUnused'
  BY <1>3 DEF UnusedInv, CarriedUnused, KeptUnused, Granted
<1>5. EnteredWereMade'
  BY <1>2 DEF UnusedInv, EnteredWereMade
<1>6. QED
  BY <1>1, <1>4, <1>5 DEF UnusedInv

\* A step that concerns one caller and its jar: u is what the caller carries then, w what the jar
\* keeps.  Either comes from the other, or is the token issued in this step; and only what the
\* caller has carried so far gets an entry, when the step grants its request.
LEMMA UnusedMoves ==
  ASSUME UnusedInv, AnswersInv', Awaited', NoReplay', NEW c \in Caller,
         made' \in {made, made + 1},
         \A d \in Caller : d # c => call'[d] = call[d],
         \A j \in Jar : j # JarOf(c) => jar'[j] = jar[j],
         NEW u, u = Carried(call'[c]), NEW w, w = jar'[JarOf(c)],
         \/ u \in {NoToken, Carried(call[c])}
         \/ u = made + 1 /\ made' = made + 1 /\ w = jar[JarOf(c)]
         \/ /\ u = jar[JarOf(c)] /\ c \notin Page /\ ~Granted(JarOf(c))
            /\ \A d \in Caller : d # c /\ JarOf(d) = JarOf(c) => Carried(call[d]) = NoToken,
         \/ /\ w = jar[JarOf(c)]
            /\ \/ c \in Page \/ call[c].state # "granted"
               \/ call'[c].state = "granted"
         \/ w = NoToken
         \/ w = made + 1 /\ made' = made + 1 /\ u \in {NoToken, Carried(call[c])}
         \/ w = Carried(call[c]) /\ u = NoToken /\ c \notin Page,
         \/ Entries' \cap Token \subseteq Entries
         \/ /\ Entries' \cap Token \subseteq Entries \cup {Carried(call[c])}
            /\ c \notin Page /\ u # Carried(call[c])
            /\ w = jar[JarOf(c)] /\ call'[c].state = "granted"
            /\ u \in {NoToken, made + 1}
  PROVE  UnusedInv'
<1> DEFINE v == Carried(call[c])
           i == JarOf(c)
           n == made + 1
<1>1. /\ TypeOK /\ TypeOK' /\ made \in Nat /\ NoToken = 0 /\ Token = 1..MaxTokens
      /\ MaxTokens \in Nat /\ made' \in 0..MaxTokens /\ i \in Jar /\ made <= MaxTokens
  BY TokensMade, TypesNext DEF UnusedInv, AnswersInv
<1>2. /\ \A d \in Caller : Carried(call[d]) \in 0..made
      /\ \A j \in Jar : jar[j] \in 0..made
      /\ \A d \in Caller : JarOf(d) \in Jar
  BY <1>1, TokensMade
<1>3. /\ \A d \in Caller : Carried(call'[d]) = IF d = c THEN u ELSE Carried(call[d])
      /\ \A j \in Jar : jar'[j] = IF j = i THEN w ELSE jar[j]
  BY <1>1
<1>4. v \in 0..made /\ jar[i] \in 0..made /\ w \in 0..MaxTokens /\ n \notin 0..made
  <2>1. w \in 0..made'
    BY <1>1, TypesNext
  <2>2. QED
    BY <1>1, <1>2, <2>1
<1>5. \A d \in Caller \cap Page : Carried(call[d]) = NoToken
  BY PagesCarryNothing DEF UnusedInv, AnswersInv
<1>6. /\ \A d \in Caller : d # c /\ Carried(call[d]) = v => v = NoToken
      /\ \A d \in Caller, j \in Jar :
           j # JarOf(d) /\ Carried(call[d]) = jar[j] => jar[j] = NoToken
      /\ \A j \in Jar : j # i /\ jar[j] = jar[i] => jar[i] = NoToken
      /\ \A d \in Caller : Carried(call[d]) \in Entries => Carried(call[d]) = NoToken
      /\ jar[i] \in Entries => jar[i] = NoToken \/ Granted(i)
      /\ \A x \in Entries \cap Token : x \in 1..made
  BY <1>1 DEF UnusedInv, OneCarrier, CarriedInJar, OneJar, CarriedUnused, KeptUnused,
              EnteredWereMade
<1>7. \A d \in Caller : d # c /\ Carried(call[d]) = u => u = NoToken
  <2> SUFFICES ASSUME NEW d \in Caller, d # c, Carried(call[d]) = u, u # NoToken PROVE FALSE
    OBVIOUS
  <2>1. u # v /\ u # n
    BY <1>1, <1>2, <1>6
  <2>2. /\ u = jar[i]
        /\ \A e \in Caller : e # c /\ JarOf(e) = i => Carried(call[e]) = NoToken
    BY <2>1
  <2>3. JarOf(d) = i
    BY <1>1, <1>6, <2>2
  <2>4. QED
    BY <2>2, <2>3
<1>8. OneCarrier'
  <2>1. \A d, e \in Caller : d # e /\ Carried(call'[d]) = Carried(call'[e])
                               => Carried(call'[d]) = NoToken
    <3> SUFFICES ASSUME NEW d \in Caller, NEW e \in Caller, d # e,
                        Carried(call'[d]) = Carried(call'[e])
                 PROVE  Carried(call'[d]) = NoToken
      OBVIOUS
    <3>1. CASE d # c /\ e # c
      BY <1>3, <3>1 DEF UnusedInv, OneCarrier
    <3>2. CASE d = c
      BY <1>3, <1>7, <3>2
    <3>3. CASE e = c
      BY <1>3, <1>7, <3>3
    <3>4. QED
      BY <3>1, <3>2, <3>3
  <2>2. QED
    BY <2>1 DEF OneCarrier
<1>9. CarriedInJar'
  <2>1. \A d \in Caller, j \in Jar : j # JarOf(d) /\ Carried(call'[d]) = jar'[j]
                                       => jar'[j] = NoToken
    <3> SUFFICES ASSUME NEW d \in Caller, NEW j \in Jar, j # JarOf(d),
                        Carried(call'[d]) = jar'[j], jar'[j] # NoToken
                 PROVE  FALSE
      OBVIOUS
    <3>1. CASE d # c /\ j # i
      BY <1>3, <1>6, <3>1
    <3>2. CASE d # c /\ j = i
      <4>1. Carried(call[d]) = w /\ w \in 0..made /\ JarOf(d) # i /\ w # NoToken
        BY <1>2, <1>3, <3>2
      <4>2. w # n /\ w # v
        BY <1>4, <1>6, <3>2, <4>1
      <4>3. w = jar[i]
        BY <4>1, <4>2
      <4>4. QED
        BY <1>1, <1>6, <4>1, <4>3
    <3>3. CASE d = c
      <4>1. u = jar[j] /\ u # NoToken /\ j # i
        BY <1>3, <3>3
      <4>2. QED
        BY <1>1, <1>2, <1>6, <3>3, <4>1
    <3>4. QED
      BY <3>1, <3>2, <3>3
  <2>2. QED
    BY <2>1 DEF CarriedInJar
<1>10. OneJar'
  <2>1. \A j \in Jar : j # i /\ jar[j] = w => w = NoToken
    <3> SUFFICES ASSUME NEW j \in Jar, j # i, jar[j] = w, w # NoToken PROVE FALSE
      OBVIOUS
    <3>1. w # n /\ w # v
      BY <1>2, <1>4, <1>6
    <3>2. w = jar[i]
      BY <3>1
    <3>3. QED
      BY <1>6, <3>2
  <2>2. \A j, k \in Jar : j # k /\ jar'[j] = jar'[k] => jar'[j] = NoToken
    BY <1>1, <1>3, <2>1 DEF UnusedInv, OneJar
  <2>3. QED
    BY <2>2 DEF OneJar
<1>11. n \notin Entries' \/ n \notin Token
  BY <1>1, <1>4, <1>6
<1>12. CarriedUnused'
  <2>1. \A d \in Caller : Carried(call'[d]) \in Entries' => Carried(call'[d]) = NoToken
    <3> SUFFICES ASSUME NEW d \in Caller, Carried(call'[d]) \in Entries',
                        Carried(call'[d]) # NoToken
                 PROVE  FALSE
      OBVIOUS
    <3>1. CASE d # c
      <4>1. /\ Carried(call[d]) \in Entries' \cap Token
            /\ Carried(call[d]) \notin Entries /\ Carried(call[d]) # v
        BY <1>1, <1>2, <1>3, <1>6, <3>1
      <4>2. QED
        BY <4>1
    <3>2. CASE d = c
      <4>1. u \in Entries' /\ u # NoToken /\ u \in Token
        BY <1>1, <1>3, <1>4, <3>2
      <4>2. u # n
        BY <1>11, <4>1
      <4>3. CASE u = v
        BY <1>6, <4>1, <4>3
      <4>4. CASE u = jar[i] /\ c \notin Page /\ ~Granted(i)
        <5>1. u \notin Entries
          BY <1>6, <4>1, <4>4
        <5>2. QED
          BY <4>1, <4>2, <5>1
      <4>5. QED
        BY <4>1, <4>2, <4>3, <4>4
    <3>3. QED
      BY <3>1, <3>2
  <2>2. QED
    BY <2>1 DEF CarriedUnused
<1>13. KeptUnused'
  <2>1. \A j \in Jar : jar'[j] \in Entries' =>
          jar'[j] = NoToken
            \/ \E d \in Caller \ Page : JarOf(d) = j /\ call'[d].state = "granted"
    <3> SUFFICES ASSUME NEW j \in Jar, jar'[j] \in Entries', jar'[j] # NoToken
                 PROVE  \E d \in Caller \ Page : JarOf(d) = j /\ call'[d].state = "granted"
      OBVIOUS
    <3>1. CASE j # i
      <4>1. jar[j] \in Entries' \cap Token /\ jar[j] # NoToken /\ jar'[j] = jar[j]
        BY <1>1, <1>2, <1>3, <3>1
      <4>2. jar[j] # v
        BY <1>6, <3>1, <4>1
      <4>3. jar[j] \in Entries
        BY <4>1, <4>2
      <4>4. PICK d \in Caller \ Page : JarOf(d) = j /\ call[d].state = "granted"
        BY <4>1, <4>3 DEF UnusedInv, KeptUnused, Granted
      <4>5. QED
        BY <3>1, <4>4
    <3>2. CASE j = i
      <4>1. w \in Entries' /\ w # NoToken /\ w \in Token
        <5>1. w \in Entries' /\ w # NoToken
          BY <1>1, <1>3, <3>2
        <5>2. w \in 1..MaxTokens
          BY <1>1, <1>4, <5>1
        <5>3. QED
          BY <1>1, <5>1, <5>2
      <4>2. w # n
        BY <1>11, <4>1
      <4>3. CASE w \notin Entries
        <5>1. c \notin Page /\ call'[c].state = "granted"
          BY <4>1, <4>3
        <5>2. QED
          BY <3>2, <5>1
      <4>4. CASE w \in Entries
        <5>1. w # v
          BY <1>6, <4>1, <4>4
        <5>2. /\ w = jar[i]
              /\ c \in Page \/ call[c].state # "granted" \/ call'[c].state = "granted"
          <6>1. w # NoToken /\ w # n /\ w # v
            BY <4>1, <4>2, <5>1
          <6>2. QED
            BY <6>1
        <5>3. PICK d \in Caller \ Page : JarOf(d) = i /\ call[d].state = "granted"
          BY <1>6, <4>1, <4>4, <5>2 DEF Granted
        <5>4. call'[d].state = "granted"
          BY <5>2, <5>3
        <5>5. QED
          BY <3>2, <5>3, <5>4
      <4>5. QED
        BY <4>3, <4>4
    <3>3. QED
      BY <3>1, <3>2
  <2>2. QED
    BY <2>1 DEF KeptUnused, Granted
<1>14. EnteredWereMade'
  <2>1. \A x \in Entries' \cap Token : x \in 1..made
    <3> SUFFICES ASSUME NEW x \in Entries' \cap Token PROVE x \in 1..made
      OBVIOUS
    <3>1. CASE x \in Entries
      BY <1>6, <3>1
    <3>2. CASE x = v
      BY <1>1, <1>4, <3>2
    <3>3. QED
      BY <3>1, <3>2
  <2>2. QED
    BY <1>1, <2>1 DEF EnteredWereMade
<1>15. QED
  BY <1>8, <1>9, <1>10, <1>12, <1>13, <1>14 DEF UnusedInv

\* Who sends a token for its use, and overtakes nobody, is alone with it.
LEMMA AloneToSend ==
  ASSUME RequestsFit, NEW c \in Caller, NEW kind \in Kinds(c), Send(c, kind), ~crossed',
         kind # "verify"
  PROVE  /\ ~Granted(JarOf(c))
         /\ \A d \in Caller : d # c /\ JarOf(d) = JarOf(c) => Carried(call[d]) = NoToken
<1>1. kind \in Using
  BY Jars DEF Kinds, Using
<1>2. ~Overtakes(c) /\ call[c].state = "idle"
  <2>1. crossed' = (crossed \/ (kind \in Using /\ Overtakes(c)))
    BY DEF Send
  <2>2. call[c] = NoCall
    BY DEF Send
  <2>3. ~Overtakes(c)
    BY <1>1, <2>1, Zenon
  <2>4. call[c].state = "idle"
    BY <2>2 DEF NoCall
  <2>5. QED
    BY <2>3, <2>4
<1>3. ASSUME NEW d \in Caller, d # c, JarOf(d) = JarOf(c)
      PROVE  call[d].kind \in {"none", "verify"} /\ (call[d].kind = "verify" => d \in Page)
  <2>1. d \in BrowserWindow /\ Fits(d, call[d])
    BY <1>3, Jars DEF RequestsFit
  <2>2. call[d].state = "idle" \/ call[d].kind \notin Using
    BY <1>2, <1>3 DEF Overtakes
  <2>3. QED
    BY <2>1, <2>2, Jars DEF Fits, Using
<1>4. ~Granted(JarOf(c))
  <2> SUFFICES ASSUME NEW d \in Caller \ Page, JarOf(d) = JarOf(c), call[d].state = "granted"
               PROVE  FALSE
    BY DEF Granted
  <2>1. d # c /\ call[d].kind = "none"
    BY <1>2, <1>3
  <2>2. QED
    BY <2>1 DEF RequestsFit, Fits
<1>5. \A d \in Caller : d # c /\ JarOf(d) = JarOf(c) => Carried(call[d]) = NoToken
  BY <1>3 DEF RequestsFit, Fits, Carried
<1>6. QED
  BY <1>4, <1>5

\* A caller's step, when no answer is lost.
LEMMA CallerUnused ==
  ASSUME MaxLosses = 0, UnusedInv, NEW c \in Caller, CallerStep(c), ~crossed'
  PROVE  UnusedInv'
<1>1. /\ AnswersInv /\ AnswersInv' /\ TypeOK /\ UNCHANGED <<busy, blacklist>>
      /\ Entries' \cap Token \subseteq Entries /\ NoReplay'
  <2>1. UNCHANGED <<busy, blacklist>>
    BY DEF CallerStep, Login, SendPodToken, EntrypointAgain, Receive, GiveUp, Send
  <2>2. AnswersInv /\ AnswersInv' /\ TypeOK
    BY CallerAnswers DEF UnusedInv, AnswersInv
  <2>3. QED
    BY <2>1, <2>2 DEF UnusedInv, NoReplay, NoFalseReplay, Entries, blacklist
<1>2. /\ call \in [Caller -> CallRec(made)] /\ jar \in [Jar -> 0..made] /\ JarOf(c) \in Jar
      /\ made \in Nat
  BY <1>1, Types, TokensMade
<1>3. ~GiveUp(c)
  BY <1>1, Types DEF GiveUp, Spend, Budget
<1>4. ASSUME call[c].state # "served" \/ UNCHANGED call,
             \A d \in Caller : d # c => call'[d] = call[d]
      PROVE  Awaited'
  <2> SUFFICES ASSUME NEW r \in Replica, busy[r].step # "idle"
               PROVE  busy[r].caller \in Caller /\ call'[busy[r].caller].by = r
    BY <1>1 DEF Awaited
  <2>1. busy[r].caller \in Caller /\ call[busy[r].caller].by = r
    BY DEF UnusedInv, Awaited
  <2>2. call[busy[r].caller].state = "served"
    BY <1>1, <2>1 DEF AnswersInv, ServedFits
  <2>3. QED
    BY <1>4, <2>1, <2>2
<1> DEFINE u == Carried(call'[c])
           w == jar'[JarOf(c)]
<1>5. CASE Login(c)
  <2>1. UNCHANGED call /\ made' = made + 1 /\ jar' = [jar EXCEPT ![JarOf(c)] = made + 1]
    BY <1>5 DEF Login, Issue
  <2>2. w = made + 1 /\ u = Carried(call[c]) /\ \A j \in Jar : j # JarOf(c) => jar'[j] = jar[j]
    BY <1>2, <2>1
  <2>3. Awaited'
    BY <1>4, <2>1
  <2> HIDE DEF u, w
  <2>4. QED
    BY <1>1, <2>1, <2>2, <2>3, UnusedMoves DEF u, w
<1>6. CASE SendPodToken(c) \/ EntrypointAgain(c)
  <2> DEFINE a == [NoCall EXCEPT !.state = "sent", !.kind = "exchange"]
  <2>1. /\ UNCHANGED <<jar, made>> /\ call' = [call EXCEPT ![c] = a]
        /\ call[c] \in {NoCall, NoPodToken}
    BY <1>6 DEF SendPodToken, EntrypointAgain, issue
  <2>2. a.token = NoToken /\ call[c].state # "served"
    BY <2>1, RestFits
  <2>3. call[c].state # "granted"
    BY <2>1 DEF NoCall, NoPodToken
  <2> HIDE DEF a
  <2>4. \A d \in Caller : call'[d] = IF d = c THEN a ELSE call[d]
    BY <1>2, <2>1
  <2>5. u = NoToken /\ w = jar[JarOf(c)]
    BY <2>1, <2>2, <2>4 DEF Carried
  <2>6. Awaited'
    BY <1>4, <2>2, <2>4
  <2> HIDE DEF u, w
  <2>7. QED
    BY <1>1, <1>2, <2>1, <2>3, <2>4, <2>5, <2>6, UnusedMoves DEF u, w
<1>7. CASE Receive(c)
  <2> DEFINE a == Ended(c)
  <2>1. /\ UNCHANGED made /\ call' = [call EXCEPT ![c] = a]
        /\ call[c].state \in {"granted", "denied"}
        /\ jar' = IF call[c].kind = "verify" \/ (call[c].state = "denied" /\ c \notin Dashboard)
                    THEN jar ELSE [jar EXCEPT ![JarOf(c)] = call[c].token]
    BY <1>7 DEF Receive, issue
  <2>2. a.token = NoToken /\ Fits(c, call[c])
    BY <1>1, RestFits DEF Ended, AnswersInv, RequestsFit
  <2> HIDE DEF a
  <2>3. \A d \in Caller : call'[d] = IF d = c THEN a ELSE call[d]
    BY <1>2, <2>1
  <2>4. u = NoToken /\ Awaited'
    BY <1>4, <2>1, <2>2, <2>3 DEF Carried
  <2>5. \A j \in Jar : j # JarOf(c) => jar'[j] = jar[j]
    BY <1>2, <2>1
  <2>6. c \in Page => call[c].kind = "verify"
    BY <2>1, <2>2 DEF Fits
  <2>7. \/ /\ w = jar[JarOf(c)]
           /\ c \in Page \/ call[c].state # "granted"
        \/ w = Carried(call[c]) /\ c \notin Page
    <3>1. CASE call[c].kind = "verify"
      <4>1. c \in Page
        BY <2>2, <3>1, Jars DEF Fits
      <4>2. QED
        BY <2>1, <3>1, <4>1
    <3>2. CASE call[c].kind # "verify" /\ call[c].state = "denied" /\ c \notin Dashboard
      BY <2>1, <3>2
    <3>3. CASE call[c].kind # "verify" /\ ~(call[c].state = "denied" /\ c \notin Dashboard)
      <4>1. w = call[c].token
        BY <1>2, <2>1, <3>3
      <4>2. QED
        BY <2>6, <3>3, <4>1 DEF Carried
    <3>4. QED
      BY <3>1, <3>2, <3>3
  <2> HIDE DEF u, w
  <2>8. QED
    BY <1>1, <1>2, <2>1, <2>3, <2>4, <2>5, <2>7, UnusedMoves DEF u, w
<1>8. ASSUME NEW kind \in Kinds(c), Send(c, kind) PROVE UnusedInv'
  <2> DEFINE a == [NoCall EXCEPT !.state = "sent", !.kind = kind, !.token = jar[JarOf(c)]]
  <2>1. UNCHANGED <<jar, made>> /\ call' = [call EXCEPT ![c] = a] /\ call[c] = NoCall
    BY <1>8 DEF Send, issue
  <2>2. a.kind = kind /\ a.token = jar[JarOf(c)]
    BY DEF NoCall
  <2>3. call[c].state # "granted" /\ call[c].state # "served"
    BY <2>1 DEF NoCall
  <2>4. c \in Page => kind = "verify"
    BY <1>8, Jars DEF Kinds
  <2> HIDE DEF a
  <2>5. \A d \in Caller : call'[d] = IF d = c THEN a ELSE call[d]
    BY <1>2, <2>1
  <2>6. w = jar[JarOf(c)] /\ (kind = "verify" => u = NoToken) /\ u \in {NoToken, jar[JarOf(c)]}
    BY <2>1, <2>2, <2>5 DEF Carried
  <2> HIDE DEF u, w
  <2>7. kind # "verify" =>
          /\ ~Granted(JarOf(c))
          /\ \A d \in Caller : d # c /\ JarOf(d) = JarOf(c) => Carried(call[d]) = NoToken
    BY <1>1, <1>8, <2>3, AloneToSend DEF AnswersInv
  <2>8. Awaited'
    BY <1>4, <2>3, <2>5
  <2>9. \/ u \in {NoToken, Carried(call[c])}
        \/ /\ u = jar[JarOf(c)] /\ c \notin Page /\ ~Granted(JarOf(c))
           /\ \A d \in Caller : d # c /\ JarOf(d) = JarOf(c) => Carried(call[d]) = NoToken
    BY <2>4, <2>6, <2>7
  <2>10. QED
    BY <1>1, <1>2, <2>1, <2>3, <2>5, <2>6, <2>8, <2>9, UnusedMoves DEF u, w
<1>9. QED
  BY <1>3, <1>5, <1>6, <1>7, <1>8 DEF CallerStep

\* A replica answers: without a token or with the one just issued, and what gets an entry is at
\* most the token of the request that it grants.
LEMMA ReplyUnused ==
  ASSUME UnusedInv, AnswersInv', NEW r \in Replica,
         NEW state \in {"granted", "denied"}, NEW token, Reply(r, state, token), UNCHANGED jar,
         made' \in {made, made + 1}, token = NoToken \/ (token = made + 1 /\ made' = made + 1),
         NoFalseReplay',
         \/ Entries' \cap Token \subseteq Entries
         \/ /\ Entries' \cap Token \subseteq Entries \cup {busy[r].token}
            /\ state = "granted" /\ busy[r].step # "idle" /\ busy[r].kind # "verify"
            /\ busy[r].token # NoToken
  PROVE  UnusedInv'
<1>1. AnswersInv /\ TypeOK /\ ServedFits
  BY DEF UnusedInv, AnswersInv
<1>2. /\ \A q \in Replica : busy'[q] = IF q = r THEN Idle ELSE busy[q]
      /\ \A d \in Caller :
           /\ call[d].by # r => call'[d] = call[d]
           /\ call[d].by = r =>
                /\ call'[d].state = state /\ call'[d].token = token
                /\ call'[d].by = NoReplica /\ call'[d].kind = call[d].kind
  BY <1>1, ReplyMoves
<1>3. Awaited'
  <2> SUFFICES ASSUME NEW q \in Replica, busy'[q].step # "idle"
               PROVE  busy'[q].caller \in Caller /\ call'[busy'[q].caller].by = q
    BY DEF Awaited
  <2>1. q # r /\ busy'[q] = busy[q]
    BY <1>2, RestFits
  <2>2. busy[q].caller \in Caller /\ call[busy[q].caller].by = q
    BY <2>1 DEF UnusedInv, Awaited
  <2>3. QED
    BY <1>2, <2>1, <2>2
<1>4. NoReplay'
  BY <1>2, RestFits DEF UnusedInv, NoReplay
<1>5. made \in Nat /\ NoToken = 0 /\ \A c \in Caller : JarOf(c) \in Jar
  BY <1>1, TokensMade
<1>6. CASE \E c \in Caller : call[c].by = r
  <2> PICK c \in Caller : call[c].by = r
    BY <1>6
  <2>1. /\ \A d \in Caller : d # c => call'[d] = call[d]
        /\ call[c].state = "served" /\ call[c].kind = busy[r].kind /\ call[c].token = busy[r].token
    BY <1>1, <1>2 DEF ServedFits
  <2>2. call'[c].state = state /\ call'[c].token = token /\ call'[c].kind = call[c].kind
    BY <1>2
  <2> DEFINE u == Carried(call'[c])
             w == jar'[JarOf(c)]
  <2>3. u \in {NoToken, token} /\ w = jar[JarOf(c)]
    BY <2>2 DEF Carried
  <2>4. busy[r].kind # "verify" => Carried(call[c]) = busy[r].token
    BY <2>1 DEF Carried
  <2>5. Carried(call[c]) \in 0..made /\ c \in Page => Carried(call[c]) = NoToken
    BY <1>1, TokensMade, PagesCarryNothing DEF AnswersInv
  <2>6. Carried(call[c]) \in 0..made
    BY <1>1, TokensMade
  <2>7. \/ Entries' \cap Token \subseteq Entries
        \/ /\ Entries' \cap Token \subseteq Entries \cup {Carried(call[c])}
           /\ c \notin Page /\ u # Carried(call[c]) /\ call'[c].state = "granted"
    <3>1. CASE ~(Entries' \cap Token \subseteq Entries)
      <4>1. /\ Entries' \cap Token \subseteq Entries \cup {busy[r].token}
            /\ state = "granted" /\ busy[r].kind # "verify" /\ busy[r].token # NoToken
        BY <3>1
      <4>2. Carried(call[c]) = busy[r].token /\ c \notin Page
        BY <2>4, <2>5, <2>6, <4>1
      <4>3. u # Carried(call[c])
        BY <1>5, <2>3, <2>6, <4>1, <4>2
      <4>4. QED
        BY <2>2, <4>1, <4>2, <4>3
    <3>2. QED
      BY <3>1
  <2> HIDE DEF u, w
  <2>8. QED
    BY <1>3, <1>4, <1>5, <2>1, <2>3, <2>7, UnusedMoves DEF u, w
<1>7. CASE \A c \in Caller : call[c].by # r
  <2>1. busy[r].step = "idle"
    BY <1>7 DEF UnusedInv, Awaited
  <2>2. UNCHANGED call
    BY <1>7 DEF Reply
  <2>3. Entries' \cap Token \subseteq Entries
    BY <2>1
  <2>4. QED
    BY <1>3, <1>4, <2>2, <2>3, UnusedStays
<1>8. QED
  BY <1>6, <1>7

\* A replica's step.
LEMMA ReplicaUnused ==
  ASSUME UnusedInv, NEW r \in Replica, ReplicaStep(r)
  PROVE  UnusedInv'
<1>1. /\ AnswersInv /\ AnswersInv' /\ TypeOK /\ ServedFits /\ StepFits(busy[r]) /\ NoFalseReplay
      /\ busy[r].step # "revoke"
  BY ReplicaAnswers DEF UnusedInv, AnswersInv, StepsFit, NoReplay
<1>2. /\ made \in Nat /\ NoToken = 0 /\ busy[r].token \in 0..made
      /\ busy[r].token # NoToken => busy[r].token \in Token /\ busy[r].token \in Entry
      /\ UserRevoked \in Entry /\ UserRevoked \notin Token /\ PodToken \notin Token
      /\ UserRevoked # PodToken
  BY <1>1, TokensMade, JwtAuthAssumption DEF Entry
\* A step that writes no entry.
<1>3. ASSUME UNCHANGED blacklist
      PROVE  NoFalseReplay' /\ Entries' \cap Token \subseteq Entries
  BY <1>1, <1>3 DEF NoFalseReplay, Entries, blacklist
\* A step that writes an entry for something other than the user.
<1>4. ASSUME NEW e, NEW ttl \in Nat, Blacklist(r, e, ttl), e # UserRevoked
      PROVE  NoFalseReplay' /\ Entries' \subseteq Entries \cup {e}
  BY <1>1, <1>2, <1>4, ListingEnters DEF NoFalseReplay
<1>5. ASSUME NEW c \in Caller, CheckUser(r, c) \/ LogoutCheck(r, c) \/ CheckPodToken(r, c)
      PROVE  UnusedInv'
  <2>1. /\ call[c].state = "sent" /\ busy[r] = Idle /\ UNCHANGED <<jar, made, blacklist>>
        /\ JarOf(c) \in Jar
    BY <1>5, FirstMoves, JarsExist DEF issue
  <2>2. \A q \in Replica : call[c].by # q
    BY <1>1, <2>1 DEF ServedFits
  <2>3. NoFalseReplay' /\ Entries' \cap Token \subseteq Entries
    BY <1>3, <2>1
  <2> DEFINE u == Carried(call'[c])
             w == jar'[JarOf(c)]
  <2>4. w = jar[JarOf(c)]
    BY <2>1
  <2>5. ASSUME UNCHANGED busy, NEW state,
               call' = [call EXCEPT ![c].state = state, ![c].token = NoToken]
        PROVE  UnusedInv'
    <3>1. (\A d \in Caller : d # c => call'[d] = call[d]) /\ call'[c].token = NoToken
      BY <1>1, <2>5, AtOnceMoves
    <3>2. u = NoToken
      BY <3>1 DEF Carried
    <3>3. Awaited'
      <4> SUFFICES ASSUME NEW q \in Replica, busy[q].step # "idle"
                   PROVE  busy[q].caller \in Caller /\ call'[busy[q].caller].by = q
        BY <2>5 DEF Awaited
      <4>1. busy[q].caller \in Caller /\ call[busy[q].caller].by = q
        BY DEF UnusedInv, Awaited
      <4>2. busy[q].caller # c
        BY <2>2, <4>1
      <4>3. QED
        BY <3>1, <4>1, <4>2
    <3>4. NoReplay'
      BY <2>3, <2>5 DEF UnusedInv, NoReplay
    <3> HIDE DEF u, w
    <3>5. QED
      BY <1>1, <2>1, <2>3, <2>4, <3>1, <3>2, <3>3, <3>4, UnusedMoves DEF u, w
  <2>6. ASSUME NEW step \in {"checkJti", "logout", "exchange"}, Serve(r, c), Take(r, c, step)
        PROVE  UnusedInv'
    <3>1. /\ \A q \in Replica : q # r => busy'[q] = busy[q]
          /\ busy'[r].step = step /\ busy'[r].caller = c
          /\ \A d \in Caller : d # c => call'[d] = call[d]
          /\ call'[c].by = r /\ call'[c].kind = call[c].kind /\ call'[c].token = call[c].token
      BY <1>1, <2>6, TakeMoves
    <3>2. u = Carried(call[c])
      BY <3>1 DEF Carried
    <3>3. Awaited'
      <4> SUFFICES ASSUME NEW q \in Replica, busy'[q].step # "idle"
                   PROVE  busy'[q].caller \in Caller /\ call'[busy'[q].caller].by = q
        BY DEF Awaited
      <4>1. CASE q = r
        BY <3>1, <4>1
      <4>2. CASE q # r
        <5>1. busy[q].caller \in Caller /\ call[busy[q].caller].by = q /\ busy'[q] = busy[q]
          BY <3>1, <4>2 DEF UnusedInv, Awaited
        <5>2. QED
          BY <2>2, <3>1, <5>1
      <4>3. QED
        BY <4>1, <4>2
    <3>4. NoReplay'
      BY <2>3, <3>1 DEF UnusedInv, NoReplay
    <3> HIDE DEF u, w
    <3>5. QED
      BY <1>1, <2>1, <2>3, <2>4, <3>1, <3>2, <3>3, <3>4, UnusedMoves DEF u, w
  <2>7. QED
    BY <1>5, <2>5, <2>6, FirstMoves
<1>6. CASE CheckJti(r)
  <2>1. UNCHANGED <<jar, made, blacklist>> /\ busy[r].step = "checkJti"
    BY <1>6 DEF CheckJti, issue
  <2>2. NoFalseReplay' /\ Entries' \cap Token \subseteq Entries
    BY <1>3, <2>1
  <2>3. ~(Listed(r, busy[r].token) /\ busy[r].kind = "refresh")
    <3> SUFFICES ASSUME Listed(r, busy[r].token), busy[r].kind = "refresh" PROVE FALSE
      OBVIOUS
    <3>1. PICK c \in Caller : c = busy[r].caller /\ call[c].by = r
      BY <2>1 DEF UnusedInv, Awaited
    <3>2. Carried(call[c]) = busy[r].token
      BY <1>1, <3>1 DEF ServedFits, Carried
    <3>3. busy[r].token # NoToken
      BY <1>1, <2>1 DEF StepFits
    <3>4. busy[r].token \in Entries
      BY <1>1, <1>2, <3>3, ListedIsEntered
    <3>5. QED
      BY <3>2, <3>3, <3>4 DEF UnusedInv, CarriedUnused
  <2>4. CASE Continue(r, "rotate") /\ UNCHANGED call
    <3>1. /\ \A q \in Replica : q # r => busy'[q] = busy[q]
          /\ busy'[r].step = "rotate" /\ busy'[r].caller = busy[r].caller
      BY <1>1, <2>4, ContinueMoves
    <3>2. Awaited' /\ NoReplay'
      BY <2>1, <2>2, <2>4, <3>1 DEF UnusedInv, Awaited, NoReplay
    <3>3. QED
      BY <1>1, <2>1, <2>2, <2>4, <3>2, UnusedStays
  <2>5. CASE \E state \in {"granted", "denied"} : Reply(r, state, NoToken)
    BY <1>1, <2>1, <2>2, <2>5, ReplyUnused
  <2>6. QED
    BY <1>6, <2>3, <2>4, <2>5 DEF CheckJti
<1>7. ~RevokeAll(r)
  BY <1>1 DEF RevokeAll
<1>8. CASE Rotate(r)
  <2>1. /\ Blacklist(r, busy[r].token, RefreshTTL) /\ made' = made + 1
        /\ Reply(r, "granted", made + 1) /\ UNCHANGED jar /\ busy[r].step = "rotate"
    BY <1>8 DEF Rotate, Issue
  <2>2. busy[r].token # NoToken /\ busy[r].kind # "verify"
    BY <1>1, <2>1 DEF StepFits
  <2>3. NoFalseReplay' /\ Entries' \subseteq Entries \cup {busy[r].token}
    BY <1>2, <1>4, <2>1, <2>2, Naturals
  <2>4. QED
    BY <1>1, <2>1, <2>2, <2>3, ReplyUnused
<1>9. CASE LogoutBlacklist(r)
  <2>1. /\ Blacklist(r, busy[r].token, RefreshTTL) /\ UNCHANGED <<made, jar>>
        /\ Reply(r, "granted", NoToken) /\ busy[r].step = "logout"
    BY <1>9 DEF LogoutBlacklist, issue
  <2>2. busy[r].token # NoToken /\ busy[r].kind # "verify"
    BY <1>1, <2>1 DEF StepFits
  <2>3. NoFalseReplay' /\ Entries' \subseteq Entries \cup {busy[r].token}
    BY <1>2, <1>4, <2>1, <2>2, Naturals
  <2>4. QED
    BY <1>1, <2>1, <2>2, <2>3, ReplyUnused
<1>10. CASE Exchange(r)
  <2>1. /\ Blacklist(r, PodToken, PodTTL) /\ made' = made + 1
        /\ Reply(r, "granted", made + 1) /\ UNCHANGED jar
    BY <1>10 DEF Exchange, Issue
  <2>2. NoFalseReplay' /\ Entries' \subseteq Entries \cup {PodToken}
    BY <1>2, <1>4, <2>1, Naturals
  <2>3. Entries' \cap Token \subseteq Entries
    BY <1>2, <2>2
  <2>4. QED
    BY <1>1, <2>1, <2>2, <2>3, ReplyUnused
<1>11. CASE ReplicaRestarts(r)
  <2>1. /\ memory' = [memory EXCEPT ![r] = [e \in Entry |-> 0]] /\ UNCHANGED <<redis, made, jar>>
        /\ Reply(r, "denied", NoToken)
    BY <1>11 DEF ReplicaRestarts, issue
  <2>2. \A q \in Replica : memory'[q] = IF q = r THEN [e \in Entry |-> 0] ELSE memory[q]
    BY <1>1, <2>1, Types
  <2>3. NoFalseReplay'
    BY <1>1, <1>2, <2>1, <2>2 DEF NoFalseReplay
  <2>4. Entries' \subseteq Entries
    BY <2>1, <2>2 DEF Entries
  <2>5. QED
    BY <1>1, <2>1, <2>3, <2>4, ReplyUnused
<1>12. QED
  BY <1>5, <1>6, <1>7, <1>8, <1>9, <1>10, <1>11 DEF ReplicaStep

\* Every step: the environment moves no token.
LEMMA NextUnused ==
  ASSUME MaxLosses = 0, UnusedInv, [Next]_vars, ~crossed'
  PROVE  UnusedInv'
<1>1. CASE Tick \/ RedisFails \/ RedisReturns \/ UNCHANGED vars
  <2>1. UNCHANGED <<made, jar, call, busy, redis, memory>>
    BY <1>1 DEF Tick, RedisFails, RedisReturns, vars, clients, issue, blacklist
  <2>2. AnswersInv'
    BY NextAnswers DEF UnusedInv
  <2>3. Entries' = Entries /\ Awaited' /\ NoReplay'
    BY <2>1 DEF UnusedInv, Entries, Awaited, NoReplay, NoFalseReplay
  <2>4. made' \in {made, made + 1}
    BY <2>1
  <2>5. QED
    BY <2>1, <2>2, <2>3, <2>4, UnusedStays
<1>2. QED
  BY <1>1, CallerUnused, ReplicaUnused DEF Next

\* That requests have crossed is never forgotten.
LEMMA CrossedStays == [Next]_vars /\ crossed => crossed'
BY DEF Next, CallerStep, Login, SendPodToken, EntrypointAgain, Receive, GiveUp, Send, ReplicaStep,
       CheckUser, LogoutCheck, CheckPodToken, CheckJti, RevokeAll, Rotate, LogoutBlacklist,
       Exchange, ReplicaRestarts, Tick, RedisFails, RedisReturns, vars, history

\* While no two requests of one browser that use its token are under way together, and no answer
\* is lost, no refresh token of the user is taken for a replayed one and the user is never revoked:
\* however many replicas, tabs, pages, daemons and dashboards there are, and whether Redis answers,
\* replicas restart, or pods start again.
THEOREM NothingIsTakenForReplay == ASSUME MaxLosses = 0 PROVE Spec => []OnlyCrossingsRevoke
<1> DEFINE I == ~crossed => UnusedInv
<1>1. I /\ [Next]_vars => I'
  <2> SUFFICES ASSUME I, [Next]_vars, ~crossed' PROVE UnusedInv'
    OBVIOUS
  <2>1. QED
    BY NextUnused, CrossedStays
<1>2. Init => I
  BY InitUnused
<1>3. I => OnlyCrossingsRevoke
  BY DEF UnusedInv, NoReplay, OnlyCrossingsRevoke
<1> HIDE DEF I
<1>4. QED
  BY <1>1, <1>2, <1>3, PTL DEF Spec

=============================================================================
