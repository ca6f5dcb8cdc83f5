------------------------------ MODULE JwtAuth ------------------------------
(***************************************************************************)
(* Sign-on tokens of one user (auth-gateway/app/core/jwt_rs256.py,         *)
(* routers/jwt_auth.py and the token endpoints of routers/auth.py).        *)
(*                                                                         *)
(* A refresh token is used once: its use blacklists it and issues the next *)
(* one.  Using it again revokes every refresh token of the user.  The      *)
(* blacklist is kept in Redis, or in the memory of a replica while it does *)
(* not reach Redis.  The tabs of a browser share one cookie; the daemon of *)
(* a pod and an admin dashboard keep a token of their own.  A pod's first  *)
(* token is bought with a pod token, which is also used once.              *)
(*                                                                         *)
(* A handler runs on the event loop of its replica without awaiting, so a  *)
(* replica serves one request at a time; two replicas interleave at every  *)
(* access to the blacklist.  All callers are the user's own programs.  The *)
(* keep-alive of a tab is a timer that nothing waits for, so the user may  *)
(* log out while a refresh of the same browser is under way.               *)
(***************************************************************************)
EXTENDS Integers, FiniteSets

CONSTANTS
  Tab,        \* browser tabs with the portal open
  Page,       \* browser tabs with the chat open
  Exit,       \* windows of the browser in which the user logs out
  Daemon,     \* refresh daemons, one per pod
  Dashboard,  \* admin dashboards
  Replica,
  Browser,    \* the cookie jar that tabs, pages and exits share
  NoReplica,  \* null value
  UserRevoked, PodToken, \* blacklist entries besides those of refresh tokens
  RefreshTTL, PodTTL, \* lifetimes in clock ticks of an hour
  MaxTokens, MaxTime, MaxLosses, MaxOutages, MaxRestarts, MaxLogouts \* bounds

BrowserWindow == Tab \cup Page \cup Exit
Caller == BrowserWindow \cup Daemon \cup Dashboard
Jar == {Browser} \cup Daemon \cup Dashboard
JarOf(c) == IF c \in BrowserWindow THEN Browser ELSE c
Token == 1..MaxTokens
NoToken == 0
Entry == Token \cup {UserRevoked, PodToken}

ASSUME JwtAuthAssumption ==
  /\ RefreshTTL \in Nat \ {0} /\ PodTTL \in Nat \ {0}
  /\ {MaxTokens, MaxTime, MaxLosses, MaxOutages, MaxRestarts, MaxLogouts} \subseteq Nat
  /\ UserRevoked # PodToken /\ Token \cap {UserRevoked, PodToken} = {}
  /\ Tab \cap Page = {} /\ (Tab \cup Page) \cap Exit = {} /\ Daemon \cap Dashboard = {}
  /\ BrowserWindow \cap (Daemon \cup Dashboard) = {}
  /\ Browser \notin Caller /\ NoReplica \notin Replica /\ IsFiniteSet(Replica)

VARIABLES
  now,       \* the clock
  made,      \* refresh tokens issued so far: 1..made
  issuedAt,  \* when each was issued
  jar,       \* the refresh token kept by each jar
  call,      \* the request of each caller
  busy,      \* the request each replica is serving
  redis,     \* when each blacklist entry in Redis lapses; 0: no entry
  memory,    \* the same for each replica's own memory
  redisUp,   \* whether Redis answers
  mark,      \* tokens issued before the user was last revoked
  spent,     \* how often each token was used: exchanged for the next one or logged out
  exchanges, \* how often the pod token was exchanged at each time
  crossed,   \* whether two requests that use the token of one jar were under way together
  budget     \* rare events so far

clients == <<jar, call>>
issue == <<made, issuedAt>>
blacklist == <<redis, memory>>
history == <<mark, spent, exchanges, crossed>>
vars == <<now, issue, clients, busy, blacklist, redisUp, history, budget>>

NoCall == [state |-> "idle", kind |-> "none", token |-> NoToken, by |-> NoReplica]
NoPodToken == [NoCall EXCEPT !.state = "off"]
Idle == [step |-> "idle", caller |-> Browser, kind |-> "none", token |-> NoToken]

Init ==
  /\ now = 0 /\ made = 0
  /\ issuedAt = [t \in Token |-> 0]
  /\ jar = [j \in Jar |-> NoToken] /\ call = [c \in Caller |-> NoCall]
  /\ busy = [r \in Replica |-> Idle]
  /\ redis = [e \in Entry |-> 0] /\ memory = [r \in Replica |-> [e \in Entry |-> 0]]
  /\ redisUp = TRUE
  /\ mark = 0 /\ spent = [t \in Token |-> 0]
  /\ exchanges = [t \in 0..MaxTime |-> 0] /\ crossed = FALSE
  /\ budget = [loss |-> 0, outage |-> 0, restart |-> 0, logout |-> 0]

Spend(what, max) ==
  /\ budget[what] < max
  /\ budget' = [budget EXCEPT ![what] = @ + 1]

----------------------------------------------------------------------------
(* jwt_rs256 *)

\* _verify_jwt_signature_only: only the expiry matters here.
Valid(t) == t # NoToken /\ now < issuedAt[t] + RefreshTTL

\* _redis_blacklist_check and _redis_blacklist_add: Redis if it answers, else the
\* replica's memory.
Listed(r, e) == now < IF redisUp THEN redis[e] ELSE memory[r][e]
Blacklist(r, e, ttl) ==
  IF redisUp
    THEN redis' = [redis EXCEPT ![e] = now + ttl] /\ UNCHANGED memory
    ELSE memory' = [memory EXCEPT ![r][e] = now + ttl] /\ UNCHANGED redis

\* create_refresh_token
Issue ==
  /\ made < MaxTokens
  /\ made' = made + 1
  /\ issuedAt' = [issuedAt EXCEPT ![made + 1] = now]

----------------------------------------------------------------------------
(* The callers *)

\* _issue_jwt after a login.
Login(c) ==
  /\ c \notin Daemon \cup Exit /\ call[c] = NoCall
  /\ Issue
  /\ jar' = [jar EXCEPT ![JarOf(c)] = made']
  /\ UNCHANGED <<now, call, busy, blacklist, redisUp, history, budget>>

\* The kinds of request: the portal's timer and the daemon refresh, the ingress
\* verifies the cookies of a chat page, the user logs out.
Kinds(c) ==
  CASE c \in Tab -> {"refresh"}
    [] c \in Page -> {"verify"}
    [] c \in Exit -> {"logout"}
    [] c \in Daemon -> {"refresh"}
    [] c \in Dashboard -> {"adminRefresh"}

\* Another request that uses the token of c's jar is under way.
Using == {"refresh", "adminRefresh", "logout"}
Overtakes(c) ==
  \E o \in Caller \ {c} :
    JarOf(o) = JarOf(c) /\ call[o].state # "idle" /\ call[o].kind \in Using

\* A caller waits for the answer to its own request, not for those of others: the
\* tabs of a browser, and the user who logs out, know nothing of each other.
Send(c, kind) ==
  /\ call[c] = NoCall /\ Valid(jar[JarOf(c)])
  /\ crossed' = (crossed \/ (kind \in Using /\ Overtakes(c)))
  /\ IF kind = "logout" THEN Spend("logout", MaxLogouts) ELSE UNCHANGED budget
  /\ call' = [call EXCEPT ![c] =
                [NoCall EXCEPT !.state = "sent", !.kind = kind, !.token = jar[JarOf(c)]]]
  /\ UNCHANGED <<now, issue, jar, busy, blacklist, redisUp, mark, spent, exchanges>>

\* The entrypoint of a pod sends its pod token, once.
SendPodToken(c) ==
  /\ c \in Daemon /\ call[c] = NoCall /\ jar[c] = NoToken
  /\ call' = [call EXCEPT ![c] = [NoCall EXCEPT !.state = "sent", !.kind = "exchange"]]
  /\ UNCHANGED <<now, issue, jar, busy, blacklist, redisUp, history, budget>>

\* The entrypoint is run again in the same pod.
EntrypointAgain(c) ==
  /\ c \in Daemon /\ call[c] \in {NoCall, NoPodToken}
  /\ Spend("restart", MaxRestarts)
  /\ call' = [call EXCEPT ![c] = [NoCall EXCEPT !.state = "sent", !.kind = "exchange"]]
  /\ UNCHANGED <<now, issue, jar, busy, blacklist, redisUp, history>>

\* Without a token file the daemon does not run.
Ended(c) ==
  IF call[c].kind = "exchange" /\ call[c].state # "granted" /\ jar[c] = NoToken
    THEN NoPodToken ELSE NoCall

\* The answer arrives: a new token replaces the one in the jar, whatever has become of
\* it since the request; a dashboard that is refused logs out.  The ingress' answer sets
\* access cookies only.
Receive(c) ==
  LET a == call[c] IN
  /\ a.state \in {"granted", "denied"}
  /\ jar' = IF a.kind = "verify" \/ (a.state = "denied" /\ c \notin Dashboard)
              THEN jar ELSE [jar EXCEPT ![JarOf(c)] = a.token]
  /\ call' = [call EXCEPT ![c] = Ended(c)]
  /\ UNCHANGED <<now, issue, busy, blacklist, redisUp, history, budget>>

\* The caller gives up: a timeout, or a tab that is closed.
GiveUp(c) ==
  /\ call[c] \notin {NoCall, NoPodToken}
  /\ Spend("loss", MaxLosses)
  /\ call' = [call EXCEPT ![c] = Ended(c)]
  /\ UNCHANGED <<now, issue, jar, busy, blacklist, redisUp, history>>

----------------------------------------------------------------------------
(* The endpoints *)

Take(r, c, step) ==
  busy' = [busy EXCEPT ![r] =
             [step |-> step, caller |-> c, kind |-> call[c].kind, token |-> call[c].token]]
Continue(r, step) == busy' = [busy EXCEPT ![r].step = step]
Serve(r, c) == call' = [call EXCEPT ![c].state = "served", ![c].by = r]

\* The answer of a replica, dropped if its caller gave up.
Reply(r, state, token) ==
  LET c == busy[r].caller IN
  /\ busy' = [busy EXCEPT ![r] = Idle]
  /\ call' = IF c \in Caller /\ call[c].by = r
               THEN [call EXCEPT ![c].state = state, ![c].token = token, ![c].by = NoReplica]
               ELSE call

Ready(r, c, kinds) ==
  busy[r] = Idle /\ call[c].state = "sent" /\ call[c].kind \in kinds

Refreshes == {"refresh", "adminRefresh", "verify"}
Kind == Refreshes \cup {"none", "logout", "exchange"}
Deny(c) == call' = [call EXCEPT ![c].state = "denied", ![c].token = NoToken]

\* The signature and the expiry; then is_user_revoked.
CheckUser(r, c) ==
  /\ Ready(r, c, Refreshes)
  /\ IF ~Valid(call[c].token) \/ Listed(r, UserRevoked)
       THEN Deny(c) /\ UNCHANGED busy
       ELSE Serve(r, c) /\ Take(r, c, "checkJti")
  /\ UNCHANGED <<now, issue, jar, blacklist, redisUp, history, budget>>

\* Mutant of CheckJti: the ingress rotates the token it verifies.
CheckJtiVerifyRotates(r) ==
  LET b == busy[r] IN
  /\ b.step = "checkJti"
  /\ CASE Listed(r, b.token) /\ b.kind = "refresh" -> Continue(r, "revoke") /\ UNCHANGED call
       [] Listed(r, b.token) /\ b.kind # "refresh" -> Reply(r, "denied", NoToken)
       [] OTHER -> Continue(r, "rotate") /\ UNCHANGED call
  /\ UNCHANGED <<now, issue, jar, blacklist, redisUp, history, budget>>

\* is_jti_blacklisted: a replay for the hub, a mere refusal for the dashboard and the
\* ingress.
CheckJti(r) ==
  LET b == busy[r] IN
  /\ b.step = "checkJti"
  /\ CASE Listed(r, b.token) /\ b.kind = "refresh" -> Continue(r, "revoke") /\ UNCHANGED call
       [] Listed(r, b.token) /\ b.kind # "refresh" -> Reply(r, "denied", NoToken)
       [] ~Listed(r, b.token) /\ b.kind = "verify" -> Reply(r, "granted", NoToken)
       [] OTHER -> Continue(r, "rotate") /\ UNCHANGED call
  /\ UNCHANGED <<now, issue, jar, blacklist, redisUp, history, budget>>

\* revoke_all_refresh_for_user: every refresh token of the user is refused.
RevokeAll(r) ==
  /\ busy[r].step = "revoke"
  /\ Blacklist(r, UserRevoked, RefreshTTL)
  /\ mark' = made
  /\ Reply(r, "denied", NoToken)
  /\ UNCHANGED <<now, issue, jar, redisUp, spent, exchanges, crossed, budget>>

\* The token is used (history).
Consume(t) == spent' = [spent EXCEPT ![t] = @ + 1]

\* Mutant of Rotate: with the default lifetime of blacklist_jti.
RotateBriefly(r) ==
  /\ busy[r].step = "rotate"
  /\ Blacklist(r, busy[r].token, PodTTL)
  /\ Consume(busy[r].token)
  /\ Issue
  /\ Reply(r, "granted", made')
  /\ UNCHANGED <<now, jar, redisUp, mark, exchanges, crossed, budget>>

\* Mutant of Rotate: the used token stays usable.
RotateWithoutBlacklist(r) ==
  /\ busy[r].step = "rotate"
  /\ Consume(busy[r].token)
  /\ Issue
  /\ Reply(r, "granted", made')
  /\ UNCHANGED <<now, jar, blacklist, redisUp, mark, exchanges, crossed, budget>>

\* blacklist_jti, then the new tokens.
Rotate(r) ==
  /\ busy[r].step = "rotate"
  /\ Blacklist(r, busy[r].token, RefreshTTL)
  /\ Consume(busy[r].token)
  /\ Issue
  /\ Reply(r, "granted", made')
  /\ UNCHANGED <<now, jar, redisUp, mark, exchanges, crossed, budget>>

\* logout: verify_jwt, then blacklist_jti; the cookies are deleted in any case.
LogoutCheck(r, c) ==
  /\ Ready(r, c, {"logout"})
  /\ IF Valid(call[c].token) /\ ~Listed(r, call[c].token)
       THEN Serve(r, c) /\ Take(r, c, "logout")
       ELSE /\ call' = [call EXCEPT ![c].state = "granted", ![c].token = NoToken]
            /\ UNCHANGED busy
  /\ UNCHANGED <<now, issue, jar, blacklist, redisUp, history, budget>>

LogoutBlacklist(r) ==
  /\ busy[r].step = "logout"
  /\ Blacklist(r, busy[r].token, RefreshTTL)
  /\ Consume(busy[r].token)
  /\ Reply(r, "granted", NoToken)
  /\ UNCHANGED <<now, issue, jar, redisUp, mark, exchanges, crossed, budget>>

\* pod_token_exchange: is the pod token used up?  The session of the pod matches.
CheckPodToken(r, c) ==
  /\ Ready(r, c, {"exchange"})
  /\ IF Listed(r, PodToken)
       THEN Deny(c) /\ UNCHANGED busy
       ELSE Serve(r, c) /\ Take(r, c, "exchange")
  /\ UNCHANGED <<now, issue, jar, blacklist, redisUp, history, budget>>

\* The tokens are created, then blacklist_pod_token.
Exchange(r) ==
  /\ busy[r].step = "exchange"
  /\ Issue
  /\ Blacklist(r, PodToken, PodTTL)
  /\ exchanges' = [exchanges EXCEPT ![now] = @ + 1]
  /\ Reply(r, "granted", made')
  /\ UNCHANGED <<now, jar, redisUp, mark, spent, crossed, budget>>

----------------------------------------------------------------------------
(* The environment *)

Tick ==
  /\ now < MaxTime
  /\ \A r \in Replica : busy[r] = Idle \* a request takes much less than an hour
  /\ now' = now + 1
  /\ UNCHANGED <<issue, clients, busy, blacklist, redisUp, history, budget>>

RedisFails ==
  /\ redisUp /\ Spend("outage", MaxOutages)
  /\ redisUp' = FALSE
  /\ UNCHANGED <<now, issue, clients, busy, blacklist, history>>

RedisReturns ==
  /\ ~redisUp
  /\ redisUp' = TRUE
  /\ UNCHANGED <<now, issue, clients, busy, blacklist, history, budget>>

ReplicaRestarts(r) ==
  /\ Spend("restart", MaxRestarts)
  /\ memory' = [memory EXCEPT ![r] = [e \in Entry |-> 0]]
  /\ Reply(r, "denied", NoToken)
  /\ busy[r] # Idle \/ memory'[r] # memory[r]
  /\ UNCHANGED <<now, issue, jar, redis, redisUp, history>>

CallerStep(c) ==
  \/ Login(c) \/ SendPodToken(c) \/ EntrypointAgain(c) \/ Receive(c) \/ GiveUp(c)
  \/ \E kind \in Kinds(c) : Send(c, kind)

ReplicaStep(r) ==
  \/ \E c \in Caller : CheckUser(r, c) \/ LogoutCheck(r, c) \/ CheckPodToken(r, c)
  \/ CheckJti(r) \/ RevokeAll(r) \/ Rotate(r) \/ LogoutBlacklist(r) \/ Exchange(r)
  \/ ReplicaRestarts(r)

Next ==
  \/ \E c \in Caller : CallerStep(c)
  \/ \E r \in Replica : ReplicaStep(r)
  \/ Tick \/ RedisFails \/ RedisReturns

Spec == Init /\ [][Next]_vars

----------------------------------------------------------------------------
(* Properties *)

\* The type invariant.
TypeOK ==
  /\ now \in 0..MaxTime /\ made \in 0..MaxTokens
  /\ issuedAt \in [Token -> 0..MaxTime]
  /\ jar \in [Jar -> 0..made]
  /\ call \in [Caller -> [state : {"idle", "off", "sent", "served", "granted", "denied"},
        kind : Kind, token : 0..made, by : Replica \cup {NoReplica}]]
  /\ busy \in [Replica -> [step : {"idle", "checkJti", "revoke", "rotate", "logout", "exchange"},
        caller : Caller \cup {Browser}, kind : Kind, token : 0..made]]
  /\ redis \in [Entry -> Nat] /\ memory \in [Replica -> [Entry -> Nat]]
  /\ redisUp \in BOOLEAN
  /\ mark \in 0..made
  /\ spent \in [Token -> Nat] /\ exchanges \in [0..MaxTime -> Nat] /\ crossed \in BOOLEAN
  /\ budget \in [{"loss", "outage", "restart", "logout"} -> Nat]

\* A token is used once, except by requests that overlap: each replica may have looked at the
\* blacklist before another wrote to it.  So no token, neither a refresh token nor a pod token
\* in the life of its entry, is ever used more often than there are replicas.
Users(t) == {r \in Replica : busy[r].step \in {"rotate", "logout"} /\ busy[r].token = t}
Exchanging == {r \in Replica : busy[r].step = "exchange"}

UsedOnce ==
  /\ \A t \in Token : spent[t] + Cardinality(Users(t)) <= Cardinality(Replica)
  /\ exchanges[now] + Cardinality(Exchanging) <= Cardinality(Replica)
  /\ \A s, t \in 0..MaxTime :
       s < t /\ exchanges[s] > 0 /\ exchanges[t] > 0 => s + PodTTL <= t

\* And the requests that do use a token twice do overlap: whoever looks at a token after it was
\* exchanged or logged out, however long after, is refused.  What a logout has closed stays
\* closed at the server, also where the browser has the cookie of an earlier refresh again.
NoLateUse ==
  [][\A r \in Replica :
       /\ busy'[r].step \in {"rotate", "logout"} /\ busy'[r].step # busy[r].step =>
            spent[busy'[r].token] = 0
       /\ busy'[r].step = "exchange" /\ busy[r].step # "exchange" =>
            \A t \in 0..MaxTime : exchanges[t] > 0 => t + PodTTL <= now]_vars

\* The blacklist outlives what it blacklists: while a token that was used has not expired,
\* every replica finds it there ...
UsedOutlivesExpiry ==
  \A t \in 1..made : spent[t] > 0 /\ Valid(t) => \A r \in Replica : Listed(r, t)

\* ... and while a token issued before the user was revoked has not expired, every
\* replica finds the user revoked.
RevocationOutlivesTokens ==
  \A t \in 1..mark : Valid(t) => \A r \in Replica : Listed(r, UserRevoked)

\* What blocks a token lives as long as the token: the entry of a used one, and the revocation
\* of all those a replayed one stood for.
EntriesOutliveTokens == UsedOutlivesExpiry /\ RevocationOutlivesTokens

\* All callers are the user's own, so nothing is a replay and nobody is revoked.
NoFalseReplay ==
  redis[UserRevoked] = 0 /\ \A r \in Replica : memory[r][UserRevoked] = 0

\* It takes two requests of one browser under way together, each with the token the other uses,
\* to have the user revoked: a daemon, a dashboard, a chat page and a tab at two replicas never
\* do, nor does a logout that waits for the tab's refresh.
OnlyCrossingsRevoke == ~crossed => NoFalseReplay
============================================================================
