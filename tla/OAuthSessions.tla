--------------------------- MODULE OAuthSessions ----------------------------
(***************************************************************************)
(* The OAuth sessions of one user with one provider (utils/oauth.py,       *)
(* models/oauth_sessions.py): sign-in with its limit, disconnection,       *)
(* logout over the back channel, and the refresh of a token by whatever    *)
(* request needs one.  Each session holds a refresh token that its         *)
(* provider honours; a provider that rotates them honours each once.       *)
(* Sessions are numbered in order of creation, tokens by version.          *)
(***************************************************************************)
EXTENDS Naturals, FiniteSets, FiniteSetsExt

CONSTANTS Requests,     \* requests that may run at once
          MaxPerUser,   \* OAUTH_MAX_SESSIONS_PER_USER
          MaxSessions,  \* bound: sessions ever created
          MaxCalls      \* bound: requests ever made

VARIABLES manager,    \* "sso": OAuthManager, "client": OAuthClientManager
          rotates,    \* the provider hands out a new refresh token each time
          store,      \* session -> [token, fresh, touched]
          honoured,   \* session -> refresh token the provider honours, 0 none
          call,       \* request -> what it is doing
          created,    \* sessions ever created
          calls,      \* requests made
          writes,     \* writes of rows, for updated_at
          disturbed,  \* sessions with overlapping or broken refreshes
          crowded     \* did two sign-ins overlap?

vars == <<manager, rotates, store, honoured, call, created, calls, writes, disturbed, crowded>>
setup == <<manager, rotates>>

Idle == [kind |-> "none", at |-> "idle", on |-> 0, token |-> 0, left |-> {}, fell |-> FALSE]
Refreshing(s) == {h \in Requests : call[h].at \in {"exchange", "update", "drop"} /\ call[h].on = s}
Newest(n) == {s \in DOMAIN store : Cardinality({x \in DOMAIN store : x > s}) < n}
Last == CHOOSE s \in DOMAIN store : \A x \in DOMAIN store : store[x].touched <= store[s].touched
Without(sessions) == [s \in DOMAIN store \ sessions |-> store[s]]
Goto(h, at) == call' = [call EXCEPT ![h].at = at]
End(h) == call' = [call EXCEPT ![h] = Idle]

Init ==
    /\ manager \in {"sso", "client"} /\ rotates \in BOOLEAN
    /\ store = <<>> /\ honoured = <<>>
    /\ call = [h \in Requests |-> Idle]
    /\ created = 0 /\ calls = 0 /\ writes = 0
    /\ disturbed = {} /\ crowded = FALSE

-----------------------------------------------------------------------------
(* Requests. *)

Start(h, record) ==
    /\ call[h].at = "idle"
    /\ calls < MaxCalls
    /\ calls' = calls + 1
    /\ call' = [call EXCEPT ![h] = record]
    /\ UNCHANGED <<setup, store, honoured, created, writes, disturbed>>

\* Sessions a sign-in removes: all of a client's, or all but the newest MAX - 1.
Surplus == IF manager = "client" THEN DOMAIN store ELSE DOMAIN store \ Newest(MaxPerUser - 1)

SignIn(h) ==
    /\ crowded' = (crowded \/ \E x \in Requests : call[x].kind = "signin")
    /\ Start(h, [Idle EXCEPT !.kind = "signin", !.at = "prune", !.left = Surplus])

\* handle_backchannel_logout: the sessions it finds go one by one.
Logout(h) ==
    /\ store # <<>>
    /\ Start(h, [Idle EXCEPT !.kind = "logout", !.at = "prune", !.left = DOMAIN store])
    /\ UNCHANGED crowded

\* delete_oauth_session_by_provider, one transaction.
Disconnect ==
    /\ store # <<>> /\ calls < MaxCalls
    /\ calls' = calls + 1
    /\ store' = <<>>
    /\ UNCHANGED <<setup, honoured, call, created, writes, disturbed, crowded>>

\* get_oauth_token: of the session in the cookie, or of the newest of the client.
GetToken(h, s) ==
    /\ manager = "client" => DOMAIN store # {} /\ s = Max(DOMAIN store)
    /\ Start(h, [Idle EXCEPT !.kind = "token", !.at = "load", !.on = s])
    /\ UNCHANGED crowded

-----------------------------------------------------------------------------
(* Sign-in and logout, one deletion at a time. *)

Prune(h, s) ==
    /\ call[h].at = "prune"
    /\ s \in call[h].left
    /\ store' = Without({s})
    /\ call' = [call EXCEPT ![h].left = @ \ {s}]
    /\ UNCHANGED <<setup, honoured, created, calls, writes, disturbed, crowded>>

Pruned(h) ==
    /\ call[h].at = "prune" /\ call[h].left = {}
    /\ IF call[h].kind = "signin"
       THEN /\ created < MaxSessions
            /\ created' = created + 1
            /\ store' = [s \in DOMAIN store \cup {created + 1} |->
                           IF s = created + 1 THEN [token |-> 1, fresh |-> TRUE, touched |-> writes + 1]
                           ELSE store[s]]
            /\ honoured' = [s \in DOMAIN honoured \cup {created + 1} |->
                              IF s = created + 1 THEN 1 ELSE honoured[s]]
            /\ writes' = writes + 1
       ELSE UNCHANGED <<store, honoured, created, writes>>
    /\ End(h)
    /\ UNCHANGED <<setup, calls, disturbed, crowded>>

-----------------------------------------------------------------------------
(* get_oauth_token, _refresh_token, _perform_token_refresh. *)

rest == <<setup, honoured, created, calls, writes, disturbed, crowded>>

\* No token: a request with a session goes on to the one updated last, once.
Fails(h) ==
    call' = [call EXCEPT ![h] = IF manager = "sso" /\ ~@.fell THEN [@ EXCEPT !.at = "fallback"]
                                ELSE Idle]

Load(h) ==
    LET s == call[h].on
    IN /\ call[h].at = "load"
       /\ IF s \notin DOMAIN store THEN Fails(h) /\ UNCHANGED disturbed
          ELSE IF store[s].fresh THEN End(h) /\ UNCHANGED disturbed
          ELSE /\ call' = [call EXCEPT ![h].at = "exchange", ![h].token = store[s].token]
               /\ disturbed' = IF Refreshing(s) = {} THEN disturbed ELSE disturbed \cup {s}
       /\ UNCHANGED <<setup, store, honoured, created, calls, writes, crowded>>

\* get_system_oauth_token: no cookie, or no token for it.
FallBack(h) ==
    /\ call[h].at = "fallback"
    /\ IF DOMAIN store = {} THEN End(h)
       ELSE call' = [call EXCEPT ![h].at = "load", ![h].on = Last, ![h].fell = TRUE]
    /\ UNCHANGED <<store, rest>>

\* Mutant: a refresh token the answer does not repeat is gone.
MergedBare(token) == IF rotates THEN token + 1 ELSE 0

\* The refresh token after an exchange: the new one, or the one used.
Merged(token) == IF rotates THEN token + 1 ELSE token

\* The provider accepts the token, and its answer arrives.
Exchange(h) ==
    LET s == call[h].on
    IN /\ call[h].at = "exchange"
       /\ IF call[h].token # 0 /\ call[h].token = honoured[s]
          THEN /\ honoured' = [honoured EXCEPT ![s] = IF rotates THEN @ + 1 ELSE @]
               /\ call' = [call EXCEPT ![h].at = "update", ![h].token = Merged(@)]
          ELSE Goto(h, "drop") /\ UNCHANGED honoured
       /\ UNCHANGED <<setup, store, created, calls, writes, disturbed, crowded>>

\* The provider cannot be reached, or its answer is lost.
ExchangeBreaks(h) ==
    LET s == call[h].on
    IN /\ call[h].at = "exchange"
       /\ \/ UNCHANGED honoured
          \/ /\ rotates /\ call[h].token = honoured[s]
             /\ honoured' = [honoured EXCEPT ![s] = @ + 1]
       /\ Goto(h, "drop")
       /\ disturbed' = disturbed \cup {s}
       /\ UNCHANGED <<setup, store, created, calls, writes, crowded>>

\* update_session_by_id; a row that is gone gives no token.
Update(h) ==
    LET s == call[h].on
    IN /\ call[h].at = "update"
       /\ IF s \in DOMAIN store
          THEN /\ store' = [store EXCEPT ![s] =
                              [token |-> call[h].token, fresh |-> TRUE, touched |-> writes + 1]]
               /\ writes' = writes + 1
               /\ End(h)
          ELSE Goto(h, "drop") /\ UNCHANGED <<store, writes>>
       /\ UNCHANGED <<setup, honoured, created, calls, disturbed, crowded>>

\* Whatever the reason, a refresh that failed deletes the session.
Drop(h) ==
    /\ call[h].at = "drop"
    /\ store' = Without({call[h].on})
    /\ Fails(h)
    /\ UNCHANGED rest

-----------------------------------------------------------------------------
(* The environment: tokens expire, the user withdraws a grant, a process dies. *)

Expire(s) ==
    /\ store[s].fresh
    /\ store' = [store EXCEPT ![s].fresh = FALSE]
    /\ UNCHANGED <<call, rest>>

Revoke(s) ==
    /\ honoured[s] # 0
    /\ honoured' = [honoured EXCEPT ![s] = 0]
    /\ UNCHANGED <<setup, store, call, created, calls, writes, disturbed, crowded>>

Die(h) ==
    /\ call[h].at # "idle"
    /\ disturbed' = IF call[h].at = "update" THEN disturbed \cup {call[h].on} ELSE disturbed
    /\ End(h)
    /\ UNCHANGED <<setup, store, honoured, created, calls, writes, crowded>>

Next ==
    \/ Disconnect
    \/ \E s \in DOMAIN store : Expire(s) \/ Revoke(s)
    \/ \E h \in Requests :
        \/ SignIn(h) \/ Logout(h) \/ \E s \in 1 .. created : GetToken(h, s)
        \/ \E s \in call[h].left : Prune(h, s)
        \/ Pruned(h) \/ Load(h) \/ FallBack(h) \/ Exchange(h) \/ ExchangeBreaks(h)
        \/ Update(h) \/ Drop(h) \/ Die(h)

Spec == Init /\ [][Next]_vars

-----------------------------------------------------------------------------
(* Properties. *)

TypeOK ==
    /\ DOMAIN store \subseteq 1 .. created /\ DOMAIN honoured = 1 .. created
    /\ \A s \in DOMAIN store :
          store[s] \in [token : 0 .. MaxCalls, fresh : BOOLEAN, touched : 1 .. writes]
    /\ disturbed \subseteq 1 .. created /\ crowded \in BOOLEAN
    /\ \A h \in Requests : call[h].on \in 0 .. created /\ call[h].left \subseteq 1 .. created

\* A session holds the refresh token its provider honours, if it honours any:
\* unless the refreshes of the session overlap, or one is cut between the
\* provider and the row (oauth.py:1026-1038, 1041-1124).
StoredIsHonoured ==
    \A s \in DOMAIN store :
        s \in disturbed \/ honoured[s] = 0 \/ (\E h \in Requests : call[h].at = "update" /\ call[h].on = s)
            \/ store[s].token = honoured[s]

\* "Enforce max concurrent sessions per user/provider": as long as sign-ins run
\* one after the other (oauth.py:2003-2014, 1173-1177).
LimitHolds ==
    ~crowded => Cardinality(DOMAIN store) <= IF manager = "client" THEN 1 ELSE MaxPerUser

\* The sessions of a user are as many as they may be, with tokens of use.
SessionsHonoured == StoredIsHonoured /\ LimitHolds

\* "with concurrency protection": a refresh that fails deletes the session as
\* it loaded it, not one that another request has renewed (oauth.py:1002-1016).
RefreshKeepsRenewed ==
    \A h \in Requests :
        call[h].at = "drop" /\ call[h].on \in DOMAIN store => store[call[h].on].token = call[h].token
=============================================================================
