---------------------------- MODULE PluginSignIn ----------------------------
(* The row of plugin_oauth of one server and everybody who writes it at once: *)
(* the sign-ins of Connect and of the SDK's transport, the callbacks they come *)
(* back by, the health check and the turns that refresh an expired token, and  *)
(* Disconnect (plugins/oauth.ts, plugins/connection-health.ts,                 *)
(* api/plugin-oauth.ts).  A sign-in is a number, which stands for its state    *)
(* and its code verifier; a token is a number too.                             *)
EXTENDS Naturals

CONSTANTS
    Refreshers,     \* the health check and the turns that call ensureConnected()
    Health,         \* the health check
    Callbacks,      \* requests of the callback, a page that was reloaded included
    MaxSignIns, MaxTokens, MaxDisconnects

ASSUME SignInAssumption ==
    /\ Health \in Refreshers
    /\ MaxSignIns \in Nat /\ MaxTokens \in Nat /\ MaxDisconnects \in Nat

VARIABLES
    state, verifier,    \* of the pending sign-in, 0 if none
    tokens,             \* the stored token, 0 if none
    refreshError,
    aged,               \* the row was written more than ten minutes ago
    honoured,           \* at the authorization server: refresh tokens it takes
    expired,            \* access tokens that are over or about to be
    issued,             \* tokens issued
    signIn,             \* where every sign-in is
    callback,           \* where every callback is, and what it has read
    refresh,            \* where every refresh is, and what it has read
    disconnect,         \* what Disconnect has yet to write
    claims,             \* noted: how often a state was claimed
    alone,              \* noted: sign-ins that nothing crossed
    disconnects

row == <<state, verifier, tokens, refreshError, aged>>
provider == <<honoured, expired, issued>>
vars == <<state, verifier, tokens, refreshError, aged, honoured, expired, issued, signIn, callback,
          refresh, disconnect, claims, alone, disconnects>>

SignIns == 1..MaxSignIns
Tokens == 1..MaxTokens

NoCallback == [at |-> "no", of |-> 0, verifier |-> 0, token |-> 0]
Idle == [at |-> "idle", token |-> 0, error |-> FALSE]

Init ==
    /\ state = 0 /\ verifier = 0 /\ tokens = 0 /\ refreshError = FALSE /\ aged = FALSE
    /\ honoured = {} /\ expired = {} /\ issued = 0
    /\ signIn = [n \in SignIns |-> "none"]
    /\ callback = [c \in Callbacks |-> NoCallback]
    /\ refresh = [r \in Refreshers |-> Idle]
    /\ disconnect = "no" /\ disconnects = 0
    /\ claims = [n \in SignIns |-> 0] /\ alone = {}

(* write(): every one renews updatedAt. *)
Write == aged' = FALSE

Connected == tokens # 0 /\ tokens \notin expired

(***************************************************************************)
(* The authorization server                                                *)
(***************************************************************************)
Issue == issued < MaxTokens /\ issued' = issued + 1

Expires ==
    /\ \E t \in 1..issued \ expired : expired' = expired \cup {t}
    /\ UNCHANGED <<row, honoured, issued, signIn, callback, refresh, disconnect, claims, alone, disconnects>>

Revokes ==
    /\ \E t \in honoured : honoured' = honoured \ {t}
    /\ UNCHANGED <<row, expired, issued, signIn, callback, refresh, disconnect, claims, alone, disconnects>>

Ages ==
    /\ ~aged /\ aged' = TRUE
    /\ alone' = {}
    /\ UNCHANGED <<state, verifier, tokens, refreshError, provider, signIn, callback, refresh, disconnect,
                   claims, disconnects>>

(***************************************************************************)
(* A sign-in: POST connect, or a transport that was answered 401           *)
(***************************************************************************)
(* One that waits for consent writes nothing. *)
Crossing ==
    \/ \E n \in SignIns : signIn[n] \notin {"none", "consent", "over"}
    \/ \E c \in Callbacks : callback[c].at \notin {"no", "connected", "failed"}
    \/ disconnect # "no"

Starts(n) ==
    /\ signIn[n] = "none" /\ \A m \in SignIns : m < n => signIn[m] # "none"
    /\ alone' = IF Crossing THEN {} ELSE {n}

(* setConnectionAttempt(); a reconnect forgets the token. *)
Connect(n, reconnect) ==
    /\ Starts(n)
    /\ signIn' = [signIn EXCEPT ![n] = "look"]
    /\ tokens' = IF reconnect THEN 0 ELSE tokens
    /\ Write
    /\ UNCHANGED <<state, verifier, refreshError, provider, callback, refresh, disconnect, claims, disconnects>>

(* connected() and, if not, connectPluginServer(), which writes the scopes. *)
Looks(n) ==
    /\ signIn[n] = "look"
    /\ signIn' = [signIn EXCEPT ![n] = IF Connected THEN "over" ELSE "auth"]
    /\ IF Connected THEN UNCHANGED aged ELSE Write
    /\ UNCHANGED <<state, verifier, tokens, refreshError, provider, callback, refresh, disconnect,
                   claims, alone, disconnects>>

(* The transport of a turn calls auth() by itself: nobody will consent. *)
Unauthorized(n) ==
    /\ tokens # 0 /\ Starts(n)
    /\ signIn' = [signIn EXCEPT ![n] = "retry"]
    /\ UNCHANGED <<row, provider, callback, refresh, disconnect, claims, disconnects>>

(* auth() refreshes a token that is still there. *)
Refreshes(n) ==
    /\ signIn[n] \in {"auth", "retry"}
    /\ tokens \in honoured /\ Issue
    /\ honoured' = (honoured \ {tokens}) \cup {issued + 1}
    /\ tokens' = issued + 1 /\ refreshError' = FALSE /\ Write
    /\ signIn' = [signIn EXCEPT ![n] = "over"]
    /\ UNCHANGED <<state, verifier, expired, callback, refresh, disconnect, claims, alone, disconnects>>

(* There is none, or the server refuses it: auth() asks for consent. *)
SavesState(n) ==
    /\ signIn[n] \in {"auth", "retry"} /\ tokens \notin honoured
    /\ \E forget \in BOOLEAN : tokens' = IF forget THEN 0 ELSE tokens
    /\ state' = n /\ Write
    /\ signIn' = [signIn EXCEPT ![n] = IF @ = "auth" THEN "verifier" ELSE "unasked"]
    /\ UNCHANGED <<verifier, refreshError, provider, callback, refresh, disconnect, claims, alone, disconnects>>

(* saveCodeVerifier(), and the redirect; a tool call that failed so marks the *)
(* token expired.                                                            *)
SavesVerifier(n) ==
    /\ signIn[n] \in {"verifier", "unasked"}
    /\ verifier' = n /\ Write
    /\ IF signIn[n] = "unasked" THEN tokens' = 0 /\ refreshError' = TRUE ELSE UNCHANGED <<tokens, refreshError>>
    /\ signIn' = [signIn EXCEPT ![n] = IF @ = "verifier" THEN "consent" ELSE "over"]
    /\ UNCHANGED <<state, provider, callback, refresh, disconnect, claims, alone, disconnects>>

(***************************************************************************)
(* The callback                                                            *)
(***************************************************************************)
Goes(c, place) == callback' = [callback EXCEPT ![c].at = place]

(* The person has consented; the page may come twice.  What crosses a sign-in *)
(* is its own second page, and the page of another one whose state is stored. *)
Returns(c, n) ==
    /\ callback[c].at = "no" /\ signIn[n] \in {"consent", "over"}
    /\ signIn[n] = "over" => \E d \in Callbacks : callback[d].of = n
    /\ callback' = [callback EXCEPT ![c] = [NoCallback EXCEPT !.at = IF state = n THEN "claim" ELSE "failed", !.of = n]]
    /\ signIn' = [signIn EXCEPT ![n] = "over"]
    /\ alone' = {m \in alone : IF m = n THEN signIn[n] # "over" ELSE state # n}
    /\ UNCHANGED <<row, provider, refresh, disconnect, claims, disconnects>>

(* A slip in Claims: what was found is taken. *)
ClaimsFound(c) ==
    /\ callback[c].at = "claim"
    /\ state' = 0
    /\ claims' = [claims EXCEPT ![callback[c].of] = @ + 1]
    /\ Goes(c, "read")
    /\ UNCHANGED <<verifier, tokens, refreshError, aged, provider, signIn, refresh, disconnect, alone, disconnects>>

(* claimState(): UPDATE ... WHERE state = ... *)
Claims(c) ==
    /\ callback[c].at = "claim"
    /\ IF state = callback[c].of /\ ~aged
       THEN /\ state' = 0
            /\ claims' = [claims EXCEPT ![callback[c].of] = @ + 1]
            /\ Goes(c, "read")
       ELSE Goes(c, "failed") /\ UNCHANGED <<state, claims>>
    /\ UNCHANGED <<verifier, tokens, refreshError, aged, provider, signIn, refresh, disconnect, alone, disconnects>>

(* codeVerifier() *)
Reads(c) ==
    /\ callback[c].at = "read"
    /\ callback' = [callback EXCEPT ![c].at = IF verifier = 0 THEN "clean" ELSE "exchange", ![c].verifier = verifier]
    /\ UNCHANGED <<row, provider, signIn, refresh, disconnect, claims, alone, disconnects>>

(* The server compares the verifier with the challenge of the sign-in. *)
Exchanges(c) ==
    /\ callback[c].at = "exchange"
    /\ IF callback[c].verifier = callback[c].of
       THEN /\ Issue
            /\ honoured' = honoured \cup {issued + 1}
            /\ callback' = [callback EXCEPT ![c].at = "save", ![c].verifier = 0, ![c].token = issued + 1]
       ELSE /\ callback' = [callback EXCEPT ![c].at = "clean", ![c].verifier = 0]
            /\ UNCHANGED <<honoured, issued>>
    /\ UNCHANGED <<row, expired, signIn, refresh, disconnect, claims, alone, disconnects>>

Saves(c) ==
    /\ callback[c].at = "save"
    /\ tokens' = callback[c].token /\ refreshError' = FALSE /\ Write
    /\ Goes(c, "clean")
    /\ UNCHANGED <<state, verifier, provider, signIn, refresh, disconnect, claims, alone, disconnects>>

(* finally: invalidateCredentials("verifier"), whoever's they are by now. *)
Cleans(c) ==
    /\ callback[c].at = "clean"
    /\ state' = 0 /\ verifier' = 0 /\ Write
    /\ Goes(c, IF callback[c].token = 0 THEN "failed" ELSE "resume")
    /\ UNCHANGED <<tokens, refreshError, provider, signIn, refresh, disconnect, claims, alone, disconnects>>

(* resumeConnections(): the connection must be there. *)
Resumes(c) ==
    /\ callback[c].at = "resume"
    /\ callback' = [callback EXCEPT ![c].at = IF tokens # 0 /\ ~refreshError THEN "connected" ELSE "failed",
                                    ![c].token = 0]
    /\ UNCHANGED <<row, provider, signIn, refresh, disconnect, claims, alone, disconnects>>

(***************************************************************************)
(* Refreshing: checkHealth() and ensureConnected()                         *)
(***************************************************************************)
(* The check leaves a sign-in of the last ten minutes alone, and refreshes a  *)
(* token already in its last hour.                                           *)
RefreshStarts(r) ==
    /\ refresh[r].at = "idle"
    /\ r = Health => state = 0 \/ aged
    /\ \E due \in {tokens # 0 /\ tokens \in expired} \cup (IF r = Health THEN {tokens # 0} ELSE {}) :
        refresh' = [refresh EXCEPT ![r] =
                    IF due THEN [Idle EXCEPT !.at = "auth"]
                    ELSE IF r = Health THEN [Idle EXCEPT !.at = "note", !.error = tokens = 0 /\ refreshError]
                    ELSE Idle]
    /\ UNCHANGED <<row, provider, signIn, callback, disconnect, claims, alone, disconnects>>

RefreshReads(r) ==
    /\ refresh[r].at = "auth"
    /\ refresh' = [refresh EXCEPT ![r].at = "call", ![r].token = tokens]
    /\ UNCHANGED <<row, provider, signIn, callback, disconnect, claims, alone, disconnects>>

RefreshCalls(r) ==
    /\ refresh[r].at = "call"
    /\ refresh[r].token \in honoured /\ Issue
    /\ honoured' = (honoured \ {refresh[r].token}) \cup {issued + 1}
    /\ refresh' = [refresh EXCEPT ![r].at = "save", ![r].token = issued + 1]
    /\ UNCHANGED <<row, expired, signIn, callback, disconnect, claims, alone, disconnects>>

Ended(r, error) == IF r = Health THEN [Idle EXCEPT !.at = "note", !.error = error] ELSE Idle

RefreshSaves(r) ==
    /\ refresh[r].at = "save"
    /\ tokens' = refresh[r].token /\ refreshError' = FALSE /\ Write
    /\ refresh' = [refresh EXCEPT ![r] = Ended(r, FALSE)]
    /\ UNCHANGED <<state, verifier, provider, signIn, callback, disconnect, claims, alone, disconnects>>

Taken == {c \in Callbacks : callback[c].at \in {"clean", "resume"} /\ callback[c].token # 0}

(* A slip in RefreshFails: auth() may go on to a new authorization. *)
RefreshFailsOver(r) ==
    /\ refresh[r].at = "call" /\ refresh[r].token \notin honoured
    /\ tokens' = 0 /\ Write
    /\ state' = 0
    /\ refreshError' = IF r = Health THEN refreshError ELSE TRUE
    /\ refresh' = [refresh EXCEPT ![r] = Ended(r, TRUE)]
    /\ alone' = IF Taken = {} THEN alone ELSE {}
    /\ UNCHANGED <<verifier, provider, signIn, callback, disconnect, claims, disconnects>>

(* The server refuses: state() throws, and the stored token is forgotten,    *)
(* whichever it is by now.                                                   *)
RefreshFails(r) ==
    /\ refresh[r].at = "call" /\ refresh[r].token \notin honoured
    /\ tokens' = 0 /\ Write
    /\ refreshError' = IF r = Health THEN refreshError ELSE TRUE
    /\ refresh' = [refresh EXCEPT ![r] = Ended(r, TRUE)]
    /\ alone' = IF Taken = {} THEN alone ELSE {}
    /\ UNCHANGED <<state, verifier, provider, signIn, callback, disconnect, claims, disconnects>>

(* The check writes what it found; updatedAt stays. *)
Notes ==
    /\ refresh[Health].at = "note"
    /\ refreshError' = refresh[Health].error
    /\ refresh' = [refresh EXCEPT ![Health] = Idle]
    /\ alone' = IF Taken = {} \/ ~refresh[Health].error THEN alone ELSE {}
    /\ UNCHANGED <<state, verifier, tokens, aged, provider, signIn, callback, disconnect, claims, disconnects>>

(***************************************************************************)
(* Disconnect                                                              *)
(***************************************************************************)
Disconnect ==
    /\ disconnect = "no" /\ disconnects < MaxDisconnects
    /\ disconnects' = disconnects + 1
    /\ tokens' = 0 /\ Write
    /\ disconnect' = "verifier" /\ alone' = {}
    /\ UNCHANGED <<state, verifier, refreshError, provider, signIn, callback, refresh, claims>>

DisconnectGoesOn ==
    /\ \/ /\ disconnect = "verifier" /\ disconnect' = "errors"
          /\ state' = 0 /\ verifier' = 0 /\ UNCHANGED refreshError
       \/ /\ disconnect = "errors" /\ disconnect' = "no"
          /\ refreshError' = FALSE /\ UNCHANGED <<state, verifier>>
    /\ Write
    /\ UNCHANGED <<tokens, provider, signIn, callback, refresh, claims, alone, disconnects>>

Next ==
    \/ Expires \/ Revokes \/ Ages
    \/ \E n \in SignIns :
        \/ \E reconnect \in BOOLEAN : Connect(n, reconnect)
        \/ Looks(n) \/ Unauthorized(n) \/ Refreshes(n) \/ SavesState(n) \/ SavesVerifier(n)
    \/ \E c \in Callbacks :
        \/ \E n \in SignIns : Returns(c, n)
        \/ Claims(c) \/ Reads(c) \/ Exchanges(c) \/ Saves(c) \/ Cleans(c) \/ Resumes(c)
    \/ \E r \in Refreshers :
        RefreshStarts(r) \/ RefreshReads(r) \/ RefreshCalls(r) \/ RefreshSaves(r) \/ RefreshFails(r)
    \/ Notes \/ Disconnect \/ DisconnectGoesOn

Spec == Init /\ [][Next]_vars

(***************************************************************************)
(* Properties                                                              *)
(***************************************************************************)
Places == {"none", "look", "auth", "retry", "verifier", "unasked", "consent", "over"}

CallbackState ==
    [at : {"no", "claim", "read", "exchange", "save", "clean", "resume", "connected", "failed"},
     of : 0..MaxSignIns, verifier : 0..MaxSignIns, token : 0..MaxTokens]

RefreshState == [at : {"idle", "auth", "call", "save", "note"}, token : 0..MaxTokens, error : BOOLEAN]

(* Every variable keeps its type, and a state is claimed once, however often *)
(* the page of the callback comes back (oauth.ts:147-153).                   *)
TypeOK ==
    /\ state \in 0..MaxSignIns /\ verifier \in 0..MaxSignIns
    /\ tokens \in 0..MaxTokens /\ issued \in 0..MaxTokens
    /\ refreshError \in BOOLEAN /\ aged \in BOOLEAN
    /\ honoured \subseteq Tokens /\ expired \subseteq Tokens
    /\ signIn \in [SignIns -> Places]
    /\ callback \in [Callbacks -> CallbackState]
    /\ refresh \in [Refreshers -> RefreshState]
    /\ disconnect \in {"no", "verifier", "errors"} /\ disconnects \in 0..MaxDisconnects
    /\ claims \in [SignIns -> 0..1]
    /\ alone \subseteq SignIns

(* A sign-in that the person consents to ends connected, unless another one,  *)
(* a second page, Disconnect or ten minutes crossed it, or a refresh that      *)
(* failed forgot its token: a refresh never disturbs a pending consent         *)
(* (oauth.ts:95, :139, :144; plugin-oauth.ts:30-37).                           *)
LoneSignInConnects == \A c \in Callbacks : callback[c].at = "failed" => callback[c].of \notin alone
=============================================================================
