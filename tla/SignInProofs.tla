---------------------------- MODULE SignInProofs ----------------------------
(***************************************************************************)
(* PluginSignIn, for every number of sign-ins, callbacks, refreshers and   *)
(* tokens: its types, that a state is claimed at most once, and that a     *)
(* sign-in which nothing crosses ends connected.                           *)
(***************************************************************************)
EXTENDS PluginSignIn, TLAPS

(* The first time a state is stored it has not been claimed, and claiming  *)
(* removes it.                                                             *)
Unstored == {"none", "look", "auth", "retry"}

ClaimedOnce ==
    \A n \in SignIns :
        /\ signIn[n] \in Unstored => state # n /\ claims[n] = 0
        /\ state = n => claims[n] = 0

(* A callback is for a sign-in, and what is about to be saved is a token.  *)
Carried ==
    /\ \A c \in Callbacks :
        /\ callback[c].at = "no" <=> callback[c].of = 0
        /\ callback[c].of # 0 => signIn[callback[c].of] = "over"
        /\ callback[c].at = "save" => callback[c].token # 0
    /\ \A r \in Refreshers : refresh[r].at = "save" => refresh[r].token # 0

(* The callback of a sign-in that nothing crossed has all it needs.        *)
Provided(c) ==
    /\ callback[c].at # "failed"
    /\ callback[c].at = "claim" => state = callback[c].of /\ ~aged
    /\ callback[c].at \in {"claim", "read"} => verifier = callback[c].of
    /\ callback[c].at = "exchange" => callback[c].verifier = callback[c].of
    /\ callback[c].at \in {"clean", "resume"} => callback[c].token # 0 /\ tokens # 0 /\ ~refreshError

(* Nobody else is at work on the row, and what it has written is there.    *)
Undisturbed(n) ==
    /\ alone = {n} /\ disconnect = "no" /\ signIn[n] # "none"
    /\ \A m \in SignIns \ {n} : signIn[m] \in {"none", "consent", "over"}
    /\ signIn[n] \in {"verifier", "unasked", "consent"} => state = n /\ ~aged
    /\ signIn[n] = "consent" => verifier = n
    /\ \A c \in Callbacks :
        IF callback[c].of = n
        THEN /\ signIn[n] = "over" /\ Provided(c)
             /\ \A d \in Callbacks : callback[d].of = n => d = c
        ELSE callback[c].at \in {"no", "connected", "failed"}

SignInInv == TypeOK /\ ClaimedOnce /\ Carried /\ \A n \in alone : Undisturbed(n)

(* A refresh that has not begun is a state of a refresh.                   *)
LEMMA IdleState == Idle \in RefreshState
BY SignInAssumption DEF Idle, RefreshState

(* So is one that has ended, with or without an error to note              *)
(* (connection-health.ts).                                                 *)
LEMMA EndedState == ASSUME NEW r \in Refreshers, NEW error \in BOOLEAN PROVE Ended(r, error) \in RefreshState
<1>1. Idle \in RefreshState
  BY IdleState
<1>2. [Idle EXCEPT !.at = "note", !.error = error] \in RefreshState
  BY <1>1 DEF RefreshState
<1> QED
  BY <1>1, <1>2 DEF Ended

(* A token that expires changes no row and no sign-in.                     *)
LEMMA ExpiresKeeps == ASSUME SignInInv, Expires PROVE SignInInv'
<1>1. TypeOK'
  <2>1. honoured' \subseteq Tokens /\ expired' \subseteq Tokens /\ issued' \in 0..MaxTokens
    BY SignInAssumption DEF SignInInv, TypeOK, Tokens, Expires
  <2> QED
    BY <2>1 DEF SignInInv, TypeOK, row, Expires
<1>2. ClaimedOnce'
  BY <1>1 DEF SignInInv, ClaimedOnce, Expires, row
<1>3. Carried'
  BY <1>1 DEF SignInInv, Carried, Expires
<1>4. ASSUME NEW m \in alone' PROVE Undisturbed(m)'
  BY <1>1, <1>4 DEF SignInInv, Undisturbed, Provided, Expires, row
<1> QED
  BY <1>1, <1>2, <1>3, <1>4 DEF SignInInv

(* Nor does one that the authorization server takes back.                  *)
LEMMA RevokesKeeps == ASSUME SignInInv, Revokes PROVE SignInInv'
<1>1. TypeOK'
  <2>1. honoured' \subseteq Tokens /\ expired' \subseteq Tokens /\ issued' \in 0..MaxTokens
    BY DEF SignInInv, TypeOK, Revokes
  <2> QED
    BY <2>1 DEF SignInInv, TypeOK, row, Revokes
<1>2. ClaimedOnce'
  BY <1>1 DEF SignInInv, ClaimedOnce, Revokes, row
<1>3. Carried'
  BY <1>1 DEF SignInInv, Carried, Revokes
<1>4. ASSUME NEW m \in alone' PROVE Undisturbed(m)'
  BY <1>1, <1>4 DEF SignInInv, Undisturbed, Provided, Revokes, row
<1> QED
  BY <1>1, <1>2, <1>3, <1>4 DEF SignInInv

(* Once the row is ten minutes old no sign-in is alone.                    *)
LEMMA AgesKeeps == ASSUME SignInInv, Ages PROVE SignInInv'
<1>1. TypeOK'
  <2>1. refreshError' \in BOOLEAN /\ aged' \in BOOLEAN
    BY DEF SignInInv, TypeOK, Ages
  <2>2. alone' \subseteq SignIns
    BY DEF Ages
  <2> QED
    BY <2>1, <2>2 DEF SignInInv, TypeOK, provider, Ages
<1>2. ClaimedOnce'
  BY <1>1 DEF SignInInv, ClaimedOnce, Ages
<1>3. Carried'
  BY <1>1 DEF SignInInv, Carried, Ages
<1>4. ASSUME NEW m \in alone' PROVE Undisturbed(m)'
  BY <1>1, <1>4 DEF Ages
<1> QED
  BY <1>1, <1>2, <1>3, <1>4 DEF SignInInv

(* A sign-in that begins while nobody else is at work is undisturbed.      *)
LEMMA BeginsAlone ==
    ASSUME SignInInv, NEW n \in SignIns, signIn[n] = "none", ~Crossing,
           alone' = {n}, UNCHANGED <<callback, disconnect>>,
           signIn'[n] # "none", signIn'[n] \notin {"verifier", "unasked", "consent"},
           \A k \in SignIns \ {n} : signIn'[k] = signIn[k]
    PROVE  Undisturbed(n)'
<1>1. \A c \in Callbacks : callback[c].of # n
  BY DEF SignInInv, Carried, SignIns
<1>2. \A c \in Callbacks : callback[c].at \in {"no", "connected", "failed"}
  BY DEF Crossing
<1>3. \A k \in SignIns \ {n} : signIn[k] \in {"none", "consent", "over"}
  BY DEF Crossing
<1>4. disconnect = "no"
  BY DEF Crossing
<1> QED
  BY <1>1, <1>2, <1>3, <1>4 DEF Undisturbed

(* Connect begins a sign-in; it is alone only when nobody else is at       *)
(* work.                                                                   *)
LEMMA ConnectKeeps ==
    ASSUME SignInInv, NEW n \in SignIns, NEW reconnect \in BOOLEAN, Connect(n, reconnect)
    PROVE  SignInInv'
<1>1. TypeOK'
  <2>1. state' \in 0..MaxSignIns /\ verifier' \in 0..MaxSignIns /\ tokens' \in 0..MaxTokens
    BY SignInAssumption DEF SignInInv, TypeOK, Connect
  <2>2. refreshError' \in BOOLEAN /\ aged' \in BOOLEAN
    BY DEF SignInInv, TypeOK, Write, Connect
  <2>3. signIn' \in [SignIns -> Places]
    BY DEF SignInInv, TypeOK, Places, Connect
  <2>4. alone' \subseteq SignIns
    BY DEF Connect, Starts
  <2> QED
    BY <2>1, <2>2, <2>3, <2>4 DEF SignInInv, TypeOK, provider, Connect
<1>2. ClaimedOnce'
  BY <1>1 DEF SignInInv, ClaimedOnce, Unstored, Connect, Starts
<1>3. Carried'
  BY <1>1 DEF SignInInv, Carried, Connect, Starts
<1>4. ASSUME NEW m \in alone' PROVE Undisturbed(m)'
  <2>1. m = n /\ signIn[n] = "none" /\ ~Crossing /\ disconnect' = disconnect /\ callback' = callback
    BY <1>4 DEF Connect, Starts
  <2>2. /\ signIn'[n] # "none" /\ signIn'[n] \notin {"verifier", "unasked", "consent"}
        /\ \A k \in SignIns \ {n} : signIn'[k] = signIn[k]
    BY DEF SignInInv, TypeOK, Connect
  <2> QED
    BY <1>4, <2>1, <2>2, BeginsAlone DEF Connect, Starts
<1> QED
  BY <1>1, <1>2, <1>3, <1>4 DEF SignInInv

(* connected() decides whether the sign-in goes on; no state is stored     *)
(* yet.                                                                    *)
LEMMA LooksKeeps == ASSUME SignInInv, NEW n \in SignIns, Looks(n) PROVE SignInInv'
<1>1. TypeOK'
  <2>1. refreshError' \in BOOLEAN /\ aged' \in BOOLEAN
    BY DEF SignInInv, TypeOK, Write, Looks
  <2>2. signIn' \in [SignIns -> Places]
    BY DEF SignInInv, TypeOK, Places, Looks
  <2> QED
    BY <2>1, <2>2 DEF SignInInv, TypeOK, provider, Looks
<1>2. ClaimedOnce'
  BY <1>1 DEF SignInInv, ClaimedOnce, Unstored, Looks
<1>3. Carried'
  BY <1>1 DEF SignInInv, Carried, Looks
<1>4. ASSUME NEW m \in alone' PROVE Undisturbed(m)'
  BY <1>1, <1>4 DEF SignInInv, Undisturbed, Looks
<1> QED
  BY <1>1, <1>2, <1>3, <1>4 DEF SignInInv

(* The transport of a turn begins a sign-in of its own, which crosses      *)
(* the others in progress.                                                 *)
LEMMA UnauthorizedKeeps == ASSUME SignInInv, NEW n \in SignIns, Unauthorized(n) PROVE SignInInv'
<1>1. TypeOK'
  <2>1. signIn' \in [SignIns -> Places]
    BY DEF SignInInv, TypeOK, Places, Unauthorized
  <2>2. alone' \subseteq SignIns
    BY DEF Unauthorized, Starts
  <2> QED
    BY <2>1, <2>2 DEF SignInInv, TypeOK, row, provider, Unauthorized
<1>2. ClaimedOnce'
  BY <1>1 DEF SignInInv, ClaimedOnce, Unstored, Unauthorized, row, Starts
<1>3. Carried'
  BY <1>1 DEF SignInInv, Carried, Unauthorized, Starts
<1>4. ASSUME NEW m \in alone' PROVE Undisturbed(m)'
  <2>1. m = n /\ signIn[n] = "none" /\ ~Crossing /\ disconnect' = disconnect /\ callback' = callback
    BY <1>4 DEF Unauthorized, Starts
  <2>2. /\ signIn'[n] # "none" /\ signIn'[n] \notin {"verifier", "unasked", "consent"}
        /\ \A k \in SignIns \ {n} : signIn'[k] = signIn[k]
    BY DEF SignInInv, TypeOK, Unauthorized
  <2> QED
    BY <1>4, <2>1, <2>2, BeginsAlone DEF Unauthorized, Starts
<1> QED
  BY <1>1, <1>2, <1>3, <1>4 DEF SignInInv

(* auth() refreshes the token: the sign-in is over before its state is     *)
(* stored.                                                                 *)
LEMMA RefreshesKeeps == ASSUME SignInInv, NEW n \in SignIns, Refreshes(n) PROVE SignInInv'
<1>1. TypeOK'
  <2>1. state' \in 0..MaxSignIns /\ verifier' \in 0..MaxSignIns /\ tokens' \in 0..MaxTokens
    BY SignInAssumption DEF SignInInv, TypeOK, Refreshes, Issue
  <2>2. honoured' \subseteq Tokens /\ expired' \subseteq Tokens /\ issued' \in 0..MaxTokens
    BY SignInAssumption DEF SignInInv, TypeOK, Tokens, Refreshes, Issue
  <2>3. refreshError' \in BOOLEAN /\ aged' \in BOOLEAN
    BY DEF Write, Refreshes
  <2>4. signIn' \in [SignIns -> Places]
    BY DEF SignInInv, TypeOK, Places, Refreshes
  <2> QED
    BY <2>1, <2>2, <2>3, <2>4 DEF SignInInv, TypeOK, Refreshes
<1>2. ClaimedOnce'
  BY <1>1 DEF SignInInv, ClaimedOnce, Unstored, Refreshes
<1>3. Carried'
  BY <1>1 DEF SignInInv, Carried, Refreshes
<1>4. ASSUME NEW m \in alone' PROVE Undisturbed(m)'
  BY <1>1, <1>4 DEF SignInInv, Undisturbed, Refreshes
<1> QED
  BY <1>1, <1>2, <1>3, <1>4 DEF SignInInv

(* The state is stored for the first time, by the one sign-in that is      *)
(* alone or by one that crossed it.                                        *)
LEMMA SavesStateKeeps == ASSUME SignInInv, NEW n \in SignIns, SavesState(n) PROVE SignInInv'
<1>1. TypeOK'
  <2>1. state' \in 0..MaxSignIns /\ verifier' \in 0..MaxSignIns /\ tokens' \in 0..MaxTokens
    BY SignInAssumption DEF SignInInv, TypeOK, SignIns, SavesState
  <2>2. refreshError' \in BOOLEAN /\ aged' \in BOOLEAN
    BY DEF SignInInv, TypeOK, Write, SavesState
  <2>3. signIn' \in [SignIns -> Places]
    BY DEF SignInInv, TypeOK, Places, SavesState
  <2> QED
    BY <2>1, <2>2, <2>3 DEF SignInInv, TypeOK, provider, SavesState
<1>2. ClaimedOnce'
  BY <1>1 DEF SignInInv, TypeOK, ClaimedOnce, Unstored, SavesState
<1>3. Carried'
  BY <1>1 DEF SignInInv, Carried, SavesState
<1>4. ASSUME NEW m \in alone' PROVE Undisturbed(m)'
  BY <1>1, <1>4 DEF SignInInv, Undisturbed, Write, SavesState
<1> QED
  BY <1>1, <1>2, <1>3, <1>4 DEF SignInInv

(* The verifier joins the state of the same sign-in, as nobody else        *)
(* writes the row meanwhile.                                               *)
LEMMA SavesVerifierKeeps == ASSUME SignInInv, NEW n \in SignIns, SavesVerifier(n) PROVE SignInInv'
<1>1. TypeOK'
  <2>1. state' \in 0..MaxSignIns /\ verifier' \in 0..MaxSignIns /\ tokens' \in 0..MaxTokens
    BY SignInAssumption DEF SignInInv, TypeOK, SignIns, SavesVerifier
  <2>2. refreshError' \in BOOLEAN /\ aged' \in BOOLEAN
    BY DEF SignInInv, TypeOK, Write, SavesVerifier
  <2>3. signIn' \in [SignIns -> Places]
    BY DEF SignInInv, TypeOK, Places, SavesVerifier
  <2> QED
    BY <2>1, <2>2, <2>3 DEF SignInInv, TypeOK, provider, SavesVerifier
<1>2. ClaimedOnce'
  BY <1>1 DEF SignInInv, ClaimedOnce, Unstored, SavesVerifier
<1>3. Carried'
  BY <1>1 DEF SignInInv, Carried, SavesVerifier
<1>4. ASSUME NEW m \in alone' PROVE Undisturbed(m)'
  BY <1>1, <1>4 DEF SignInInv, Undisturbed, Write, SavesVerifier
<1> QED
  BY <1>1, <1>2, <1>3, <1>4 DEF SignInInv

(* A page comes back: the first one of its sign-in finds its state,        *)
(* every other one crosses.                                                *)
LEMMA ReturnsKeeps == ASSUME SignInInv, NEW c \in Callbacks, NEW n \in SignIns, Returns(c, n) PROVE SignInInv'
<1>1. TypeOK'
  <2>1. signIn' \in [SignIns -> Places]
    BY DEF SignInInv, TypeOK, Places, Returns
  <2>2. callback[c] \in CallbackState
    BY DEF SignInInv, TypeOK
  <2>3. callback'[c] \in CallbackState
    <3>1. ASSUME NEW at \in {"claim", "failed"}
          PROVE  [NoCallback EXCEPT !.at = at, !.of = n] \in CallbackState
      <4>1. NoCallback \in CallbackState /\ n \in 0..MaxSignIns
        BY SignInAssumption DEF NoCallback, CallbackState, SignIns
      <4> QED
        BY <4>1 DEF CallbackState
    <3> QED
      BY <3>1 DEF SignInInv, TypeOK, Returns
  <2>4. callback' \in [Callbacks -> CallbackState]
    BY <2>3 DEF SignInInv, TypeOK, Returns
  <2>5. alone' \subseteq SignIns
    BY DEF SignInInv, TypeOK, Returns
  <2> QED
    BY <2>1, <2>2, <2>3, <2>4, <2>5 DEF SignInInv, TypeOK, row, provider, Returns
<1>2. ClaimedOnce'
  BY <1>1 DEF SignInInv, ClaimedOnce, Unstored, Returns, row
<1>3. Carried'
  BY <1>1 DEF SignInInv, TypeOK, SignIns, Carried, Returns
<1>4. ASSUME NEW m \in alone' PROVE Undisturbed(m)'
  BY <1>1, <1>4 DEF SignInInv, TypeOK, Undisturbed, Provided, Returns, row
<1> QED
  BY <1>1, <1>2, <1>3, <1>4 DEF SignInInv

(* The claim removes the state, so that no second one finds it: of a       *)
(* sign-in that is alone it finds it.                                      *)
LEMMA ClaimsKeeps == ASSUME SignInInv, NEW c \in Callbacks, Claims(c) PROVE SignInInv'
<1>1. TypeOK'
  <2>1. state' \in 0..MaxSignIns /\ verifier' \in 0..MaxSignIns /\ tokens' \in 0..MaxTokens
    BY SignInAssumption DEF SignInInv, TypeOK, Claims
  <2>2. callback[c] \in CallbackState
    BY DEF SignInInv, TypeOK
  <2>3. callback'[c] \in CallbackState
    BY <2>2 DEF SignInInv, TypeOK, CallbackState, Claims, Goes
  <2>4. callback' \in [Callbacks -> CallbackState]
    BY <2>3 DEF SignInInv, TypeOK, Claims, Goes
  <2>5. claims' \in [SignIns -> 0..1]
    <3>1. CASE state = callback[c].of /\ ~aged
      <4>1. callback[c].of \in SignIns /\ claims[callback[c].of] = 0
        BY <2>2, <3>1 DEF SignInInv, CallbackState, SignIns, ClaimedOnce, Carried, Claims
      <4> QED
        BY <3>1, <4>1 DEF SignInInv, TypeOK, Claims
    <3> QED
      BY <3>1 DEF SignInInv, TypeOK, Claims
  <2> QED
    BY <2>1, <2>2, <2>3, <2>4, <2>5 DEF SignInInv, TypeOK, provider, Claims
<1>2. ClaimedOnce'
  BY <1>1 DEF SignInInv, TypeOK, SignIns, ClaimedOnce, Claims
<1>3. /\ \A d \in Callbacks \ {c} : callback'[d] = callback[d]
      /\ callback'[c].of = callback[c].of /\ callback'[c].at \in {"read", "failed"}
      /\ callback'[c].at = "failed" => ~(state = callback[c].of /\ ~aged)
  BY DEF SignInInv, TypeOK, CallbackState, Claims, Goes
<1>4. Carried'
  BY <1>3 DEF SignInInv, Carried, Claims
<1>5. ASSUME NEW m \in alone' PROVE Undisturbed(m)'
  BY <1>3, <1>5 DEF SignInInv, Undisturbed, Provided, Claims
<1> QED
  BY <1>1, <1>2, <1>4, <1>5 DEF SignInInv

(* The callback of a sign-in that is alone reads the verifier of that      *)
(* sign-in.                                                                *)
LEMMA ReadsKeeps == ASSUME SignInInv, NEW c \in Callbacks, Reads(c) PROVE SignInInv'
<1>1. TypeOK'
  <2>1. callback[c] \in CallbackState
    BY DEF SignInInv, TypeOK
  <2>2. callback'[c] \in CallbackState
    BY <2>1 DEF SignInInv, TypeOK, CallbackState, Reads
  <2>3. callback' \in [Callbacks -> CallbackState]
    BY <2>2 DEF SignInInv, TypeOK, Reads
  <2> QED
    BY <2>1, <2>2, <2>3 DEF SignInInv, TypeOK, row, provider, Reads
<1>2. ClaimedOnce'
  BY <1>1 DEF SignInInv, ClaimedOnce, Reads, row
<1>3. Carried'
  BY <1>1 DEF SignInInv, TypeOK, Carried, Reads
<1>4. ASSUME NEW m \in alone' PROVE Undisturbed(m)'
  BY <1>1, <1>4 DEF SignInInv, TypeOK, SignIns, Undisturbed, Provided, Reads
<1> QED
  BY <1>1, <1>2, <1>3, <1>4 DEF SignInInv

(* The server takes that verifier and issues a token.                      *)
LEMMA ExchangesKeeps == ASSUME SignInInv, NEW c \in Callbacks, Exchanges(c) PROVE SignInInv'
<1>1. TypeOK'
  <2>1. honoured' \subseteq Tokens /\ expired' \subseteq Tokens /\ issued' \in 0..MaxTokens
    BY SignInAssumption DEF SignInInv, TypeOK, Tokens, Exchanges, Issue
  <2>2. callback[c] \in CallbackState
    BY DEF SignInInv, TypeOK
  <2>3. callback'[c] \in CallbackState
    BY <2>2, SignInAssumption DEF SignInInv, TypeOK, CallbackState, Exchanges
  <2>4. callback' \in [Callbacks -> CallbackState]
    BY <2>3 DEF SignInInv, TypeOK, Exchanges
  <2> QED
    BY <2>1, <2>2, <2>3, <2>4 DEF SignInInv, TypeOK, row, Exchanges
<1>2. ClaimedOnce'
  BY <1>1 DEF SignInInv, ClaimedOnce, Exchanges, row
<1>3. /\ \A d \in Callbacks \ {c} : callback'[d] = callback[d]
      /\ callback'[c].of = callback[c].of /\ callback'[c].at \in {"save", "clean"}
      /\ callback'[c].at = "save" => callback'[c].token # 0
      /\ callback'[c].at = "clean" => callback[c].verifier # callback[c].of
  BY DEF SignInInv, TypeOK, CallbackState, Exchanges
<1>4. Carried'
  BY <1>3 DEF SignInInv, Carried, Exchanges
<1>5. ASSUME NEW m \in alone' PROVE Undisturbed(m)'
  BY <1>3, <1>5 DEF SignInInv, Undisturbed, Provided, Exchanges
<1> QED
  BY <1>1, <1>2, <1>4, <1>5 DEF SignInInv

(* The token is stored, and the error of an earlier refresh is             *)
(* forgotten.                                                              *)
LEMMA SavesKeeps == ASSUME SignInInv, NEW c \in Callbacks, Saves(c) PROVE SignInInv'
<1>1. TypeOK'
  <2>1. state' \in 0..MaxSignIns /\ verifier' \in 0..MaxSignIns /\ tokens' \in 0..MaxTokens
    BY DEF SignInInv, TypeOK, CallbackState, Saves
  <2>2. refreshError' \in BOOLEAN /\ aged' \in BOOLEAN
    BY DEF Write, Saves
  <2>3. callback[c] \in CallbackState
    BY DEF SignInInv, TypeOK
  <2>4. callback'[c] \in CallbackState
    BY <2>3 DEF CallbackState, Saves, Goes
  <2>5. callback' \in [Callbacks -> CallbackState]
    BY <2>4 DEF SignInInv, TypeOK, Saves, Goes
  <2> QED
    BY <2>1, <2>2, <2>3, <2>4, <2>5 DEF SignInInv, TypeOK, provider, Saves
<1>2. ClaimedOnce'
  BY <1>1 DEF SignInInv, ClaimedOnce, Saves
<1>3. Carried'
  BY <1>1 DEF SignInInv, Carried, Saves, Goes
<1>4. ASSUME NEW m \in alone' PROVE Undisturbed(m)'
  BY <1>1, <1>4 DEF SignInInv, Undisturbed, Provided, Carried, Saves, Goes
<1> QED
  BY <1>1, <1>2, <1>3, <1>4 DEF SignInInv

(* The verifier is removed, whoever stored it; a sign-in that is alone     *)
(* stored it itself.                                                       *)
LEMMA CleansKeeps == ASSUME SignInInv, NEW c \in Callbacks, Cleans(c) PROVE SignInInv'
<1>1. TypeOK'
  <2>1. state' \in 0..MaxSignIns /\ verifier' \in 0..MaxSignIns /\ tokens' \in 0..MaxTokens
    BY SignInAssumption DEF SignInInv, TypeOK, Cleans
  <2>2. refreshError' \in BOOLEAN /\ aged' \in BOOLEAN
    BY DEF SignInInv, TypeOK, Write, Cleans
  <2>3. callback[c] \in CallbackState
    BY DEF SignInInv, TypeOK
  <2>4. callback'[c] \in CallbackState
    BY <2>3 DEF CallbackState, Cleans, Goes
  <2>5. callback' \in [Callbacks -> CallbackState]
    BY <2>4 DEF SignInInv, TypeOK, Cleans, Goes
  <2> QED
    BY <2>1, <2>2, <2>3, <2>4, <2>5 DEF SignInInv, TypeOK, provider, Cleans
<1>2. ClaimedOnce'
  BY <1>1 DEF SignInInv, SignIns, ClaimedOnce, Cleans
<1>3. Carried'
  BY <1>1 DEF SignInInv, Carried, Cleans, Goes
<1>4. ASSUME NEW m \in alone' PROVE Undisturbed(m)'
  BY <1>1, <1>4 DEF SignInInv, Undisturbed, Provided, Cleans, Goes
<1> QED
  BY <1>1, <1>2, <1>3, <1>4 DEF SignInInv

(* The connection is looked for, and a sign-in that is alone finds it.     *)
LEMMA ResumesKeeps == ASSUME SignInInv, NEW c \in Callbacks, Resumes(c) PROVE SignInInv'
<1>1. TypeOK'
  <2>1. callback[c] \in CallbackState
    BY DEF SignInInv, TypeOK
  <2>2. callback'[c] \in CallbackState
    <3>1. ASSUME NEW at \in {"connected", "failed"}
          PROVE  [callback[c] EXCEPT !.at = at, !.token = 0] \in CallbackState
      <4>1. 0 \in 0..MaxTokens
        BY SignInAssumption
      <4> QED
        BY <2>1, <4>1 DEF CallbackState
    <3> QED
      BY <3>1 DEF SignInInv, TypeOK, Resumes
  <2>3. callback' \in [Callbacks -> CallbackState]
    BY <2>2 DEF SignInInv, TypeOK, Resumes
  <2> QED
    BY <2>1, <2>2, <2>3 DEF SignInInv, TypeOK, row, provider, Resumes
<1>2. ClaimedOnce'
  BY <1>1 DEF SignInInv, ClaimedOnce, Resumes, row
<1>3. Carried'
  BY <1>1 DEF SignInInv, TypeOK, Carried, Resumes
<1>4. ASSUME NEW m \in alone' PROVE Undisturbed(m)'
  BY <1>1, <1>4 DEF SignInInv, TypeOK, Undisturbed, Provided, Resumes
<1> QED
  BY <1>1, <1>2, <1>3, <1>4 DEF SignInInv

(* A refresh begins: it has not touched the row.                           *)
LEMMA RefreshStartsKeeps == ASSUME SignInInv, NEW r \in Refreshers, RefreshStarts(r) PROVE SignInInv'
<1>1. TypeOK'
  <2>1. refresh[r] \in RefreshState
    BY DEF SignInInv, TypeOK
  <2>2. refresh'[r] \in RefreshState
    <3>1. [Idle EXCEPT !.at = "auth"] \in RefreshState
      BY IdleState DEF RefreshState
    <3>2. \A error \in BOOLEAN : [Idle EXCEPT !.at = "note", !.error = error] \in RefreshState
      BY IdleState DEF RefreshState
    <3>3. (tokens = 0 /\ refreshError) \in BOOLEAN
      OBVIOUS
    <3> QED
      BY <3>1, <3>2, <3>3, IdleState DEF SignInInv, TypeOK, RefreshStarts
  <2>3. refresh' \in [Refreshers -> RefreshState]
    BY <2>2 DEF SignInInv, TypeOK, RefreshStarts
  <2> QED
    BY <2>1, <2>2, <2>3 DEF SignInInv, TypeOK, row, provider, RefreshStarts
<1>2. ClaimedOnce'
  BY <1>1 DEF SignInInv, ClaimedOnce, RefreshStarts, row
<1>3. Carried'
  BY <1>1 DEF SignInInv, Carried, RefreshStarts, Idle
<1>4. ASSUME NEW m \in alone' PROVE Undisturbed(m)'
  BY <1>1, <1>4 DEF SignInInv, Undisturbed, Provided, RefreshStarts, row
<1> QED
  BY <1>1, <1>2, <1>3, <1>4 DEF SignInInv

(* A refresh reads the token it will send.                                 *)
LEMMA RefreshReadsKeeps == ASSUME SignInInv, NEW r \in Refreshers, RefreshReads(r) PROVE SignInInv'
<1>1. TypeOK'
  <2>1. refresh[r] \in RefreshState
    BY DEF SignInInv, TypeOK
  <2>2. refresh'[r] \in RefreshState
    BY <2>1 DEF SignInInv, TypeOK, RefreshState, RefreshReads
  <2>3. refresh' \in [Refreshers -> RefreshState]
    BY <2>2 DEF SignInInv, TypeOK, RefreshReads
  <2> QED
    BY <2>1, <2>2, <2>3 DEF SignInInv, TypeOK, row, provider, RefreshReads
<1>2. ClaimedOnce'
  BY <1>1 DEF SignInInv, ClaimedOnce, RefreshReads, row
<1>3. Carried'
  BY <1>1 DEF SignInInv, TypeOK, Carried, RefreshReads
<1>4. ASSUME NEW m \in alone' PROVE Undisturbed(m)'
  BY <1>1, <1>4 DEF SignInInv, Undisturbed, Provided, RefreshReads, row
<1> QED
  BY <1>1, <1>2, <1>3, <1>4 DEF SignInInv

(* The server gives a refresh a new token.                                 *)
LEMMA RefreshCallsKeeps == ASSUME SignInInv, NEW r \in Refreshers, RefreshCalls(r) PROVE SignInInv'
<1>1. TypeOK'
  <2>1. honoured' \subseteq Tokens /\ expired' \subseteq Tokens /\ issued' \in 0..MaxTokens
    BY SignInAssumption DEF SignInInv, TypeOK, Tokens, RefreshCalls, Issue
  <2>2. refresh[r] \in RefreshState
    BY DEF SignInInv, TypeOK
  <2>3. refresh'[r] \in RefreshState
    <3>1. issued + 1 \in 0..MaxTokens
      BY SignInAssumption DEF SignInInv, TypeOK, RefreshCalls, Issue
    <3>2. [refresh[r] EXCEPT !.at = "save", !.token = issued + 1] \in RefreshState
      BY <2>2, <3>1 DEF RefreshState
    <3> QED
      BY <3>2 DEF SignInInv, TypeOK, RefreshCalls
  <2>4. refresh' \in [Refreshers -> RefreshState]
    BY <2>3 DEF SignInInv, TypeOK, RefreshCalls
  <2> QED
    BY <2>1, <2>2, <2>3, <2>4 DEF SignInInv, TypeOK, row, RefreshCalls
<1>2. ClaimedOnce'
  BY <1>1 DEF SignInInv, ClaimedOnce, RefreshCalls, row
<1>3. Carried'
  BY <1>1 DEF SignInInv, TypeOK, Carried, RefreshCalls
<1>4. ASSUME NEW m \in alone' PROVE Undisturbed(m)'
  BY <1>1, <1>4 DEF SignInInv, Undisturbed, Provided, RefreshCalls, row
<1> QED
  BY <1>1, <1>2, <1>3, <1>4 DEF SignInInv

(* A refresh stores its token: one is there afterwards, and a pending      *)
(* state stays.                                                            *)
LEMMA RefreshSavesKeeps == ASSUME SignInInv, NEW r \in Refreshers, RefreshSaves(r) PROVE SignInInv'
<1>1. TypeOK'
  <2>1. state' \in 0..MaxSignIns /\ verifier' \in 0..MaxSignIns /\ tokens' \in 0..MaxTokens
    BY DEF SignInInv, TypeOK, RefreshState, RefreshSaves
  <2>2. refreshError' \in BOOLEAN /\ aged' \in BOOLEAN
    BY DEF Write, RefreshSaves
  <2>3. refresh[r] \in RefreshState
    BY DEF SignInInv, TypeOK
  <2>4. refresh'[r] \in RefreshState
    BY <2>3, EndedState DEF SignInInv, TypeOK, RefreshSaves
  <2>5. refresh' \in [Refreshers -> RefreshState]
    BY <2>4 DEF SignInInv, TypeOK, RefreshSaves
  <2> QED
    BY <2>1, <2>2, <2>3, <2>4, <2>5 DEF SignInInv, TypeOK, provider, RefreshSaves
<1>2. ClaimedOnce'
  BY <1>1 DEF SignInInv, ClaimedOnce, RefreshSaves
<1>3. Carried'
  BY <1>1 DEF SignInInv, Carried, RefreshSaves, Ended, Idle
<1>4. ASSUME NEW m \in alone' PROVE Undisturbed(m)'
  BY <1>1, <1>4 DEF SignInInv, Undisturbed, Provided, Carried, Write, RefreshSaves
<1> QED
  BY <1>1, <1>2, <1>3, <1>4 DEF SignInInv

(* A refresh that failed forgets the token, never a pending state; it      *)
(* crosses the callback that has stored one.                               *)
LEMMA RefreshFailsKeeps == ASSUME SignInInv, NEW r \in Refreshers, RefreshFails(r) PROVE SignInInv'
<1>1. TypeOK'
  <2>1. state' \in 0..MaxSignIns /\ verifier' \in 0..MaxSignIns /\ tokens' \in 0..MaxTokens
    BY SignInAssumption DEF SignInInv, TypeOK, RefreshFails
  <2>2. refreshError' \in BOOLEAN /\ aged' \in BOOLEAN
    BY DEF SignInInv, TypeOK, Write, RefreshFails
  <2>3. refresh[r] \in RefreshState
    BY DEF SignInInv, TypeOK
  <2>4. refresh'[r] \in RefreshState
    BY <2>3, EndedState DEF SignInInv, TypeOK, RefreshFails
  <2>5. refresh' \in [Refreshers -> RefreshState]
    BY <2>4 DEF SignInInv, TypeOK, RefreshFails
  <2>6. alone' \subseteq SignIns
    BY DEF SignInInv, TypeOK, RefreshFails
  <2> QED
    BY <2>1, <2>2, <2>3, <2>4, <2>5, <2>6 DEF SignInInv, TypeOK, provider, RefreshFails
<1>2. ClaimedOnce'
  BY <1>1 DEF SignInInv, ClaimedOnce, RefreshFails
<1>3. Carried'
  BY <1>1 DEF SignInInv, Carried, RefreshFails, Ended, Idle
<1>4. ASSUME NEW m \in alone' PROVE Undisturbed(m)'
  BY <1>1, <1>4 DEF SignInInv, Undisturbed, Provided, Write, RefreshFails, Taken
<1> QED
  BY <1>1, <1>2, <1>3, <1>4 DEF SignInInv

(* The health check writes the error it found, which crosses a callback    *)
(* that has stored its token.                                              *)
LEMMA NotesKeeps == ASSUME SignInInv, Notes PROVE SignInInv'
<1>1. TypeOK'
  <2>1. refresh[Health] \in RefreshState
    BY SignInAssumption DEF SignInInv, TypeOK
  <2>2. refreshError' \in BOOLEAN /\ aged' \in BOOLEAN
    <3>1. refresh[Health].error \in BOOLEAN
      BY <2>1 DEF RefreshState
    <3> QED
      BY <3>1 DEF SignInInv, TypeOK, Notes
  <2>3. refresh'[Health] \in RefreshState
    BY <2>2, IdleState, SignInAssumption DEF SignInInv, TypeOK, Notes
  <2>4. refresh' \in [Refreshers -> RefreshState]
    BY <2>3 DEF SignInInv, TypeOK, Notes
  <2>5. alone' \subseteq SignIns
    BY DEF SignInInv, TypeOK, Notes
  <2> QED
    BY <2>1, <2>2, <2>3, <2>4, <2>5 DEF SignInInv, TypeOK, provider, Notes
<1>2. ClaimedOnce'
  BY <1>1 DEF SignInInv, ClaimedOnce, Notes
<1>3. Carried'
  BY <1>1 DEF SignInInv, Carried, Notes, Idle
<1>4. ASSUME NEW m \in alone' PROVE Undisturbed(m)'
  BY <1>1, <1>4 DEF SignInInv, Undisturbed, Provided, Notes, Taken
<1> QED
  BY <1>1, <1>2, <1>3, <1>4 DEF SignInInv

(* Disconnect crosses every sign-in.                                       *)
LEMMA DisconnectKeeps == ASSUME SignInInv, Disconnect PROVE SignInInv'
<1>1. TypeOK'
  <2>1. state' \in 0..MaxSignIns /\ verifier' \in 0..MaxSignIns /\ tokens' \in 0..MaxTokens
    BY SignInAssumption DEF SignInInv, TypeOK, Disconnect
  <2>2. refreshError' \in BOOLEAN /\ aged' \in BOOLEAN
    BY DEF SignInInv, TypeOK, Write, Disconnect
  <2>3. alone' \subseteq SignIns
    BY DEF Disconnect
  <2>4. disconnect' \in {"no", "verifier", "errors"} /\ disconnects' \in 0..MaxDisconnects
    BY SignInAssumption DEF SignInInv, TypeOK, Disconnect
  <2> QED
    BY <2>1, <2>2, <2>3, <2>4 DEF SignInInv, TypeOK, provider, Disconnect
<1>2. ClaimedOnce'
  BY <1>1 DEF SignInInv, ClaimedOnce, Disconnect
<1>3. Carried'
  BY <1>1 DEF SignInInv, Carried, Disconnect
<1>4. ASSUME NEW m \in alone' PROVE Undisturbed(m)'
  BY <1>1, <1>4 DEF Disconnect
<1> QED
  BY <1>1, <1>2, <1>3, <1>4 DEF SignInInv

(* What Disconnect has yet to write it writes while no sign-in is alone.   *)
LEMMA DisconnectGoesOnKeeps == ASSUME SignInInv, DisconnectGoesOn PROVE SignInInv'
<1>1. TypeOK'
  <2>1. state' \in 0..MaxSignIns /\ verifier' \in 0..MaxSignIns /\ tokens' \in 0..MaxTokens
    BY SignInAssumption DEF SignInInv, TypeOK, DisconnectGoesOn
  <2>2. refreshError' \in BOOLEAN /\ aged' \in BOOLEAN
    BY DEF SignInInv, TypeOK, Write, DisconnectGoesOn
  <2>3. disconnect' \in {"no", "verifier", "errors"} /\ disconnects' \in 0..MaxDisconnects
    BY DEF SignInInv, TypeOK, DisconnectGoesOn
  <2> QED
    BY <2>1, <2>2, <2>3 DEF SignInInv, TypeOK, provider, DisconnectGoesOn
<1>2. ClaimedOnce'
  BY <1>1 DEF SignInInv, SignIns, ClaimedOnce, DisconnectGoesOn
<1>3. Carried'
  BY <1>1 DEF SignInInv, Carried, DisconnectGoesOn
<1>4. ASSUME NEW m \in alone' PROVE Undisturbed(m)'
  BY <1>1, <1>4 DEF SignInInv, Undisturbed, DisconnectGoesOn
<1> QED
  BY <1>1, <1>2, <1>3, <1>4 DEF SignInInv

(* The invariant holds at first.                                           *)
LEMMA SignInInit == Init => SignInInv
<1> SUFFICES ASSUME Init PROVE SignInInv
  OBVIOUS
<1>1. NoCallback \in CallbackState
  BY SignInAssumption DEF NoCallback, CallbackState
<1>2. /\ signIn \in [SignIns -> Places] /\ claims \in [SignIns -> 0..1]
      /\ callback \in [Callbacks -> CallbackState] /\ refresh \in [Refreshers -> RefreshState]
  BY <1>1, IdleState DEF Init, Places
<1>3. TypeOK
  <2>1. refreshError \in BOOLEAN /\ aged \in BOOLEAN
    BY DEF Init
  <2>2. 0 \in 0..MaxSignIns /\ 0 \in 0..MaxTokens /\ 0 \in 0..MaxDisconnects
    BY SignInAssumption
  <2> QED
    BY <1>2, <2>1, <2>2 DEF Init, TypeOK
<1>4. ClaimedOnce /\ Carried
  BY DEF Init, ClaimedOnce, Carried, SignIns, NoCallback, Idle
<1> QED
  BY <1>3, <1>4 DEF Init, SignInInv

(* Every step keeps it.                                                    *)
LEMMA SignInNext == SignInInv /\ [Next]_vars => SignInInv'
<1> SUFFICES ASSUME SignInInv, [Next]_vars PROVE SignInInv'
  OBVIOUS
<1>1. ASSUME UNCHANGED vars PROVE SignInInv'
  BY <1>1 DEF vars, SignInInv, TypeOK, ClaimedOnce, Carried, Undisturbed, Provided
<1>2. ASSUME NEW n \in SignIns,
             \/ \E reconnect \in BOOLEAN : Connect(n, reconnect)
             \/ Looks(n) \/ Unauthorized(n) \/ Refreshes(n) \/ SavesState(n) \/ SavesVerifier(n)
      PROVE  SignInInv'
  BY <1>2, ConnectKeeps, LooksKeeps, UnauthorizedKeeps, RefreshesKeeps, SavesStateKeeps, SavesVerifierKeeps
<1>3. ASSUME NEW c \in Callbacks,
             \/ \E n \in SignIns : Returns(c, n)
             \/ Claims(c) \/ Reads(c) \/ Exchanges(c) \/ Saves(c) \/ Cleans(c) \/ Resumes(c)
      PROVE  SignInInv'
  BY <1>3, ReturnsKeeps, ClaimsKeeps, ReadsKeeps, ExchangesKeeps, SavesKeeps, CleansKeeps, ResumesKeeps
<1>4. ASSUME NEW r \in Refreshers,
             RefreshStarts(r) \/ RefreshReads(r) \/ RefreshCalls(r) \/ RefreshSaves(r) \/ RefreshFails(r)
      PROVE  SignInInv'
  BY <1>4, RefreshStartsKeeps, RefreshReadsKeeps, RefreshCallsKeeps, RefreshSavesKeeps, RefreshFailsKeeps
<1>5. ASSUME Expires \/ Revokes \/ Ages \/ Notes \/ Disconnect \/ DisconnectGoesOn PROVE SignInInv'
  BY <1>5, ExpiresKeeps, RevokesKeeps, AgesKeeps, NotesKeeps, DisconnectKeeps, DisconnectGoesOnKeeps
<1> QED
  BY <1>1, <1>2, <1>3, <1>4, <1>5 DEF Next

(* The invariant holds in every instance.                                  *)
THEOREM SignInInvariant == Spec => []SignInInv
BY SignInInit, SignInNext, PTL DEF Spec

(* The row and everybody's progress are well typed, and a state is claimed *)
(* at most once, however many pages come back.                             *)
THEOREM SignInTypeOK == Spec => []TypeOK
<1>1. SignInInv => TypeOK
  BY DEF SignInInv
<1> QED
  BY <1>1, SignInInvariant, PTL

(* With any number of sign-ins, pages, turns and tokens, the sign-in that  *)
(* nothing crossed ends connected: no refresh disturbs it.                 *)
THEOREM LoneSignInEndsConnected == Spec => []LoneSignInConnects
<1>1. SignInInv => LoneSignInConnects
  BY DEF SignInInv, Undisturbed, Provided, LoneSignInConnects
<1> QED
  BY <1>1, SignInInvariant, PTL
=============================================================================
