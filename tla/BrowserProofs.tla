---------------------------- MODULE BrowserProofs ----------------------------
(* The session of a browser, for any number of tabs, calls and sessions.   *)
EXTENDS Browser, TLAPS

-----------------------------------------------------------------------------
(* Types.                                                                  *)

\* One message changes.
LEMMA WireAt ==
    ASSUME TypeOK, NEW t \in Tab, NEW f \in Fetch, NEW m, wire' = [wire EXCEPT ![t][f] = m]
    PROVE  /\ m \in Message \cup {None} => wire' \in [Tab -> [Fetch -> Message \cup {None}]]
           /\ \A u \in Tab, g \in Fetch :
                 wire'[u][g] = IF u = t /\ g = f THEN m ELSE wire[u][g]
BY DEF TypeOK

LEMMA CallAt ==
    ASSUME TypeOK, NEW t \in Tab, NEW k \in Call, NEW c, call' = [call EXCEPT ![t][k] = c]
    PROVE  /\ c \in {"idle", "sent", "waiting", "retried"} =>
                 call' \in [Tab -> [Call -> {"idle", "sent", "waiting", "retried"}]]
           /\ \A u \in Tab, j \in Call : call'[u][j] = IF u = t /\ j = k THEN c ELSE call[u][j]
BY DEF TypeOK

LEMMA Fetches == Call \subseteq Fetch /\ {"refresh", "login", "logout"} \subseteq Fetch
BY DEF Fetch

LEMMA Messages ==
    /\ \A ok \in BOOLEAN, set \in {"keep", "clear"} \cup Session : Answer(ok, set) \in Message
    /\ \A a \in BOOLEAN, s \in Token : Request(a, s) \in Message
    /\ jar \in Cookies => CallRequest(jar) \in Message /\ SessionRequest(jar) \in Message
BY DEF Answer, Message, Request, CallRequest, SessionRequest, Cookies, Token

LEMMA TypeInit == Init => TypeOK
<1> SUFFICES ASSUME Init PROVE TypeOK
  OBVIOUS
<1>1. jar \in Cookies
  BY DEF Init, Cookies, Token
<1>2. /\ call \in [Tab -> [Call -> {"idle", "sent", "waiting", "retried"}]]
      /\ \A t \in Tab, k \in Call : call[t][k] = "idle"
  BY DEF Init
<1>3. /\ wire \in [Tab -> [Fetch -> Message \cup {None}]]
      /\ \A t \in Tab, f \in Fetch : wire[t][f] = None
  BY DEF Init
<1>4. \A t \in Tab : refreshing[t] = FALSE
  BY DEF Init
<1> QED BY <1>1, <1>2, <1>3, <1>4, Fetches DEF Init, TypeOK

\* A fetch of a call or of a tab that is served or sent.
LEMMA OneMessage ==
    ASSUME TypeOK, NEW t \in Tab, NEW f \in Fetch, NEW m \in Message \cup {None},
           wire' = [wire EXCEPT ![t][f] = m], UNCHANGED <<call, refreshing>>,
           f \in {"login", "logout"} \/ (wire[t][f] # None /\ m # None),
           jar' \in Cookies, sessions' \in [Session -> {"none", "live", "rotated", "dead"}],
           signedIn' \in [Tab -> BOOLEAN], lost' \in BOOLEAN
    PROVE  TypeOK'
<1>1. /\ wire' \in [Tab -> [Fetch -> Message \cup {None}]]
      /\ \A u \in Tab, g \in Fetch : wire'[u][g] = IF u = t /\ g = f THEN m ELSE wire[u][g]
  BY WireAt
<1>2. \A u \in Tab : wire'[u]["refresh"] # None <=> wire[u]["refresh"] # None
  BY <1>1, Fetches
<1>3. \A u \in Tab, k \in Call : wire'[u][k] # None <=> wire[u][k] # None
  BY <1>1, Fetches, BrowserAssumption
<1> QED BY <1>1, <1>2, <1>3 DEF TypeOK

LEMMA TypeServe ==
    ASSUME TypeOK, NEW t \in Tab,
           \/ \E k \in Call : ServeCall(t, k)
           \/ ServeRefresh(t) \/ ServeLogin(t) \/ ServeLogout(t)
    PROVE  TypeOK'
<1>1. /\ jar' = jar /\ signedIn' = signedIn /\ lost' = lost
      /\ UNCHANGED <<call, refreshing>>
  BY DEF ServeCall, ServeRefresh, ServeLogin, ServeLogout
<1>2. sessions' \in [Session -> {"none", "live", "rotated", "dead"}]
  <2>1. ASSUME NEW s \in Session, NEW new \in Session,
               \/ sessions' = [sessions EXCEPT ![s] = "rotated", ![new] = "live"]
               \/ sessions' = [sessions EXCEPT ![new] = "live"]
        PROVE  sessions' \in [Session -> {"none", "live", "rotated", "dead"}]
    BY <2>1 DEF TypeOK
  <2>3. CASE ServeRefresh(t)
    <3>1. CASE wire[t]["refresh"].refresh \in Live
      BY <2>1, <2>3, <3>1 DEF ServeRefresh, Live
    <3>2. CASE wire[t]["refresh"].refresh \notin Live
      <4>1. sessions' = sessions
            \/ sessions' = [x \in Session |-> IF x \in Live THEN "dead" ELSE sessions[x]]
        BY <2>3, <3>2 DEF ServeRefresh
      <4> QED BY <4>1 DEF TypeOK
    <3> QED BY <3>1, <3>2
  <2>4. CASE ServeLogin(t)
    BY <2>1, <2>4 DEF ServeLogin
  <2>5. CASE ServeLogout(t)
    BY <2>5 DEF ServeLogout, TypeOK
  <2>6. ASSUME NEW k \in Call, ServeCall(t, k) PROVE sessions' = sessions
    BY <2>6 DEF ServeCall
  <2> QED BY <2>3, <2>4, <2>5, <2>6 DEF TypeOK
<1>3. \E f \in Fetch, ok \in BOOLEAN, set \in {"keep", "clear"} \cup Session :
        wire[t][f] # None /\ wire' = [wire EXCEPT ![t][f] = Answer(ok, set)]
  <2>1. ASSUME NEW k \in Call, ServeCall(t, k) PROVE wire[t][k].access \in BOOLEAN
    BY <2>1, Fetches DEF ServeCall, Asked, TypeOK, Message
  <2>2. ASSUME NEW k \in Call, ServeCall(t, k)
        PROVE  wire[t][k] # None /\ wire' = [wire EXCEPT ![t][k] = Answer(wire[t][k].access, "keep")]
    BY <2>2 DEF ServeCall, Asked, Reply
  <2>3. CASE ServeRefresh(t) \/ ServeLogin(t) \/ ServeLogout(t)
    BY <2>3, Fetches DEF ServeRefresh, ServeLogin, ServeLogout, Asked, Reply
  <2> QED BY <2>1, <2>2, <2>3, Fetches
<1>4. PICK f \in Fetch, ok \in BOOLEAN, set \in {"keep", "clear"} \cup Session :
        wire[t][f] # None /\ wire' = [wire EXCEPT ![t][f] = Answer(ok, set)]
  BY <1>3
<1>5. Answer(ok, set) \in Message /\ Answer(ok, set) # None
  BY Messages, BrowserAssumption
<1> QED BY <1>1, <1>2, <1>4, <1>5, OneMessage DEF TypeOK

LEMMA StoredCookies ==
    ASSUME TypeOK, NEW t \in Tab, NEW f \in Fetch, Answered(t, f)
    PROVE  /\ Stored(wire[t][f].set) \in Cookies
           /\ wire[t][f].ok \in BOOLEAN /\ wire[t][f].set \in {"keep", "clear"} \cup Session
BY DEF TypeOK, Answered, Message, Stored, Cookies, Token

LEMMA TypeSignIn ==
    ASSUME TypeOK, NEW t \in Tab, Login(t) \/ Logout(t) \/ ReceiveLogin(t) \/ ReceiveLogout(t)
    PROVE  TypeOK'
<1>1. CASE Login(t)
  <2>1. Request(FALSE, None) \in Message
    BY Messages DEF Token
  <2> QED BY <1>1, <2>1, Fetches, OneMessage DEF Login, TypeOK
<1>2. CASE Logout(t)
  <2>1. SessionRequest(jar) \in Message
    BY Messages DEF TypeOK
  <2> QED BY <1>2, <2>1, Fetches, OneMessage DEF Logout, TypeOK
<1>3. CASE ReceiveLogin(t)
  <2>1. jar' \in Cookies
    BY <1>3, Fetches, StoredCookies DEF ReceiveLogin
  <2> QED BY <1>3, <2>1, Fetches, OneMessage DEF ReceiveLogin, TypeOK
<1>4. CASE ReceiveLogout(t)
  <2>1. jar' \in Cookies
    BY <1>4, Fetches, StoredCookies DEF ReceiveLogout
  <2> QED BY <1>4, <2>1, Fetches, OneMessage DEF ReceiveLogout, TypeOK
<1> QED BY <1>1, <1>2, <1>3, <1>4

LEMMA TypeSend == ASSUME TypeOK, NEW t \in Tab, NEW k \in Call, Send(t, k) PROVE TypeOK'
<1>1. CallRequest(jar) \in Message /\ CallRequest(jar) # None
  BY Messages, BrowserAssumption DEF TypeOK
<1>2. /\ wire' \in [Tab -> [Fetch -> Message \cup {None}]]
      /\ \A u \in Tab, g \in Fetch :
            wire'[u][g] = IF u = t /\ g = k THEN CallRequest(jar) ELSE wire[u][g]
  <2>1. wire' = [wire EXCEPT ![t][k] = CallRequest(jar)] /\ k \in Fetch
    BY Fetches DEF Send
  <2> QED BY <1>1, <2>1, WireAt
<1>3. /\ call' \in [Tab -> [Call -> {"idle", "sent", "waiting", "retried"}]]
      /\ \A u \in Tab, j \in Call : call'[u][j] = IF u = t /\ j = k THEN "sent" ELSE call[u][j]
  <2>1. call' = [call EXCEPT ![t][k] = "sent"]
    BY DEF Send
  <2> QED BY <2>1, CallAt
<1> QED BY <1>1, <1>2, <1>3, Fetches, BrowserAssumption DEF Send, TypeOK

LEMMA TypeReceive == ASSUME TypeOK, NEW t \in Tab, NEW k \in Call, Receive(t, k) PROVE TypeOK'
<1>0. k \in Fetch /\ k # "refresh"
  BY Fetches, BrowserAssumption
<1>1. ASSUME NEW b \in BOOLEAN, call' = [call EXCEPT ![t][k] = "idle"],
             signedIn' = [signedIn EXCEPT ![t] = b], wire' = [wire EXCEPT ![t][k] = None],
             UNCHANGED <<refreshing, jar, sessions, lost>>
      PROVE  TypeOK'
  <2>1. /\ wire' \in [Tab -> [Fetch -> Message \cup {None}]]
        /\ \A u \in Tab, g \in Fetch : wire'[u][g] = IF u = t /\ g = k THEN None ELSE wire[u][g]
    BY <1>0, <1>1, WireAt
  <2>2. /\ call' \in [Tab -> [Call -> {"idle", "sent", "waiting", "retried"}]]
        /\ \A u \in Tab, j \in Call : call'[u][j] = IF u = t /\ j = k THEN "idle" ELSE call[u][j]
    BY <1>1, CallAt
  <2> QED BY <1>0, <1>1, <2>1, <2>2, Fetches DEF TypeOK
<1>2. ASSUME NEW m \in Message, call' = [call EXCEPT ![t][k] = "waiting"],
             refreshing' = [refreshing EXCEPT ![t] = TRUE],
             wire' = [wire EXCEPT ![t][k] = None,
                                  ![t]["refresh"] = IF Joins(t) THEN @ ELSE m],
             UNCHANGED <<signedIn, jar, sessions, lost>>
      PROVE  TypeOK'
  <2>1. \A u \in Tab, g \in Fetch :
          wire'[u][g] = IF u = t /\ g = k THEN None
                        ELSE IF u = t /\ g = "refresh" THEN IF Joins(t) THEN wire[t]["refresh"] ELSE m
                        ELSE wire[u][g]
    BY <1>0, <1>2, Fetches DEF TypeOK
  <2>2. wire' \in [Tab -> [Fetch -> Message \cup {None}]]
    BY <1>0, <1>2, Fetches DEF TypeOK
  <2>3. /\ call' \in [Tab -> [Call -> {"idle", "sent", "waiting", "retried"}]]
        /\ \A u \in Tab, j \in Call : call'[u][j] = IF u = t /\ j = k THEN "waiting" ELSE call[u][j]
    BY <1>2, CallAt
  <2>4. \A u \in Tab : refreshing'[u] <=> wire'[u]["refresh"] # None
    BY <1>0, <1>2, <2>1, Fetches, BrowserAssumption DEF TypeOK, Joins
  <2>5. \A u \in Tab, j \in Call : wire'[u][j] # None <=> call'[u][j] \in {"sent", "retried"}
    BY <2>1, <2>3, Fetches, BrowserAssumption DEF TypeOK
  <2> QED BY <1>2, <2>2, <2>3, <2>4, <2>5 DEF TypeOK
<1>3. SessionRequest(jar) \in Message
  BY Messages DEF TypeOK
<1> QED BY <1>1, <1>2, <1>3 DEF Receive
\* Calls that wait are sent again or end, and refreshRequest is reset.
LEMMA TypeReceiveRefresh == ASSUME TypeOK, NEW t \in Tab, ReceiveRefresh(t) PROVE TypeOK'
<1> DEFINE ok == wire[t]["refresh"].ok
<1>1. /\ jar' \in Cookies /\ ok \in BOOLEAN /\ CallRequest(jar') \in Message
      /\ CallRequest(jar') # None
  <2>1. jar' \in Cookies /\ ok \in BOOLEAN
    BY Fetches, StoredCookies DEF ReceiveRefresh
  <2>2. CallRequest(jar') \in Message
    BY <2>1 DEF CallRequest, Request, Message, Cookies, Token
  <2> QED BY <2>1, <2>2, BrowserAssumption
<1>2. /\ call' \in [Tab -> [Call -> {"idle", "sent", "waiting", "retried"}]]
      /\ \A u \in Tab \ {t} : call'[u] = call[u]
      /\ \A k \in Call : call'[t][k] = IF k \in Waiting(t) THEN IF ok THEN "retried" ELSE "idle"
                                       ELSE call[t][k]
  BY DEF ReceiveRefresh, TypeOK
<1>3. /\ wire' \in [Tab -> [Fetch -> Message \cup {None}]]
      /\ \A u \in Tab \ {t} : wire'[u] = wire[u]
      /\ \A f \in Fetch : wire'[t][f] = IF f = "refresh" THEN None
                                        ELSE IF ok /\ f \in Waiting(t) THEN CallRequest(jar')
                                        ELSE wire[t][f]
  <2> DEFINE w == [f \in Fetch |-> IF f = "refresh" THEN None
                                   ELSE IF ok /\ f \in Waiting(t) THEN CallRequest(jar')
                                   ELSE wire[t][f]]
  <2>1. w \in [Fetch -> Message \cup {None}]
    BY <1>1 DEF TypeOK
  <2>2. wire' = [wire EXCEPT ![t] = w]
    BY DEF ReceiveRefresh, TypeOK
  <2>3. \A f \in Fetch : w[f] = IF f = "refresh" THEN None
                                ELSE IF ok /\ f \in Waiting(t) THEN CallRequest(jar')
                                ELSE wire[t][f]
    OBVIOUS
  <2> HIDE DEF w
  <2> QED BY <2>1, <2>2, <2>3 DEF TypeOK
<1>4. \A u \in Tab : refreshing'[u] <=> wire'[u]["refresh"] # None
  BY <1>3, Fetches DEF ReceiveRefresh, TypeOK
<1>5. \A u \in Tab, k \in Call : wire'[u][k] # None <=> call'[u][k] \in {"sent", "retried"}
  <2> SUFFICES ASSUME NEW u \in Tab, NEW k \in Call
               PROVE  wire'[u][k] # None <=> call'[u][k] \in {"sent", "retried"}
    OBVIOUS
  <2>1. CASE u # t
    BY <1>2, <1>3, <2>1 DEF TypeOK
  <2>2. CASE u = t
    <3>0. k \in Fetch /\ k # "refresh"
      BY Fetches, BrowserAssumption
    <3>1. CASE k \in Waiting(t)
      <4>1. call[t][k] = "waiting" /\ wire[t][k] = None
        BY <3>0, <3>1 DEF TypeOK, Waiting
      <4>2. CASE ok
        <5>1. wire'[t][k] = CallRequest(jar')
          BY <1>3, <3>0, <3>1, <4>2
        <5>2. call'[t][k] = "retried"
          BY <1>2, <3>1, <4>2
        <5> HIDE DEF ok
        <5> QED BY <1>1, <2>2, <5>1, <5>2
      <4>3. CASE ~ok
        <5>1. wire'[t][k] = None
          BY <1>3, <3>0, <4>1, <4>3
        <5>2. call'[t][k] = "idle"
          BY <1>2, <3>1, <4>3
        <5> QED BY <2>2, <5>1, <5>2
      <4> QED BY <4>2, <4>3
    <3>2. CASE k \notin Waiting(t)
      BY <1>2, <1>3, <2>2, <3>0, <3>2 DEF TypeOK
    <3> QED BY <3>1, <3>2
  <2> QED BY <2>1, <2>2
<1> QED BY <1>1, <1>2, <1>3, <1>4, <1>5 DEF ReceiveRefresh, TypeOK

LEMMA TypeReject ==
    ASSUME TypeOK, NEW t \in Tab, NEW f \in Fetch, Reject(t, f), lost' \in BOOLEAN, wire[t][f] # None
    PROVE  TypeOK'
<1>1. /\ wire' \in [Tab -> [Fetch -> Message \cup {None}]]
      /\ \A u \in Tab, g \in Fetch : wire'[u][g] = IF u = t /\ g = f THEN None ELSE wire[u][g]
  BY WireAt DEF Reject
<1>2. /\ call' \in [Tab -> [Call -> {"idle", "sent", "waiting", "retried"}]]
      /\ \A u \in Tab \ {t} : call'[u] = call[u]
      /\ \A k \in Call : call'[t][k] = IF k = f \/ (f = "refresh" /\ k \in Waiting(t)) THEN "idle"
                                       ELSE call[t][k]
  BY DEF Reject, TypeOK
<1>3. \A u \in Tab : refreshing'[u] <=> wire'[u]["refresh"] # None
  <2>1. CASE f = "refresh"
    <3>1. refreshing' = [refreshing EXCEPT ![t] = FALSE]
      BY <2>1 DEF Reject, TypeOK
    <3> QED BY <1>1, <2>1, <3>1, Fetches DEF TypeOK
  <2>2. CASE f # "refresh"
    <3>1. refreshing' = [refreshing EXCEPT ![t] = @ /\ TRUE]
      BY <2>2 DEF Reject
    <3>2. \A u \in Tab : refreshing'[u] <=> refreshing[u]
      BY <3>1 DEF TypeOK
    <3> QED BY <1>1, <2>2, <3>2, Fetches DEF TypeOK
  <2> QED BY <2>1, <2>2
<1>4. \A u \in Tab, k \in Call : wire'[u][k] # None <=> call'[u][k] \in {"sent", "retried"}
  <2> SUFFICES ASSUME NEW u \in Tab, NEW k \in Call
               PROVE  wire'[u][k] # None <=> call'[u][k] \in {"sent", "retried"}
    OBVIOUS
  <2>1. CASE u # t
    BY <1>1, <1>2, <2>1, Fetches DEF TypeOK
  <2>2. CASE u = t
    BY <1>1, <1>2, <2>2, Fetches, BrowserAssumption DEF TypeOK, Waiting
  <2> QED BY <2>1, <2>2
<1>5. refreshing' \in [Tab -> BOOLEAN]
  BY DEF Reject, TypeOK
<1> QED BY <1>1, <1>2, <1>3, <1>4, <1>5 DEF Reject, TypeOK

LEMMA TypeStep == TypeOK /\ [Next]_vars => TypeOK'
<1> SUFFICES ASSUME TypeOK, [Next]_vars PROVE TypeOK'
  OBVIOUS
<1>1. CASE Expire
  BY <1>1 DEF Expire, TypeOK, Cookies
<1>2. CASE ExpireSession
  BY <1>2 DEF ExpireSession, TypeOK, Live
<1>3. ASSUME NEW t \in Tab, NEW f \in Fetch, Break(t, f) \/ Lose(t, f) PROVE TypeOK'
  <2>1. Reject(t, f) /\ lost' \in BOOLEAN /\ wire[t][f] # None
    BY <1>3 DEF Break, Lose, Asked, Answered, TypeOK
  <2> QED BY <2>1, TypeReject
<1>4. ASSUME NEW t \in Tab, Deliver(t) PROVE TypeOK'
  BY <1>4, TypeServe, TypeReceive, TypeReceiveRefresh, TypeSignIn DEF Deliver
<1>5. CASE UNCHANGED vars
  BY <1>5 DEF vars, TypeOK
<1> QED BY <1>1, <1>2, <1>3, <1>4, <1>5, TypeSend, TypeSignIn DEF Next

\* The cookies, the calls and the messages are well formed, and a refresh on
\* its way is refreshRequest (TypeOK), for any number of tabs, calls and
\* sessions.
THEOREM BrowserWellTyped == Spec => []TypeOK
BY TypeInit, TypeStep, PTL DEF Spec

-----------------------------------------------------------------------------
(* Tokens that were rotated.                                               *)

\* The answer to f, on its way, brings a new token.
Brings(t, f) == Answered(t, f) /\ wire[t][f].set \in Session

Rotated(s) == s \in Session /\ sessions[s] = "rotated"

\* The browser keeps a rotated token only while the one that replaces it is on
\* its way, and no refresh on its way carries one.
KeepsNone == Rotated(jar.refresh) => \E t \in Tab : Brings(t, "refresh")
SendsNone == \A t \in Tab : Asked(t, "refresh") => ~Rotated(wire[t]["refresh"].refresh)

\* A token that is brought was not seen before by the browser.
BringsNew ==
    \A t \in Tab, f \in Fetch : Brings(t, f) =>
        /\ ~Rotated(wire[t][f].set) /\ jar.refresh # wire[t][f].set
        /\ \A u \in Tab, g \in Fetch :
              /\ Asked(u, g) => wire[u][g].refresh # wire[t][f].set
              /\ Brings(u, g) /\ wire[u][g].set = wire[t][f].set => u = t /\ g = f

TokenInv == TypeOK /\ (~lost => KeepsNone /\ SendsNone /\ BringsNew)

\* The overlap: tabs share the cookies but not refreshRequest.
RefreshesApart == \A t, u \in Tab : refreshing[t] /\ refreshing[u] => t = u

\* What may be sent without harm.
Harmless(f, m) ==
    \/ m = None
    \/ /\ m.stage = "answer" /\ m.set \notin Session
    \/ /\ m.stage = "request" /\ m.refresh \in {None, jar.refresh}
       /\ f = "refresh" => ~Rotated(m.refresh)

\* A step that rotates no session, stores no token and sends nothing harmful.
LEMMA HarmlessStep ==
    ASSUME TokenInv, TypeOK', lost' = lost,
           jar'.refresh \in {None, jar.refresh},
           \A s \in Session : sessions'[s] = "rotated" => sessions[s] = "rotated",
           \A t \in Tab, f \in Fetch : wire'[t][f] = wire[t][f] \/ Harmless(f, wire'[t][f]),
           \A t \in Tab : Brings(t, "refresh") => wire'[t]["refresh"] = wire[t]["refresh"]
    PROVE  TokenInv'
<1> SUFFICES ASSUME ~lost PROVE KeepsNone' /\ SendsNone' /\ BringsNew'
  BY DEF TokenInv
<1>0. /\ KeepsNone /\ SendsNone /\ BringsNew /\ TypeOK
      /\ \A s : Rotated(s)' => Rotated(s)
      /\ ~Rotated(None)
  BY BrowserAssumption DEF TokenInv, Rotated
<1>1. KeepsNone'
  BY <1>0 DEF KeepsNone, Brings, Answered, Rotated
<1>2. ASSUME NEW t \in Tab, Asked(t, "refresh")' PROVE ~Rotated(wire[t]["refresh"].refresh)'
  <2>1. CASE wire'[t]["refresh"] = wire[t]["refresh"]
    BY <1>0, <1>2, <2>1 DEF SendsNone, Asked, Rotated
  <2>2. CASE Harmless("refresh", wire'[t]["refresh"])
    BY <1>0, <1>2, <2>2 DEF Harmless, Asked, Rotated
  <2> QED BY <2>1, <2>2, Fetches
<1>3. \A t \in Tab, f \in Fetch : Brings(t, f)' => wire'[t][f] = wire[t][f] /\ Brings(t, f)
  BY DEF Brings, Answered, Harmless
<1>4. \A t \in Tab, f \in Fetch : Asked(t, f)' =>
         \/ Asked(t, f) /\ wire'[t][f] = wire[t][f]
         \/ wire'[t][f].refresh \in {None, jar.refresh}
  BY DEF Asked, Harmless
<1>5. BringsNew'
  <2> SUFFICES ASSUME NEW t \in Tab, NEW f \in Fetch, Brings(t, f)'
               PROVE  /\ ~Rotated(wire[t][f].set)' /\ jar'.refresh # wire'[t][f].set
                      /\ \A u \in Tab, g \in Fetch :
                            /\ Asked(u, g)' => wire'[u][g].refresh # wire'[t][f].set
                            /\ Brings(u, g)' /\ wire'[u][g].set = wire'[t][f].set => u = t /\ g = f
    BY DEF BringsNew
  <2>1. wire'[t][f] = wire[t][f] /\ Brings(t, f) /\ wire[t][f].set \in Session
    BY <1>3 DEF Brings
  <2>2. wire[t][f].set # None
    BY <2>1, BrowserAssumption
  <2>3. ~Rotated(wire[t][f].set) /\ jar.refresh # wire[t][f].set
    BY <1>0, <2>1 DEF BringsNew
  <2>4. ~Rotated(wire[t][f].set)' /\ jar'.refresh # wire'[t][f].set
    BY <2>1, <2>2, <2>3 DEF Rotated
  <2>5. ASSUME NEW u \in Tab, NEW g \in Fetch, Asked(u, g)'
        PROVE  wire'[u][g].refresh # wire'[t][f].set
    BY <1>0, <1>4, <2>1, <2>2, <2>3, <2>5 DEF BringsNew
  <2>6. ASSUME NEW u \in Tab, NEW g \in Fetch, Brings(u, g)', wire'[u][g].set = wire'[t][f].set
        PROVE  u = t /\ g = f
    BY <1>0, <1>3, <2>1, <2>6 DEF BringsNew
  <2> QED BY <2>4, <2>5, <2>6
<1> QED BY <1>1, <1>2, <1>5 DEF SendsNone
LEMMA WireKept ==
    ASSUME TypeOK, NEW t \in Tab, NEW f \in Fetch, NEW m, wire' = [wire EXCEPT ![t][f] = m],
           Harmless(f, m), f = "refresh" => ~Brings(t, f)
    PROVE  /\ \A u \in Tab, g \in Fetch : wire'[u][g] = wire[u][g] \/ Harmless(g, wire'[u][g])
           /\ \A u \in Tab : Brings(u, "refresh") => wire'[u]["refresh"] = wire[u]["refresh"]
BY WireAt, Fetches

\* The server answers without a token, or a tab sends what no refresh is.
LEMMA TokenSimple ==
    ASSUME TokenInv, TypeOK', NEW t \in Tab,
           \/ \E k \in Call : ServeCall(t, k) \/ Send(t, k)
           \/ ServeLogout(t) \/ Login(t) \/ Logout(t)
    PROVE  TokenInv'
<1>t. TypeOK
  BY DEF TokenInv
<1>1. \A s \in Session : sessions'[s] = "rotated" => sessions[s] = "rotated"
  BY DEF ServeCall, Send, ServeLogout, Login, Logout
<1>2. \E f \in Fetch \ {"refresh"}, m \in {None} \cup Message :
         wire' = [wire EXCEPT ![t][f] = m] /\ Harmless(f, m)
  <2>0. \A k \in Call : k \in Fetch \ {"refresh"}
    BY Fetches, BrowserAssumption
  <2>1. \A ok \in BOOLEAN, set \in {"keep", "clear"}, f \in Fetch :
           Answer(ok, set) \in Message /\ Harmless(f, Answer(ok, set))
    BY BrowserAssumption DEF Harmless, Answer, Message
  <2>2. ASSUME NEW k \in Call, ServeCall(t, k) PROVE wire[t][k].access \in BOOLEAN
    BY <1>t, <2>2, Fetches DEF ServeCall, Asked, TypeOK, Message
  <2>3. /\ \A f \in Fetch : CallRequest(jar) \in Message /\ Harmless(f, CallRequest(jar))
        /\ SessionRequest(jar) \in Message /\ Harmless("logout", SessionRequest(jar))
        /\ Request(FALSE, None) \in Message /\ Harmless("login", Request(FALSE, None))
    BY <1>t, BrowserAssumption
    DEF Harmless, CallRequest, SessionRequest, Request, Message, TypeOK, Cookies, Token, Rotated
  <2>4. CASE \E k \in Call : ServeCall(t, k)
    BY <2>0, <2>1, <2>2, <2>4 DEF ServeCall, Reply
  <2>5. CASE \E k \in Call : Send(t, k)
    BY <2>0, <2>3, <2>5 DEF Send
  <2>6. CASE ServeLogout(t)
    BY <2>1, <2>6, Fetches DEF ServeLogout, Reply
  <2>7. CASE Login(t) \/ Logout(t)
    BY <2>3, <2>7, Fetches DEF Login, Logout
  <2> QED BY <2>4, <2>5, <2>6, <2>7
<1>3. PICK f \in Fetch \ {"refresh"}, m \in {None} \cup Message :
         wire' = [wire EXCEPT ![t][f] = m] /\ Harmless(f, m)
  BY <1>2
<1>4. lost' = lost /\ jar' = jar
  BY DEF ServeCall, Send, ServeLogout, Login, Logout
<1> QED BY <1>t, <1>1, <1>3, <1>4, WireKept, HarmlessStep

LEMMA TokenExpire == ASSUME TokenInv, TypeOK', Expire \/ ExpireSession PROVE TokenInv'
<1>1. jar'.refresh = jar.refresh /\ lost' = lost /\ wire' = wire
  BY DEF Expire, ExpireSession, TokenInv, TypeOK, Cookies
<1>2. \A s \in Session : sessions'[s] = "rotated" => sessions[s] = "rotated"
  BY DEF Expire, ExpireSession, TokenInv, TypeOK
<1> QED BY <1>1, <1>2, HarmlessStep

LEMMA TokenLost ==
    ASSUME TokenInv, TypeOK', NEW t \in Tab, NEW f \in Fetch, Break(t, f) \/ Lose(t, f)
    PROVE  TokenInv'
<1>1. CASE lost'
  BY <1>1 DEF TokenInv
<1>2. CASE ~lost'
  <2>1. /\ wire' = [wire EXCEPT ![t][f] = None] /\ UNCHANGED <<jar, sessions>>
        /\ f = "refresh" => ~Brings(t, f)
        /\ lost' = lost
    BY <1>2 DEF Break, Lose, Reject, Brings, Asked, Answered, TokenInv, TypeOK
  <2>2. Harmless(f, None)
    BY DEF Harmless
  <2>3. /\ \A u \in Tab, g \in Fetch : wire'[u][g] = wire[u][g] \/ Harmless(g, wire'[u][g])
        /\ \A u \in Tab : Brings(u, "refresh") => wire'[u]["refresh"] = wire[u]["refresh"]
    BY <2>1, <2>2, WireKept DEF TokenInv
  <2> QED BY <2>1, <2>3, HarmlessStep
<1> QED BY <1>1, <1>2

\* A refusal starts a refresh with the cookie as it is.
LEMMA TokenReceive ==
    ASSUME TokenInv, TypeOK', RefreshesApart', NEW t \in Tab, NEW k \in Call, Receive(t, k)
    PROVE  TokenInv'
<1>t. TypeOK /\ k \in Fetch /\ k # "refresh" /\ UNCHANGED <<jar, sessions, lost>>
  BY Fetches, BrowserAssumption DEF TokenInv, Receive
<1>1. CASE lost
  BY <1>t, <1>1 DEF TokenInv
<1>2. CASE ~lost /\ wire' = [wire EXCEPT ![t][k] = None]
  <2>1. /\ \A u \in Tab, g \in Fetch : wire'[u][g] = wire[u][g] \/ Harmless(g, wire'[u][g])
        /\ \A u \in Tab : Brings(u, "refresh") => wire'[u]["refresh"] = wire[u]["refresh"]
    BY <1>t, <1>2, WireKept DEF Harmless
  <2> QED BY <1>t, <2>1, HarmlessStep
<1>3. CASE /\ ~lost
           /\ refreshing' = [refreshing EXCEPT ![t] = TRUE]
           /\ wire' = [wire EXCEPT ![t][k] = None,
                                   ![t]["refresh"] = IF Joins(t) THEN @ ELSE SessionRequest(jar)]
  <2>1. \A u \in Tab, g \in Fetch :
          wire'[u][g] = IF u = t /\ g = k THEN None
                        ELSE IF u = t /\ g = "refresh" /\ ~Joins(t) THEN SessionRequest(jar)
                        ELSE wire[u][g]
    BY <1>t, <1>3, Fetches DEF TypeOK
  <2>2. ASSUME ~Joins(t) PROVE Harmless("refresh", SessionRequest(jar)) /\ ~Brings(t, "refresh")
    <3>1. ~Brings(t, "refresh")
      BY <1>t, <2>2 DEF Brings, Answered, Joins, TypeOK
    <3>2. ASSUME NEW u \in Tab, Brings(u, "refresh") PROVE FALSE
      <4>1. refreshing[u] /\ u # t
        BY <1>t, <3>1, <3>2 DEF Brings, Answered, TypeOK
      <4>2. refreshing'[u] /\ refreshing'[t]
        BY <1>t, <1>3, <4>1 DEF TypeOK
      <4> QED BY <4>1, <4>2 DEF RefreshesApart
    <3>3. ~Rotated(jar.refresh)
      BY <1>3, <3>2 DEF TokenInv, KeepsNone
    <3> QED BY <3>1, <3>3 DEF Harmless, SessionRequest, Request
  <2>3. /\ \A u \in Tab, g \in Fetch : wire'[u][g] = wire[u][g] \/ Harmless(g, wire'[u][g])
        /\ \A u \in Tab : Brings(u, "refresh") => wire'[u]["refresh"] = wire[u]["refresh"]
    <3>1. \A g \in Fetch : Harmless(g, None)
      BY DEF Harmless
    <3> QED BY <1>t, <2>1, <2>2, <3>1, Fetches
  <2> QED BY <1>t, <2>3, HarmlessStep
<1> QED BY <1>1, <1>2, <1>3 DEF Receive

\* A fresh token, on its way to the browser.
Brought(new) == Answer(TRUE, new)

LEMMA BroughtMessage ==
    ASSUME NEW new \in Session
    PROVE  Brought(new) # None /\ Brought(new).stage = "answer" /\ Brought(new).set = new
<1>1. Brought(new) \in Message
  BY Messages DEF Brought
<1>2. Brought(new) = [stage |-> "answer", ok |-> TRUE, set |-> new]
  BY DEF Brought, Answer
<1>3. Brought(new) # None
  BY <1>1, BrowserAssumption
<1>4. Brought(new).stage = "answer" /\ Brought(new).set = new
  BY <1>2
<1> QED BY <1>3, <1>4

LEMMA BringStep ==
    ASSUME TokenInv, TypeOK', ~lost, NEW t \in Tab, NEW f \in Fetch, NEW new \in Session,
           NEW m, m # None, m.stage = "answer", m.set = new,
           Fresh(new), wire' = [wire EXCEPT ![t][f] = m], jar' = jar, lost' = lost,
           sessions'[new] # "rotated", Asked(t, f),
           \A s \in Session : sessions'[s] = "rotated" =>
               sessions[s] = "rotated" \/ (f = "refresh" /\ s = wire[t][f].refresh),
           f = "refresh" => \A u \in Tab : Asked(u, "refresh") => u = t
    PROVE  TokenInv'
<1>t. TypeOK /\ KeepsNone /\ SendsNone /\ BringsNew
  BY DEF TokenInv
<1>1. \A u \in Tab, g \in Fetch : wire'[u][g] = IF u = t /\ g = f THEN m ELSE wire[u][g]
  BY <1>t DEF TypeOK
<1>2. Brings(t, f)' /\ wire'[t][f].set = new /\ ~Asked(t, f)' /\ ~Brings(t, f)
  BY <1>1 DEF Brings, Answered, Asked
<1>3. \A u \in Tab, g \in Fetch : u # t \/ g # f =>
         /\ wire'[u][g] = wire[u][g]
         /\ Brings(u, g)' <=> Brings(u, g)
         /\ Asked(u, g)' <=> Asked(u, g)
  <2> SUFFICES ASSUME NEW u \in Tab, NEW g \in Fetch, u # t \/ g # f
               PROVE  /\ wire'[u][g] = wire[u][g]
                      /\ Brings(u, g)' <=> Brings(u, g)
                      /\ Asked(u, g)' <=> Asked(u, g)
    OBVIOUS
  <2>1. wire'[u][g] = wire[u][g]
    BY <1>1
  <2> QED BY <2>1 DEF Brings, Answered, Asked
<1>4. KeepsNone'
  <2>1. CASE f = "refresh"
    BY <1>2, <2>1 DEF KeepsNone
  <2>2. CASE f # "refresh"
    BY <1>t, <1>3, <2>2, Fetches DEF KeepsNone, Rotated
  <2> QED BY <2>1, <2>2
<1>5. SendsNone'
  BY <1>t, <1>2, <1>3, Fetches DEF SendsNone, Rotated
<1>6. BringsNew'
  <2> SUFFICES ASSUME NEW u \in Tab, NEW g \in Fetch, Brings(u, g)'
               PROVE  /\ ~Rotated(wire[u][g].set)' /\ jar'.refresh # wire'[u][g].set
                      /\ \A v \in Tab, h \in Fetch :
                            /\ Asked(v, h)' => wire'[v][h].refresh # wire'[u][g].set
                            /\ Brings(v, h)' /\ wire'[v][h].set = wire'[u][g].set => v = u /\ h = g
    BY DEF BringsNew
  <2>1. \A v \in Tab, h \in Fetch : Brings(v, h) => wire[v][h].set # new
    BY DEF Fresh, Brings
  <2>2. CASE u = t /\ g = f
    <3>1. jar.refresh # new /\ \A v \in Tab, h \in Fetch : Asked(v, h) => wire[v][h].refresh # new
      BY DEF Fresh
    <3> QED BY <1>2, <1>3, <2>1, <2>2, <3>1 DEF Rotated
  <2>3. CASE u # t \/ g # f
    <3>1. wire'[u][g] = wire[u][g] /\ Brings(u, g)
      BY <1>3, <2>3
    <3>2. ~Rotated(wire[u][g].set)'
      <4>1. ~Rotated(wire[u][g].set) /\ wire[t][f].refresh # wire[u][g].set
        BY <1>t, <3>1 DEF BringsNew
      <4> QED BY <3>1, <4>1 DEF Rotated
    <3>3. jar'.refresh # wire'[u][g].set
      BY <1>t, <3>1 DEF BringsNew
    <3>4. ASSUME NEW v \in Tab, NEW h \in Fetch, Asked(v, h)'
          PROVE  wire'[v][h].refresh # wire'[u][g].set
      BY <1>t, <1>2, <1>3, <3>1, <3>4 DEF BringsNew
    <3>5. ASSUME NEW v \in Tab, NEW h \in Fetch, Brings(v, h)', wire'[v][h].set = wire'[u][g].set
          PROVE  v = u /\ h = g
      BY <1>t, <1>2, <1>3, <2>1, <3>1, <3>5 DEF BringsNew
    <3> QED BY <3>2, <3>3, <3>4, <3>5
  <2> QED BY <2>2, <2>3
<1> QED BY <1>4, <1>5, <1>6 DEF TokenInv

LEMMA TokenServe ==
    ASSUME TokenInv, TypeOK', RefreshesApart, NEW t \in Tab, ServeRefresh(t) \/ ServeLogin(t)
    PROVE  TokenInv'
<1>t. TypeOK /\ jar' = jar /\ lost' = lost
  BY DEF TokenInv, ServeRefresh, ServeLogin
<1>0. CASE lost
  BY <1>t, <1>0 DEF TokenInv
<1>1. CASE ~lost /\ ServeLogin(t)
  <2>1. PICK new \in Session : /\ Fresh(new)
                               /\ sessions' = [sessions EXCEPT ![new] = "live"]
                               /\ Reply(t, "login", TRUE, new)
    BY <1>1 DEF ServeLogin
  <2>2. /\ sessions'[new] # "rotated"
        /\ \A s \in Session : sessions'[s] = "rotated" => sessions[s] = "rotated"
    BY <1>t, <2>1 DEF TypeOK
  <2>3. Asked(t, "login") /\ wire' = [wire EXCEPT ![t]["login"] = Brought(new)]
    BY <1>1, <2>1 DEF ServeLogin, Reply, Brought
  <2> QED BY <1>t, <1>1, <2>1, <2>2, <2>3, Fetches, BroughtMessage, BringStep
<1>2. CASE ~lost /\ ServeRefresh(t)
  <2> DEFINE s == wire[t]["refresh"].refresh
  <2>1. Asked(t, "refresh")
    BY <1>2 DEF ServeRefresh
  <2>2. \A u \in Tab : Asked(u, "refresh") => u = t
    BY <1>t, <2>1 DEF RefreshesApart, Asked, TypeOK
  <2>3. CASE s \in Live
    <3>1. PICK new \in Session : /\ Fresh(new)
                                 /\ sessions' = [sessions EXCEPT ![s] = "rotated", ![new] = "live"]
                                 /\ Reply(t, "refresh", TRUE, new)
      BY <1>2, <2>3 DEF ServeRefresh
    <3>2. /\ sessions'[new] # "rotated"
          /\ \A x \in Session : sessions'[x] = "rotated" => sessions[x] = "rotated" \/ x = s
      BY <1>t, <2>3, <3>1 DEF TypeOK, Live
    <3>3. wire' = [wire EXCEPT ![t]["refresh"] = Brought(new)]
      BY <3>1 DEF Reply, Brought
    <3>4. Brought(new) # None /\ Brought(new).stage = "answer" /\ Brought(new).set = new
      BY BroughtMessage
    <3>5. Fresh(new) /\ "refresh" \in Fetch
      BY <3>1, Fetches
    <3> QED BY <1>t, <1>2, <2>1, <2>2, <3>2, <3>3, <3>4, <3>5, BringStep
  <2>4. CASE s \notin Live
    <3>1. wire' = [wire EXCEPT ![t]["refresh"] = Answer(FALSE, "keep")]
      BY <1>2, <2>4 DEF ServeRefresh, Reply
    <3>2. \A x \in Session : sessions'[x] = "rotated" => sessions[x] = "rotated"
      <4>1. sessions' = sessions
            \/ sessions' = [x \in Session |-> IF x \in Live THEN "dead" ELSE sessions[x]]
        BY <1>2, <2>4 DEF ServeRefresh
      <4> QED BY <4>1
    <3>3. Harmless("refresh", Answer(FALSE, "keep"))
      BY BrowserAssumption DEF Harmless, Answer
    <3>4. ~Brings(t, "refresh")
      BY <2>1 DEF Brings, Answered, Asked
    <3>5. /\ \A u \in Tab, g \in Fetch : wire'[u][g] = wire[u][g] \/ Harmless(g, wire'[u][g])
          /\ \A u \in Tab : Brings(u, "refresh") => wire'[u]["refresh"] = wire[u]["refresh"]
      BY <1>t, <3>1, <3>3, <3>4, Fetches, WireKept
    <3> QED BY <1>t, <3>2, <3>5, HarmlessStep
  <2> QED BY <2>3, <2>4
<1> QED BY <1>0, <1>1, <1>2

\* The answer that brought a token is stored, and sends no session token.
LEMMA StoreStep ==
    ASSUME TokenInv, TypeOK', NEW t \in Tab, NEW f \in Fetch, Answered(t, f),
           jar' = Stored(wire[t][f].set), sessions' = sessions, lost' = lost,
           \A u \in Tab, g \in Fetch :
              \/ /\ wire'[u][g] = wire[u][g] /\ (u # t \/ g # f)
              \/ wire'[u][g] = None
              \/ wire'[u][g].stage = "request" /\ wire'[u][g].refresh = None,
           \A u \in Tab : Brings(u, "refresh") =>
              wire'[u]["refresh"] = wire[u]["refresh"] \/ (u = t /\ f = "refresh")
    PROVE  TokenInv'
<1>t. TypeOK /\ wire[t][f].set \in {"keep", "clear"} \cup Session
  BY StoredCookies DEF TokenInv
<1>1. CASE lost
  BY <1>1 DEF TokenInv
<1>2. CASE wire[t][f].set \notin Session
  <2>1. jar'.refresh \in {None, jar.refresh}
    BY <1>t, <1>2 DEF Stored
  <2>2. \A u \in Tab, g \in Fetch : wire'[u][g] = wire[u][g] \/ Harmless(g, wire'[u][g])
    BY BrowserAssumption DEF Harmless, Rotated
  <2>3. \A u \in Tab : Brings(u, "refresh") => wire'[u]["refresh"] = wire[u]["refresh"]
    BY <1>2 DEF Brings
  <2> QED BY <2>1, <2>2, <2>3, HarmlessStep
<1>3. CASE ~lost /\ wire[t][f].set \in Session
  <2> DEFINE s == wire[t][f].set
  <2>1. KeepsNone /\ SendsNone /\ BringsNew /\ Brings(t, f)
    BY <1>3 DEF TokenInv, Brings
  <2>2. jar'.refresh = s /\ s \in Session /\ sessions[s] # "rotated"
    BY <1>3, <2>1, BrowserAssumption DEF Stored, BringsNew, Rotated
  <2>3. \A u \in Tab, g \in Fetch :
          /\ Brings(u, g)' => Brings(u, g) /\ wire'[u][g] = wire[u][g] /\ (u # t \/ g # f)
          /\ Asked(u, g)' => \/ Asked(u, g) /\ wire'[u][g] = wire[u][g]
                             \/ wire'[u][g].refresh = None
    BY DEF Brings, Answered, Asked
  <2>4. KeepsNone'
    BY <2>2 DEF KeepsNone, Rotated
  <2>5. SendsNone'
    BY <2>1, <2>3, Fetches, BrowserAssumption DEF SendsNone, Rotated
  <2>6. BringsNew'
    <3> SUFFICES ASSUME NEW u \in Tab, NEW g \in Fetch, Brings(u, g)'
                 PROVE  /\ ~Rotated(wire[u][g].set)' /\ jar'.refresh # wire'[u][g].set
                        /\ \A v \in Tab, h \in Fetch :
                              /\ Asked(v, h)' => wire'[v][h].refresh # wire'[u][g].set
                              /\ Brings(v, h)' /\ wire'[v][h].set = wire'[u][g].set
                                    => v = u /\ h = g
      BY DEF BringsNew
    <3>1. /\ Brings(u, g) /\ wire'[u][g] = wire[u][g] /\ (u # t \/ g # f)
          /\ wire[u][g].set \in Session /\ wire[u][g].set # None
      BY <2>3, BrowserAssumption DEF Brings
    <3>2. ~Rotated(wire[u][g].set)'
      BY <2>1, <3>1 DEF BringsNew, Rotated
    <3>3. jar'.refresh # wire'[u][g].set
      BY <2>1, <2>2, <3>1 DEF BringsNew
    <3>4. ASSUME NEW v \in Tab, NEW h \in Fetch, Asked(v, h)'
          PROVE  wire'[v][h].refresh # wire'[u][g].set
      BY <2>1, <2>3, <3>1, <3>4 DEF BringsNew
    <3>5. ASSUME NEW v \in Tab, NEW h \in Fetch, Brings(v, h)', wire'[v][h].set = wire'[u][g].set
          PROVE  v = u /\ h = g
      BY <2>1, <2>3, <3>1, <3>5 DEF BringsNew
    <3> QED BY <3>2, <3>3, <3>4, <3>5
  <2> QED BY <2>4, <2>5, <2>6 DEF TokenInv
<1> QED BY <1>1, <1>2, <1>3

LEMMA TokenStore ==
    ASSUME TokenInv, TypeOK', NEW t \in Tab,
           ReceiveRefresh(t) \/ ReceiveLogin(t) \/ ReceiveLogout(t)
    PROVE  TokenInv'
<1>t. TypeOK
  BY DEF TokenInv
<1>1. ASSUME NEW f \in {"login", "logout"}, Answered(t, f), jar' = Stored(wire[t][f].set),
             wire' = [wire EXCEPT ![t][f] = None], sessions' = sessions, lost' = lost
      PROVE  TokenInv'
  <2>1. f \in Fetch
    BY Fetches
  <2>2. \A u \in Tab, g \in Fetch : wire'[u][g] = IF u = t /\ g = f THEN None ELSE wire[u][g]
    BY <1>t, <1>1, <2>1, WireAt
  <2> QED BY <1>1, <2>1, <2>2, StoreStep
<1>2. CASE ReceiveLogin(t) \/ ReceiveLogout(t)
  BY <1>1, <1>2 DEF ReceiveLogin, ReceiveLogout
<1>3. CASE ReceiveRefresh(t)
  <2> DEFINE w == [f \in Fetch |-> IF f = "refresh" THEN None
                                   ELSE IF wire[t]["refresh"].ok /\ f \in Waiting(t)
                                     THEN CallRequest(jar') ELSE wire[t][f]]
  <2>1. wire' = [wire EXCEPT ![t] = w]
    BY <1>3, <1>t DEF ReceiveRefresh, TypeOK
  <2>2. CallRequest(jar').stage = "request" /\ CallRequest(jar').refresh = None
    BY DEF CallRequest, Request
  <2>3. \A g \in Fetch : \/ w[g] = wire[t][g] /\ g # "refresh"
                         \/ w[g] = None
                         \/ w[g].stage = "request" /\ w[g].refresh = None
    BY <2>2
  <2> HIDE DEF w
  <2>4. wire'[t] = w /\ \A u \in Tab \ {t} : wire'[u] = wire[u]
    BY <2>1, <1>t DEF TypeOK
  <2>5. \A u \in Tab, g \in Fetch :
              \/ wire'[u][g] = wire[u][g] /\ (u # t \/ g # "refresh")
              \/ wire'[u][g] = None
              \/ wire'[u][g].stage = "request" /\ wire'[u][g].refresh = None
    BY <2>3, <2>4
  <2>6. /\ Answered(t, "refresh") /\ jar' = Stored(wire[t]["refresh"].set)
        /\ sessions' = sessions /\ lost' = lost
    BY <1>3 DEF ReceiveRefresh
  <2> QED BY <2>4, <2>5, <2>6, Fetches, StoreStep
<1> QED BY <1>2, <1>3

LEMMA TokenStep ==
    ASSUME TokenInv, RefreshesApart, RefreshesApart', [Next]_vars PROVE TokenInv'
<1>1. TypeOK'
  BY TypeStep DEF TokenInv
<1>2. ASSUME NEW t \in Tab, Deliver(t) PROVE TokenInv'
  BY <1>1, <1>2, TokenSimple, TokenReceive, TokenServe, TokenStore DEF Deliver
<1>3. ASSUME NEW t \in Tab, Login(t) \/ Logout(t) \/ \E k \in Call : Send(t, k) PROVE TokenInv'
  BY <1>1, <1>3, TokenSimple
<1>4. ASSUME NEW t \in Tab, NEW f \in Fetch, Break(t, f) \/ Lose(t, f) PROVE TokenInv'
  BY <1>1, <1>4, TokenLost
<1>5. CASE UNCHANGED vars
  BY <1>1, <1>5, HarmlessStep DEF vars
<1> QED BY <1>1, <1>2, <1>3, <1>4, <1>5, TokenExpire DEF Next

LEMMA TokenInit == Init => TokenInv
<1>1. Init => \A t \in Tab, f \in Fetch : ~Asked(t, f) /\ ~Brings(t, f)
  BY DEF Init, Asked, Brings, Answered
<1>2. Init => ~Rotated(jar.refresh)
  BY BrowserAssumption DEF Init, Rotated
<1> QED BY <1>1, <1>2, TypeInit, Fetches DEF TokenInv, KeepsNone, SendsNone, BringsNew

LEMMA NoReuse == TokenInv => NeverReused
<1> SUFFICES ASSUME TokenInv, ~lost
             PROVE  /\ \A t \in Tab : Asked(t, "refresh") /\ wire[t]["refresh"].refresh # None
                          => sessions[wire[t]["refresh"].refresh] # "rotated"
                    /\ Quiet /\ jar.refresh # None => sessions[jar.refresh] # "rotated"
  BY DEF NeverReused
<1>1. \A t \in Tab : Asked(t, "refresh") => wire[t]["refresh"].refresh \in Token
  BY Fetches DEF TokenInv, TypeOK, Asked, Message
<1>2. jar.refresh \in Token
  BY DEF TokenInv, TypeOK, Cookies
<1>3. Quiet => \A t \in Tab : ~Brings(t, "refresh")
  BY Fetches DEF Quiet, Brings, Answered
<1> QED BY <1>1, <1>2, <1>3 DEF TokenInv, KeepsNone, SendsNone, Rotated, Token

\* The browser never presents a rotated token unless an answer to a refresh was
\* lost (NeverReused), for any number of calls and sessions, as long as no two
\* tabs refresh at once: refreshRequest keeps those of one tab apart.
THEOREM TokensNotReused == Spec /\ []RefreshesApart => []NeverReused
<1>1. TokenInv /\ RefreshesApart /\ RefreshesApart' /\ [Next]_vars => TokenInv'
  BY TokenStep
<1> QED BY <1>1, TokenInit, NoReuse, PTL DEF Spec

\* One tab needs no more than that (NeverReused).
THEOREM OneTabNeverReuses == (\A t, u \in Tab : t = u) => (Spec => []NeverReused)
<1> SUFFICES ASSUME \A t, u \in Tab : t = u PROVE Spec => []NeverReused
  OBVIOUS
<1>1. RefreshesApart
  BY DEF RefreshesApart
<1> QED BY <1>1, TokensNotReused, PTL
=============================================================================
