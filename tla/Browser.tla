------------------------------ MODULE Browser ------------------------------
(***************************************************************************)
(* One browser and its session: the API client of every open tab           *)
(* (frontend/lib/api.ts), the cookies the tabs share, and the endpoints    *)
(* that set and clear them (handlers/auth.rs, guards.rs).                  *)
(*                                                                         *)
(* A fetch sends the cookies as they are when it leaves; what comes back   *)
(* in Set-Cookie is stored when the answer arrives.  In between the other  *)
(* fetches run, and requests and answers overtake each other.  In a tab    *)
(* JavaScript runs one continuation at a time: those that wait for one     *)
(* refresh all run before anything else arrives.                           *)
(*                                                                         *)
(* The endpoints are atomic here; module Auth has their statements and     *)
(* shows that a token is exchanged once.  The access cookie lives as long  *)
(* as the token in it, so it is there or not.                              *)
(***************************************************************************)
EXTENDS Integers, FiniteSets

CONSTANTS
    Tab,        \* open tabs of one browser
    Call,       \* API calls a tab may have open at once
    Session,    \* ids of refresh sessions
    None

Token == Session \cup {None}
Fetch == Call \cup {"refresh", "login", "logout"}

Cookies == [access : BOOLEAN, refresh : Token]
Message == [stage : {"request"}, access : BOOLEAN, refresh : Token]
           \cup [stage : {"answer"}, ok : BOOLEAN, set : {"keep", "clear"} \cup Session]

ASSUME BrowserAssumption ==
    /\ None \notin Session /\ None \notin Message
    /\ {"keep", "clear"} \cap Session = {}
    /\ {"refresh", "login", "logout"} \cap Call = {}

VARIABLES
    jar,        \* the two cookies
    sessions,   \* refresh sessions of the user, as the server has them
    call,       \* per tab and call, how far `request' is
    refreshing, \* per tab, refreshRequest is set
    signedIn,   \* per tab, the session query has a user
    wire,       \* per tab and fetch, the request or answer on its way
    lost        \* an answer to a refresh was lost

vars == <<jar, sessions, call, refreshing, signedIn, wire, lost>>

Asked(t, f)    == wire[t][f] # None /\ wire[t][f].stage = "request"
Answered(t, f) == wire[t][f] # None /\ wire[t][f].stage = "answer"

\* Every request takes the cookies along; here it has those the server looks at.
Request(access, token)  == [stage |-> "request", access |-> access, refresh |-> token]
CallRequest(cookies)    == Request(cookies.access, None)
SessionRequest(cookies) == Request(FALSE, cookies.refresh)
Answer(ok, set) == [stage |-> "answer", ok |-> ok, set |-> set]

\* The request on wire[t][f] gets its answer.
Reply(t, f, ok, set) == wire' = [wire EXCEPT ![t][f] = Answer(ok, set)]

Live == {s \in Session : sessions[s] = "live"}

\* A fresh id; one that nobody can present any more serves as well, as its
\* session has expired by then or could have.
Fresh(s) == /\ s # jar.refresh
            /\ \A t \in Tab, f \in Fetch : /\ Asked(t, f) => wire[t][f].refresh # s
                                           /\ Answered(t, f) => wire[t][f].set # s

Init ==
    /\ jar = [access |-> FALSE, refresh |-> None]
    /\ sessions = [s \in Session |-> "none"]
    /\ call = [t \in Tab |-> [k \in Call |-> "idle"]]
    /\ refreshing = [t \in Tab |-> FALSE]
    /\ signedIn = [t \in Tab |-> FALSE]
    /\ wire = [t \in Tab |-> [f \in Fetch |-> None]]
    /\ lost = FALSE

\* Set-Cookie of an answer.
Stored(set) == IF set = "keep" THEN jar
               ELSE IF set = "clear" THEN [access |-> FALSE, refresh |-> None]
               ELSE [access |-> TRUE, refresh |-> set]

\* max_age of the access cookie is over.
Expire ==
    /\ jar.access /\ jar' = [jar EXCEPT !.access = FALSE]
    /\ UNCHANGED <<sessions, call, refreshing, signedIn, wire, lost>>

\* expires_at of a session is over; it is refused like a revoked one.
ExpireSession ==
    /\ \E s \in Live : sessions' = [sessions EXCEPT ![s] = "dead"]
    /\ UNCHANGED <<jar, call, refreshing, signedIn, wire, lost>>

-----------------------------------------------------------------------------
(* The server.                                                             *)

\* AuthUser: a request without a valid access cookie is refused.
ServeCall(t, k) ==
    /\ Asked(t, k)
    /\ Reply(t, k, wire[t][k].access, "keep")
    /\ UNCHANGED <<jar, sessions, call, refreshing, signedIn, lost>>

\* refresh: a live session is rotated and its cookies are set; the reuse of a
\* rotated one revokes every session of the user.  A refusal sets no cookie.
ServeRefresh(t) ==
    /\ Asked(t, "refresh")
    /\ LET s == wire[t]["refresh"].refresh IN
       \/ /\ s \in Live
          /\ \E new \in Session :
                /\ Fresh(new)
                /\ sessions' = [sessions EXCEPT ![s] = "rotated", ![new] = "live"]
                /\ Reply(t, "refresh", TRUE, new)
       \/ /\ s \notin Live
          /\ sessions' = IF s # None /\ sessions[s] = "rotated"
                         THEN [x \in Session |-> IF x \in Live THEN "dead" ELSE sessions[x]]
                         ELSE sessions
          /\ Reply(t, "refresh", FALSE, "keep")
    /\ UNCHANGED <<jar, call, refreshing, signedIn, lost>>

ServeLogin(t) ==
    /\ Asked(t, "login")
    /\ \E new \in Session : /\ Fresh(new)
                            /\ sessions' = [sessions EXCEPT ![new] = "live"]
                            /\ Reply(t, "login", TRUE, new)
    /\ UNCHANGED <<jar, call, refreshing, signedIn, lost>>

\* logout: revokes the session of the cookie, if there is one, and clears
\* both cookies; a rotated session stays what it is.
ServeLogout(t) ==
    /\ Asked(t, "logout")
    /\ sessions' = [s \in Session |-> IF s \in Live /\ s = wire[t]["logout"].refresh
                                      THEN "dead" ELSE sessions[s]]
    /\ Reply(t, "logout", TRUE, "clear")
    /\ UNCHANGED <<jar, call, refreshing, signedIn, lost>>

-----------------------------------------------------------------------------
(* The tabs.                                                               *)

\* request: a page asks for something.
Send(t, k) ==
    /\ call[t][k] = "idle"
    /\ call' = [call EXCEPT ![t][k] = "sent"]
    /\ wire' = [wire EXCEPT ![t][k] = CallRequest(jar)]
    /\ UNCHANGED <<jar, sessions, refreshing, signedIn, lost>>

\* Faulty variant: every call that is refused starts a refresh of its own.
JoinsNever(t) == FALSE

\* refreshAccessToken: one refresh at a time, the others wait for it.
Joins(t) == refreshing[t]

\* An answer to a call.  The first 401 asks for a refresh; the second one is
\* an error, which sends the tab to the sign-in page.
Receive(t, k) ==
    /\ Answered(t, k)
    /\ IF wire[t][k].ok
         THEN /\ call' = [call EXCEPT ![t][k] = "idle"]
              /\ signedIn' = [signedIn EXCEPT ![t] = TRUE]
              /\ wire' = [wire EXCEPT ![t][k] = None]
              /\ UNCHANGED refreshing
       ELSE IF call[t][k] = "retried"
         THEN /\ call' = [call EXCEPT ![t][k] = "idle"]
              /\ signedIn' = [signedIn EXCEPT ![t] = FALSE]
              /\ wire' = [wire EXCEPT ![t][k] = None]
              /\ UNCHANGED refreshing
         ELSE /\ call' = [call EXCEPT ![t][k] = "waiting"]
              /\ refreshing' = [refreshing EXCEPT ![t] = TRUE]
              /\ wire' = [wire EXCEPT ![t][k] = None,
                                      ![t]["refresh"] = IF Joins(t) THEN @ ELSE SessionRequest(jar)]
              /\ UNCHANGED signedIn
    /\ UNCHANGED <<jar, sessions, lost>>

Waiting(t) == {k \in Call : call[t][k] = "waiting"}

\* Faulty variant: a refresh that is refused asks, as any call does, for a
\* refresh, and waits for itself.
ReceiveRefreshJoins(t) ==
    /\ Answered(t, "refresh") /\ wire[t]["refresh"].ok
    /\ jar' = Stored(wire[t]["refresh"].set)
    /\ refreshing' = [refreshing EXCEPT ![t] = FALSE]
    /\ call' = [call EXCEPT ![t] = [k \in Call |-> IF k \in Waiting(t) THEN "retried" ELSE @[k]]]
    /\ wire' = [wire EXCEPT ![t] = [f \in Fetch |-> IF f = "refresh" THEN None
                                                    ELSE IF f \in Waiting(t) THEN CallRequest(jar')
                                                    ELSE @[f]]]
    /\ UNCHANGED <<sessions, signedIn, lost>>

\* Faulty variant: refreshRequest is reset only when the refresh failed.
ReceiveRefreshKeeps(t) ==
    /\ Answered(t, "refresh")
    /\ LET ok == wire[t]["refresh"].ok IN
       /\ jar' = Stored(wire[t]["refresh"].set)
       /\ refreshing' = [refreshing EXCEPT ![t] = ok]
       /\ call' = [call EXCEPT ![t] = [k \in Call |->
                     IF k \in Waiting(t) THEN IF ok THEN "retried" ELSE "idle" ELSE @[k]]]
       /\ wire' = [wire EXCEPT ![t] = [f \in Fetch |->
                     IF f = "refresh" THEN None
                     ELSE IF ok /\ f \in Waiting(t) THEN CallRequest(jar') ELSE @[f]]]
       /\ signedIn' = [signedIn EXCEPT ![t] = @ /\ (ok \/ Waiting(t) = {})]
    /\ UNCHANGED <<sessions, lost>>

\* The answer to a refresh: the calls that wait for it are sent again, or fail
\* with the 401 they had.
ReceiveRefresh(t) ==
    /\ Answered(t, "refresh")
    /\ LET ok == wire[t]["refresh"].ok IN
       /\ jar' = Stored(wire[t]["refresh"].set)
       /\ refreshing' = [refreshing EXCEPT ![t] = FALSE]
       /\ call' = [call EXCEPT ![t] = [k \in Call |->
                     IF k \in Waiting(t) THEN IF ok THEN "retried" ELSE "idle" ELSE @[k]]]
       /\ wire' = [wire EXCEPT ![t] = [f \in Fetch |->
                     IF f = "refresh" THEN None
                     ELSE IF ok /\ f \in Waiting(t) THEN CallRequest(jar') ELSE @[f]]]
       /\ signedIn' = [signedIn EXCEPT ![t] = @ /\ (ok \/ Waiting(t) = {})]
    /\ UNCHANGED <<sessions, lost>>

Login(t) ==
    /\ ~signedIn[t] /\ wire[t]["login"] = None
    /\ wire' = [wire EXCEPT ![t]["login"] = Request(FALSE, None)]
    /\ UNCHANGED <<jar, sessions, call, refreshing, signedIn, lost>>

ReceiveLogin(t) ==
    /\ Answered(t, "login")
    /\ jar' = Stored(wire[t]["login"].set)
    /\ signedIn' = [signedIn EXCEPT ![t] = TRUE]
    /\ wire' = [wire EXCEPT ![t]["login"] = None]
    /\ UNCHANGED <<sessions, call, refreshing, lost>>

Logout(t) ==
    /\ signedIn[t] /\ wire[t]["logout"] = None
    /\ wire' = [wire EXCEPT ![t]["logout"] = SessionRequest(jar)]
    /\ UNCHANGED <<jar, sessions, call, refreshing, signedIn, lost>>

ReceiveLogout(t) ==
    /\ Answered(t, "logout")
    /\ jar' = Stored(wire[t]["logout"].set)
    /\ signedIn' = [signedIn EXCEPT ![t] = FALSE]
    /\ wire' = [wire EXCEPT ![t]["logout"] = None]
    /\ UNCHANGED <<sessions, call, refreshing, lost>>

\* fetch rejects, and so do the calls that wait for a refresh.
Reject(t, f) ==
    /\ wire' = [wire EXCEPT ![t][f] = None]
    /\ call' = [call EXCEPT ![t] = [k \in Call |->
                  IF k = f \/ (f = "refresh" /\ k \in Waiting(t)) THEN "idle" ELSE @[k]]]
    /\ refreshing' = [refreshing EXCEPT ![t] = @ /\ f # "refresh"]
    /\ UNCHANGED <<jar, sessions, signedIn>>

\* The connection breaks before the server has the request ...
Break(t, f) == Asked(t, f) /\ Reject(t, f) /\ UNCHANGED lost

\* ... or after it has answered.
Lose(t, f) == Answered(t, f) /\ Reject(t, f) /\ lost' = (lost \/ f = "refresh")

Deliver(t) ==
    \/ \E k \in Call : ServeCall(t, k) \/ Receive(t, k)
    \/ ServeRefresh(t) \/ ReceiveRefresh(t)
    \/ ServeLogin(t) \/ ReceiveLogin(t)
    \/ ServeLogout(t) \/ ReceiveLogout(t)

Next ==
    \/ Expire \/ ExpireSession
    \/ \E t \in Tab : \/ Deliver(t) \/ Login(t) \/ Logout(t)
                      \/ \E k \in Call : Send(t, k)
                      \/ \E f \in Fetch : Break(t, f) \/ Lose(t, f)

\* What was sent is served and its answer arrives, or the connection breaks;
\* nobody has to click.
Fairness == \A t \in Tab :
    /\ \A k \in Call : WF_vars(ServeCall(t, k) \/ Receive(t, k) \/ Break(t, k))
    /\ WF_vars(ServeRefresh(t) \/ ReceiveRefresh(t) \/ Break(t, "refresh"))

Spec     == Init /\ [][Next]_vars
FairSpec == Spec /\ Fairness

-----------------------------------------------------------------------------
(* Properties.                                                             *)

\* The cookies, the calls and the messages are well formed; a call is on its
\* way or waits for a refresh, and a refresh on its way is refreshRequest.
TypeOK ==
    /\ jar \in Cookies
    /\ sessions \in [Session -> {"none", "live", "rotated", "dead"}]
    /\ call \in [Tab -> [Call -> {"idle", "sent", "waiting", "retried"}]]
    /\ refreshing \in [Tab -> BOOLEAN] /\ signedIn \in [Tab -> BOOLEAN]
    /\ wire \in [Tab -> [Fetch -> Message \cup {None}]]
    /\ lost \in BOOLEAN
    /\ \A t \in Tab : /\ refreshing[t] <=> wire[t]["refresh"] # None
                      /\ \A k \in Call : wire[t][k] # None <=> call[t][k] \in {"sent", "retried"}

Quiet == \A t \in Tab, f \in Fetch : wire[t][f] = None

\* An honest browser never looks like a thief: unless an answer was lost, no
\* refresh on its way carries a token that was rotated (refreshAccessToken,
\* refresh_session), and the browser keeps none when nothing is on its way, so
\* that its sessions are never revoked as a reuse.
NeverReused ==
    ~lost =>
       /\ \A t \in Tab : Asked(t, "refresh") /\ wire[t]["refresh"].refresh # None
                          => sessions[wire[t]["refresh"].refresh] # "rotated"
       /\ Quiet /\ jar.refresh # None => sessions[jar.refresh] # "rotated"

\* Every call of a page ends, with its answer or an error; no call waits for a
\* refresh that never comes (request, refreshAccessToken).
CallsEnd == \A t \in Tab, k \in Call : call[t][k] # "idle" ~> call[t][k] = "idle"
=============================================================================
