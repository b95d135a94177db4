------------------------------- MODULE Tokens -------------------------------
(***************************************************************************)
(* The tokens of one user.  A login issues an access and a refresh token,  *)
(* and a refresh issues a new pair.  logoutAll revokes every token issued  *)
(* in an earlier second: it reads the clock and then stores the second in  *)
(* Redis, under a key of the user that lives as long as a refresh token.   *)
(* Tokens are not stored: a token is good when it has not expired and the  *)
(* stored second, if there is one, is not after the second it was issued   *)
(* in.  Several logoutAll may overlap; those of different instances of the *)
(* service may store their seconds in another order than they read them.   *)
(*                                                                         *)
(* The gateway asks for a refresh in two calls: validateRefresh, then      *)
(* refresh, which does not look at the token again.  An access token is    *)
(* also refused when the identity is locked; that is left out here.        *)
(***************************************************************************)
EXTENDS Integers, FiniteSets

CONSTANTS Refreshes,       \* refresh requests at the same time
          AccessSeconds,   \* JWT_ACCESS_TOKEN_EXPIRATION
          RefreshSeconds,  \* JWT_REFRESH_TOKEN_EXPIRATION
          Parts,           \* instants that are told apart within a second
          MaxOverlap,      \* bound: seconds of logoutAll requests that overlap
          MaxSecond        \* bound: the clock

ASSUME TokensAssumption ==
    /\ AccessSeconds \in Nat /\ RefreshSeconds \in Nat
    /\ AccessSeconds <= RefreshSeconds
    /\ Parts \in Nat \ {0} /\ MaxOverlap \in Nat /\ MaxSecond \in Nat

VARIABLES second, part,   \* the time: whole seconds, and what Math.floor drops
          issued,         \* the pairs of tokens that were ever issued
          logout,         \* the key in Redis: its second, and when it was set
          logouts,        \* the seconds that logoutAll requests have read and may still store
          refresh         \* the refresh requests between their two calls

tokenVars == <<second, part, issued, logout, logouts, refresh>>

NoLogout == [second |-> -1, set |-> 0, part |-> 0]

\* old: the session has begun before the last logoutAll has read the clock.
Begun(old) == [iat |-> second, old |-> old]

TokensInit ==
    /\ second = 0 /\ part = 0
    /\ issued = {} /\ logout = NoLogout
    /\ logouts = {}
    /\ refresh = [r \in Refreshes |-> "idle"]

Tick ==
    /\ second < MaxSecond
    /\ IF part + 1 < Parts THEN part' = part + 1 /\ UNCHANGED second
                           ELSE part' = 0 /\ second' = second + 1
    /\ UNCHANGED <<issued, logout, logouts, refresh>>

(***************************************************************************)
(* The checks.                                                             *)
(***************************************************************************)
\* Redis forgets the key: setex counts from the instant it is called.
Remembered(seconds) ==
    /\ logout # NoLogout
    /\ \/ second < logout.set + seconds
       \/ second = logout.set + seconds /\ part < logout.part

\* Variant: the key lives as long as an access token.
RevokedBriefly(t) == Remembered(AccessSeconds) /\ t.iat < logout.second

IsTokenRevoked(t) == Remembered(RefreshSeconds) /\ t.iat < logout.second

Good(t, seconds) == second < t.iat + seconds /\ ~IsTokenRevoked(t)

AccessGood(t)  == Good(t, AccessSeconds)
RefreshGood(t) == Good(t, RefreshSeconds)

(***************************************************************************)
(* Requests.                                                               *)
(***************************************************************************)
\* mailLogin, mailRegister, googleRegisterOrLogin.
Login ==
    /\ issued' = issued \cup {Begun(FALSE)}
    /\ UNCHANGED <<second, part, logout, logouts, refresh>>

\* Variant: only the signature and the expiry are looked at.
ValidateSignature(r) ==
    /\ refresh[r] = "idle"
    /\ \E t \in issued :
          /\ second < t.iat + RefreshSeconds
          /\ refresh' = [refresh EXCEPT ![r] = IF t.old THEN "old" ELSE "young"]
    /\ UNCHANGED <<second, part, issued, logout, logouts>>

ValidateRefresh(r) ==
    /\ refresh[r] = "idle"
    /\ \E t \in issued :
          /\ RefreshGood(t)
          /\ refresh' = [refresh EXCEPT ![r] = IF t.old THEN "old" ELSE "young"]
    /\ UNCHANGED <<second, part, issued, logout, logouts>>

Refresh(r) ==
    /\ refresh[r] # "idle"
    /\ issued' = issued \cup {Begun(refresh[r] = "old")}
    /\ refresh' = [refresh EXCEPT ![r] = "idle"]
    /\ UNCHANGED <<second, part, logout, logouts>>

RefreshFails(r) ==
    /\ refresh[r] # "idle"
    /\ refresh' = [refresh EXCEPT ![r] = "idle"]
    /\ UNCHANGED <<second, part, issued, logout, logouts>>

\* revokeUser: Math.floor(Date.now() / 1000), then setex.
ReadClock ==
    /\ Cardinality(logouts \cup {second}) <= MaxOverlap
    /\ logouts' = logouts \cup {second}
    /\ issued' = {[t EXCEPT !.old = TRUE] : t \in issued}
    /\ refresh' = [r \in Refreshes |-> IF refresh[r] = "idle" THEN "idle" ELSE "old"]
    /\ UNCHANGED <<second, part, logout>>

\* Any number of requests may have read the second s: it stays while one has not ended.
StoreLogout(s) ==
    /\ logouts' \in {logouts, logouts \ {s}}
    /\ logout' = [second |-> s, set |-> second, part |-> part]
    /\ UNCHANGED <<second, part, issued, refresh>>

LogoutFails(s) ==
    /\ logouts' = logouts \ {s}
    /\ UNCHANGED <<second, part, issued, logout, refresh>>

TokensNext ==
    \/ Tick \/ Login \/ ReadClock
    \/ \E s \in logouts : StoreLogout(s) \/ LogoutFails(s)
    \/ \E r \in Refreshes : ValidateRefresh(r) \/ Refresh(r) \/ RefreshFails(r)

TokensSpec == TokensInit /\ [][TokensNext]_tokenVars

(***************************************************************************)
(* Properties.                                                             *)
(***************************************************************************)
TokensTypeOK ==
    /\ second \in Nat /\ part \in 0..(Parts - 1)
    /\ issued \subseteq [iat : 0..second, old : BOOLEAN]
    /\ logout = NoLogout \/ logout \in [second : 0..second, set : 0..second,
                                        part : 0..(Parts - 1)]
    /\ logout.second <= logout.set
    /\ logouts \subseteq 0..second
    /\ refresh \in [Refreshes -> {"idle", "young", "old"}]

\* A token issued in a second before the stored one of a logoutAll is not good, also when
\* the key is forgotten: by then every such token has expired (revokeUser, isTokenRevoked).
LoggedOutStaysOut ==
    \A t \in issued :
        t.iat < logout.second => ~AccessGood(t) /\ ~RefreshGood(t)

\* Once no token of a session from before a logoutAll is good and none is being refreshed,
\* such a session never has a good token again, though every refresh issues new tokens, the
\* key is forgotten, and other logouts fail or are stored.  Only one that has read an older
\* second than the stored one gives tokens back (ValidateRefreshCommandHandler,
\* RefreshCommandHandler, revokeUser).
OldSessionsOver ==
    /\ \A t \in issued : t.old => ~AccessGood(t) /\ ~RefreshGood(t)
    /\ \A r \in Refreshes : refresh[r] # "old"

\* A logoutAll that begins makes more sessions old; one that was overtaken stores too late.
OverAnew == ReadClock \/ \E s \in logouts : s < logout.second /\ StoreLogout(s)

SessionsStayOver == [][OldSessionsOver /\ ~OverAnew => OldSessionsOver']_tokenVars
=============================================================================
