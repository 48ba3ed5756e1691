------------------------------ MODULE SignIn ------------------------------
(***************************************************************************)
(* Signing in with one browser: /auth/login and /auth/callback with the    *)
(* pending states they keep in the browser's oauth_state cookie, and the   *)
(* session that the callback leaves in the session store.                  *)
(*                                                                         *)
(* A request carries the cookie as it was when the browser sent it, and    *)
(* its answer replaces the cookie.  The store is the process's MemoryStore *)
(* until the startup warmup switches to the SQL store; one error of the    *)
(* SQL store switches to a new MemoryStore for good.                       *)
(***************************************************************************)
EXTENDS Integers, FiniteSets, SequencesExt

CONSTANTS
    Tabs,           \* the tabs in which the user signs in, one state each
    MaxPending,     \* OAUTH_STATE_MAX_PENDING
    MaxSwitches     \* bound: restarts and switches of the session store

ASSUME MaxPendingOK == MaxPending \in Nat \ {0}

VARIABLES
    cookie,         \* oauth_state: a sequence of the tabs' states
    tab,            \* [Tabs -> where the tab is]
    carried,        \* [Tabs -> the cookie its request carries]
    bound,          \* [Tabs -> the store its callback was given]
    store,          \* the store of activeSessionMiddleware
    stores,         \* how many stores there were
    accounts,       \* the stores that hold the signed-in session
    started,        \* history variable: the tabs in the order of their logins
    excuse          \* history variable: the tabs that may fail

signInVars ==
    <<cookie, tab, carried, bound, store, stores, accounts, started, excuse>>

Memory(n) == <<"memory", n>>
SqlStore == <<"sql", 0>>

SignInInit ==
    /\ cookie = <<>>
    /\ tab = [t \in Tabs |-> "closed"]
    /\ carried = [t \in Tabs |-> <<>>]
    /\ bound = [t \in Tabs |-> Memory(0)]
    /\ store = Memory(0)
    /\ stores = 0
    /\ accounts = {}
    /\ started = <<>>
    /\ excuse = {}

InFlight == {t \in Tabs : tab[t] \in {"login", "callback"}}

(* The list keeps only the newest state.                                   *)
KeepsTheNewest(states) ==
    IF states = <<>> THEN states ELSE <<states[Len(states)]>>

(* parseOAuthStateList: the last MaxPending of the list.                   *)
parseOAuthStateList(states) ==
    IF Len(states) <= MaxPending THEN states
    ELSE SubSeq(states, Len(states) - MaxPending + 1, Len(states))

(* The list without a state that was used.                                 *)
Without(states, t) ==
    LET kept[i \in 0..Len(states)] ==
          IF i = 0 THEN <<>>
          ELSE IF states[i] = t THEN kept[i - 1] ELSE Append(kept[i - 1], states[i])
    IN  kept[Len(states)]

Open == {t \in Tabs : tab[t] \in {"login", "provider", "callback"}}
SignedIn == store \in accounts

(* The sign-in gate, or a link to /auth/login: the browser sends the login,*)
(* also when it has a session.                                             *)
SendLogin(t) ==
    /\ tab[t] = "closed"
    /\ tab' = [tab EXCEPT ![t] = "login"]
    /\ carried' = [carried EXCEPT ![t] = cookie]
    /\ started' = Append(started, t)
    /\ excuse' = excuse \cup (IF InFlight = {} THEN {} ELSE InFlight \cup {t})
    /\ UNCHANGED <<cookie, bound, store, stores, accounts>>

(* The answer of /auth/login: the carried list with this login's state.    *)
LoginAnswered(t) ==
    /\ tab[t] = "login"
    /\ cookie' = parseOAuthStateList(Append(parseOAuthStateList(carried[t]), t))
    /\ tab' = [tab EXCEPT ![t] = "provider"]
    /\ carried' = [carried EXCEPT ![t] = <<>>]
    /\ UNCHANGED <<bound, store, stores, accounts, started, excuse>>

(* No sign-in URL (the state is pending all the same), or the provider     *)
(* posts an error back, which is answered before the state is looked at.   *)
ProviderFails(t) ==
    /\ tab[t] = "provider"
    /\ tab' = [tab EXCEPT ![t] = "error"]
    /\ UNCHANGED <<cookie, carried, bound, store, stores, accounts, started, excuse>>

(* The provider posts the code back through the browser.                   *)
SendCallback(t) ==
    /\ tab[t] = "provider"
    /\ tab' = [tab EXCEPT ![t] = "callback"]
    /\ carried' = [carried EXCEPT ![t] = cookie]
    /\ bound' = [bound EXCEPT ![t] = store]
    /\ excuse' = excuse \cup (IF InFlight = {} THEN {} ELSE InFlight \cup {t})
    /\ UNCHANGED <<cookie, store, stores, accounts, started>>

Accepts(t) == t \in ToSet(parseOAuthStateList(carried[t]))

(* The callback's request is over.                                         *)
Answered(t, phase) ==
    /\ tab' = [tab EXCEPT ![t] = phase]
    /\ carried' = [carried EXCEPT ![t] = <<>>]
    /\ bound' = [bound EXCEPT ![t] = Memory(0)]

(* State mismatch: renderExpiredLogin.                                     *)
CallbackRefused(t) ==
    /\ tab[t] = "callback"
    /\ ~Accepts(t)
    /\ Answered(t, "refused")
    /\ UNCHANGED <<cookie, store, stores, accounts, started, excuse>>

(* acquireTokenByCode is awaited; then the session is saved in the store   *)
(* the request was given, and the answer brings the cookie, without the    *)
(* used state, and the redirect.                                           *)
SignInCompletes(t) ==
    /\ tab[t] = "callback"
    /\ Accepts(t)
    /\ accounts' = accounts \cup {bound[t]}
    /\ cookie' = Without(parseOAuthStateList(carried[t]), t)
    /\ Answered(t, "done")
    /\ UNCHANGED <<store, stores, started, excuse>>

(* The token or the save fails: an error page, without the state.          *)
SignInFails(t) ==
    /\ tab[t] = "callback"
    /\ Accepts(t)
    /\ cookie' = Without(parseOAuthStateList(carried[t]), t)
    /\ Answered(t, "error")
    /\ UNCHANGED <<store, stores, accounts, started, excuse>>

(* The redirect after a sign-in asks for a page: requireAuth reads the     *)
(* session, and without an account the user is at the sign-in gate again.  *)
Redirected(t) ==
    /\ tab[t] = "done"
    /\ tab' = [tab EXCEPT ![t] = IF SignedIn THEN "in" ELSE "gate"]
    /\ UNCHANGED <<cookie, carried, bound, store, stores, accounts, started, excuse>>

(* /auth/logout destroys the session in the active store.                  *)
Logout ==
    /\ SignedIn
    /\ accounts' = accounts \ {store}
    /\ excuse' = excuse \cup {t \in Tabs : tab[t] = "done"}
    /\ UNCHANGED <<cookie, tab, carried, bound, store, stores, started>>

SwitchTo(new) ==
    /\ stores < MaxSwitches
    /\ stores' = stores + 1
    /\ store' = new
    /\ excuse' = excuse \cup {t \in Tabs : tab[t] \in {"callback", "done"}}
    /\ UNCHANGED <<cookie, tab, carried, bound, started>>

(* runStartupWarmup: the session table is ensured, and the SQL store used. *)
Warmup ==
    /\ store = Memory(stores)
    /\ SwitchTo(SqlStore)
    /\ UNCHANGED accounts

(* isSqlSessionStoreRuntimeError: a new MemoryStore, empty.                *)
StoreFails ==
    /\ store = SqlStore
    /\ SwitchTo(Memory(stores + 1))
    /\ UNCHANGED accounts

(* The cookie's ten minutes are over.                                      *)
CookieExpires ==
    /\ cookie # <<>>
    /\ cookie' = <<>>
    /\ excuse' = excuse \cup Open
    /\ UNCHANGED <<tab, carried, bound, store, stores, accounts, started>>

SignInNext ==
    \/ \E t \in Tabs :
          \/ SendLogin(t) \/ LoginAnswered(t) \/ ProviderFails(t)
          \/ SendCallback(t) \/ CallbackRefused(t)
          \/ SignInCompletes(t) \/ SignInFails(t) \/ Redirected(t)
    \/ Logout \/ Warmup \/ StoreFails \/ CookieExpires

SignInSpec == SignInInit /\ [][SignInNext]_signInVars

----------------------------------------------------------------------------
Later(t) == {u \in ToSet(started) : \E i, j \in DOMAIN started :
                 i < j /\ started[i] = t /\ started[j] = u}

(* A sign-in is refused, or leaves the user at the gate again, only for a  *)
(* reason: one of its two requests overlapped another one (both rewrite    *)
(* the list the browser had when it sent them, and one of the states is    *)
(* lost), the cookie expired, MaxPending newer logins were started, or the *)
(* session store was switched or the user signed out before the redirect.  *)
PendingSignInsAreHonoured ==
    \A t \in Tabs : tab[t] \in {"refused", "gate"} =>
        t \in excuse \/ Cardinality(Later(t)) >= MaxPending
=============================================================================
