----------------------------- MODULE Credentials -----------------------------
(***************************************************************************)
(* The stored OAuth credential of one provider in one process: requests    *)
(* that refresh it (provider_runtime.py), the login flows that replace it  *)
(* (oauth.py in a browser, oauth_github_copilot.py and oauth_device.py     *)
(* with a device code) and the logout.                                     *)
(*                                                                         *)
(* A refresh token dies when a refresh succeeds: the server gives a new    *)
(* one.  Tokens are numbers.  The tasks of a process share an event loop,  *)
(* so reading and writing the store is one step; a network call is three:  *)
(* the request is sent, the server answers it, the answer is received.     *)
(***************************************************************************)
EXTENDS Naturals, FiniteSets

CONSTANTS
  None,
  Tasks,          \* tasks of the process that call the provider
  MaxTokens,      \* bound: tokens the server gives out
  DefaultPoll,    \* polling interval when the server names none (5 seconds)
  Lifetime,       \* expires_in of a device code
  MaxInterval     \* bound: intervals a server asks for

ASSUME CredentialsAssumption ==
  /\ None \notin Tasks
  /\ None \notin [kind : {"oauth", "api_key"}, token : Nat, expired : BOOLEAN]
  /\ MaxTokens \in Nat /\ Lifetime \in Nat /\ MaxInterval \in Nat
  /\ DefaultPoll \in 1..MaxInterval

VARIABLES
  resolver,   \* "codex" (OpenAICodexCredentialResolver) or "runtime" (OAuthRuntime...)
  store,      \* the entry under the credential's name, or None
  lock,       \* task that holds _refresh_lock(credential_name), or None
  task,       \* what each task does: its step and the credential it read
  live,       \* tokens the server accepts
  made,       \* tokens given out so far
  spent,      \* how often each token was sent, 2 for more than once
  excused,    \* tokens whose answer was lost, or waiting to be sent at a logout
  login,      \* the login flow
  clock       \* device flow: time, last poll, interval asked for, deadline

credVars == <<resolver, store, lock, task, live, made, spent, excused, login, clock>>

Token == 1..MaxTokens
Credential(t) == [kind |-> "oauth", token |-> t, expired |-> FALSE]
ApiKey == [kind |-> "api_key", token |-> 0, expired |-> FALSE]
Expired(t) == [Credential(t) EXCEPT !.expired = TRUE]
Resting == [at |-> "idle", token |-> 0, sent |-> 0]

\* FileCredentialStore.get_oauth: an API key under the same name is no credential.
Stored == IF store = ApiKey THEN None ELSE store

NoLogin == [at |-> "none", kind |-> "none", heard |-> "nothing", manual |-> FALSE]
NoClock == [now |-> 0, last |-> 0, interval |-> 0, due |-> 0, deadline |-> 0]

CredentialsInit ==
  /\ resolver \in {"codex", "runtime"}
  /\ store \in {None, Expired(1)}
  /\ lock = None
  /\ task = [t \in Tasks |-> Resting]
  /\ live = {1}
  /\ made = 1
  /\ spent = [k \in Token |-> 0]
  /\ excused = {}
  /\ login = NoLogin
  /\ clock = NoClock

UNCHANGED_LOGIN == UNCHANGED <<login, clock>>

------------------------------------------------------------------------------
(* Requests                                                                  *)

\* The resolver of one request.  The Codex one looks before it takes the lock and
\* returns at once a credential that is valid, or fails without one; the other
\* reads only inside the lock.
Resolve(t) ==
  /\ task[t].at = "idle"
  /\ resolver = "codex" => Stored # None /\ Stored.expired
  /\ task' = [task EXCEPT ![t] = [at |-> "waiting", sent |-> 0,
       token |-> IF resolver = "codex" THEN Stored.token ELSE 0]]
  /\ UNCHANGED <<resolver, store, lock, live, made, spent, excused>> /\ UNCHANGED_LOGIN

\* Seeded fault: the credential read before the lock was taken is refreshed.
ReadBefore(t) ==
  IF resolver = "codex" THEN Expired(task[t].token) ELSE Stored

\* The credential found inside the lock; the Codex resolver falls back on the one
\* it read before.
Reread(t) ==
  IF Stored # None THEN Stored
  ELSE IF resolver = "codex" THEN Expired(task[t].token) ELSE None

\* Inside the lock: no credential, or one another task has refreshed, ends the
\* request's turn; an expired one is sent to the server.
Acquire(t) ==
  LET found == Reread(t)
  IN /\ task[t].at = "waiting" /\ lock = None
     /\ IF found # None /\ found.expired
        THEN /\ lock' = t
             /\ task' = [task EXCEPT ![t] = [at |-> "asked", token |-> found.token,
                                           sent |-> found.token]]
        ELSE task' = [task EXCEPT ![t] = Resting] /\ UNCHANGED lock
  /\ UNCHANGED <<resolver, store, live, made, spent, excused>> /\ UNCHANGED_LOGIN

\* The token server: a live token is exchanged for a new one, a dead one refused.
Answer(t) ==
  LET k == task[t].token
  IN /\ task[t].at = "asked" /\ made < MaxTokens
     /\ spent' = [spent EXCEPT ![k] = IF @ = 0 THEN 1 ELSE 2]
     /\ IF k \in live
        THEN /\ made' = made + 1
             /\ live' = (live \ {k}) \cup {made + 1}
             /\ task' = [task EXCEPT ![t] = [at |-> "answered", token |-> made + 1,
                                              sent |-> k]]
        ELSE /\ task' = [task EXCEPT ![t].at = "refused"]
             /\ UNCHANGED <<made, live>>
     /\ UNCHANGED <<resolver, store, lock, excused>> /\ UNCHANGED_LOGIN

\* The refreshed credential is stored, whatever the store holds by now.
Receive(t) ==
  /\ task[t].at = "answered"
  /\ store' = Credential(task[t].token)
  /\ task' = [task EXCEPT ![t] = Resting]
  /\ lock' = None
  /\ UNCHANGED <<resolver, live, made, spent, excused>> /\ UNCHANGED_LOGIN

\* The token whose exchange the process never hears of.
Unheard(t) == IF task[t].at = "answered" THEN {task[t].sent} ELSE {}

\* Seeded fault: a task that fails or is cancelled keeps the lock.
ReleasedNot(t) == lock

Released(t) == IF lock = t THEN None ELSE lock

\* The server refused, the connection failed before or after the server answered,
\* or the worker of the prompt was cancelled (Escape): the request raises and
\* leaves the lock.
Raise(t) ==
  /\ task[t].at \in {"waiting", "asked", "answered", "refused"}
  /\ excused' = excused \cup Unheard(t)
  /\ lock' = Released(t)
  /\ task' = [task EXCEPT ![t] = Resting]
  /\ UNCHANGED <<resolver, store, live, made, spent>> /\ UNCHANGED_LOGIN

\* Time: the access token expires (oauth_credential_is_expired).
Expire ==
  /\ Stored # None /\ ~Stored.expired
  /\ store' = [store EXCEPT !.expired = TRUE]
  /\ UNCHANGED <<resolver, lock, task, live, made, spent, excused>> /\ UNCHANGED_LOGIN

\* _logout deletes the entry; _handle_login_result puts an API key there.
Forget ==
  /\ store # None
  /\ store' \in {None, ApiKey}
  /\ excused' = excused \cup {task[t].token : t \in {u \in Tasks : task[u].at = "waiting"}}
  /\ UNCHANGED <<resolver, lock, task, live, made, spent>> /\ UNCHANGED_LOGIN

------------------------------------------------------------------------------
(* Login in a browser: the callback server and the manual input race.        *)

KeepRequests == UNCHANGED <<resolver, lock, task, live, spent, excused>>

\* login_openai_codex: the server may fail to start (its port is taken); manual
\* input may not be offered.  With neither the code is prompted for at once.
BrowserLogin(served, manual) ==
  /\ login.at = "none" /\ made < MaxTokens
  /\ login' = [at |-> IF served \/ manual THEN "race" ELSE "prompt",
               kind |-> IF served THEN "browser" ELSE "manual",
               heard |-> "nothing", manual |-> manual]
  /\ UNCHANGED <<store, made, clock>> /\ KeepRequests

\* CallbackHandler.do_GET: another path, a wrong state or no code is refused.
Callback(right) ==
  /\ login.at = "race" /\ login.kind = "browser" /\ login.heard = "nothing"
  /\ login' = [login EXCEPT !.heard = IF right THEN "code" ELSE @]
  /\ UNCHANGED <<store, made, clock>> /\ KeepRequests

\* What a pasted value parses to (parse_authorization_input, _validate_state): a
\* code, with the right state or none; nothing; or another login's state.
Pasted == {"code", "empty", "mismatch"}

\* The first of the two to answer; both may have, and either is taken.  No code
\* means the prompt, another login's state the end.
FirstAnswer(answer) ==
  /\ login.at = "race"
  /\ \/ answer = login.heard
     \/ login.manual /\ answer \in Pasted
  /\ answer # "nothing"
  /\ login' = [login EXCEPT !.at = CASE answer = "code" -> "exchange"
                                     [] answer = "empty" -> "prompt"
                                     [] answer = "mismatch" -> "failed"]
  /\ UNCHANGED <<store, made, clock>> /\ KeepRequests

Prompted(answer) ==
  /\ login.at = "prompt"
  /\ login' = [login EXCEPT !.at = IF answer = "code" THEN "exchange" ELSE "failed"]
  /\ UNCHANGED <<store, made, clock>> /\ KeepRequests

\* The code, or GitHub's token, is exchanged and the credential is stored by
\* _handle_oauth_login_result; the exchange or a check of its answer may fail.
Exchange(ok) ==
  /\ login.at = "exchange" /\ made < MaxTokens
  /\ IF ok THEN made' = made + 1 /\ store' = Credential(made + 1)
           ELSE UNCHANGED <<made, store>>
  /\ live' = IF ok THEN live \cup {made + 1} ELSE live
  /\ login' = [login EXCEPT !.at = IF ok THEN "done" ELSE "failed"]
  /\ UNCHANGED <<resolver, lock, task, spent, excused, clock>>

------------------------------------------------------------------------------
(* Login with a device code: polling (poll_oauth_device_code).               *)

\* _poll_interval, with 0 for an interval the server did not name.
PollInterval(asked) == IF asked = 0 THEN DefaultPoll ELSE asked

Least(a, b) == IF a < b THEN a ELSE b

\* login_github_copilot asks for a code and waits before the first poll.
DeviceLogin(asked) ==
  /\ login.at = "none" /\ made < MaxTokens
  /\ login' = [NoLogin EXCEPT !.at = "polling", !.kind = "device"]
  /\ clock' = [now |-> 0, last |-> 0, interval |-> PollInterval(asked),
               due |-> Least(PollInterval(asked), Lifetime), deadline |-> Lifetime]
  /\ UNCHANGED <<store, made>> /\ KeepRequests

\* slow_down: the interval the server names, or five seconds more.  The bound only
\* cuts intervals past the lifetime of the code.
Slowed(asked) == IF asked = 0 THEN Least(clock.interval + DefaultPoll, MaxInterval) ELSE asked

\* Seeded fault: the next poll is timed with the interval in force before.
NextPollUnslowed(interval) == Least(clock.now + clock.interval, clock.deadline)

\* The wait is cut at the deadline.
NextPoll(interval) == Least(clock.now + interval, clock.deadline)

\* One poll and the wait it leads to.
Poll(status, asked) ==
  LET interval == IF status = "slow_down" THEN Slowed(asked) ELSE clock.interval
  IN /\ login.at = "polling" /\ clock.now = clock.due /\ clock.now < clock.deadline
     /\ login' = [login EXCEPT !.at = CASE status = "complete" -> "exchange"
                                        [] status = "failed" -> "failed"
                                        [] OTHER -> @]
     /\ clock' = [clock EXCEPT !.last = clock.now,
                               !.interval = interval,
                               !.due = NextPoll(interval)]
     /\ UNCHANGED <<store, made>> /\ KeepRequests

Tick ==
  /\ login.at = "polling" /\ clock.now < clock.due
  /\ clock' = [clock EXCEPT !.now = @ + 1]
  /\ UNCHANGED <<store, made, login>> /\ KeepRequests

TimedOut ==
  /\ login.at = "polling" /\ clock.now = clock.due /\ clock.now >= clock.deadline
  /\ login' = [login EXCEPT !.at = "failed"]
  /\ UNCHANGED <<store, made, clock>> /\ KeepRequests

\* The login screen is closed or its cancel_event set; the answer of a login is
\* taken only once.
LoginCancelled ==
  /\ login.at \in {"race", "prompt", "exchange", "polling"}
  /\ login' = [login EXCEPT !.at = "failed"]
  /\ UNCHANGED <<store, made, clock>> /\ KeepRequests

LoginClosed ==
  /\ login.at \in {"done", "failed"}
  /\ login' = NoLogin /\ clock' = NoClock
  /\ UNCHANGED <<store, made>> /\ KeepRequests

------------------------------------------------------------------------------
RequestStep(t) == Resolve(t) \/ Acquire(t) \/ Answer(t) \/ Receive(t) \/ Raise(t)

LoginStep ==
  \/ \E served, manual \in BOOLEAN : BrowserLogin(served, manual)
  \/ \E right \in BOOLEAN : Callback(right)
  \/ \E answer \in Pasted : FirstAnswer(answer) \/ Prompted(answer)
  \/ \E ok \in BOOLEAN : Exchange(ok)
  \/ \E asked \in 0..MaxInterval :
       DeviceLogin(asked)
         \/ \E status \in {"complete", "pending", "slow_down", "failed"} : Poll(status, asked)
  \/ Tick \/ TimedOut \/ LoginCancelled \/ LoginClosed

CredentialsNext == (\E t \in Tasks : RequestStep(t)) \/ Expire \/ Forget \/ LoginStep

\* A task that holds the lock gets an answer or an error (the client's timeout), and
\* a task waiting for a free lock gets it: asyncio.Lock is fair.
RequestFairness ==
  \A t \in Tasks :
    /\ SF_credVars(Acquire(t))
    /\ WF_credVars(Receive(t) \/ (task[t].at # "waiting" /\ Raise(t)))

------------------------------------------------------------------------------
\* "Holding this lock across the network call, and re-reading the store inside it,
\* keeps a token spent at most once" (_refresh_lock), as far as it goes: no token is
\* sent twice, unless its first answer was lost (a cancelled worker, a broken
\* connection) or the credential was logged out while a task waited for the lock.
SpentOnce == \A k \in Token : spent[k] > 1 => k \in excused

\* A device code is polled at most once per interval the server last asked for,
\* five seconds more after a bare slow_down, and never at or after its expiry.
PolledInTime ==
  [][clock'.last > clock.last =>
       /\ clock'.last < clock.deadline
       /\ clock'.last - clock.last >= clock.interval]_credVars

\* A request that waits for the refresh of another ends, whatever becomes of the
\* other: the lock is left on every path.
RequestEnds == \A t \in Tasks : (task[t].at = "waiting") ~> (task[t].at = "idle")
=============================================================================
