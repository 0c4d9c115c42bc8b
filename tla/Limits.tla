------------------------------- MODULE Limits -------------------------------
(***************************************************************************)
(* The limits shown for Claude and Codex, and where they come from: the    *)
(* vendors' usage endpoints, asked with the login of the vendor's own      *)
(* program, or for Codex the session logs until an answer has come.  The   *)
(* login of Claude Code is a file that both programs rewrite: a refresh    *)
(* token is good for one refresh, which gives the next.  RemoteFetch has   *)
(* when a fetch starts and whether its outcome counts; this module has     *)
(* what the fetch does and what an outcome changes.                        *)
(***************************************************************************)
EXTENDS Naturals, Sequences, SequencesExt

CONSTANTS
    MaxToken,      \* bound: tokens issued
    MaxLogins,     \* bound: logins of the user with Claude Code
    MaxLost,       \* bound: refresh answers lost, and files that cannot be written
    Used,          \* percentages of a limit
    Plans,         \* names of plans
    None

Tokens == 1..MaxToken
Hosts == 1..2          \* platform.claude.com, then console.anthropic.com

\* What .credentials.json says.  A login may lack a refresh token or a plan.
Logins == [id : Nat, token : Tokens, refresh : Tokens \cup {None},
           expired : BOOLEAN, plan : Plans \cup {None}]

\* claude_window: there is none without a percentage.
Window == Used \cup {None}

\* ProviderUsage, as far as a fetch fills it; the plan "api" is API access.
Answers == [session : Window, week : Window, fable : Window,
            plan : Plans \cup {"api", None}]

VARIABLES
    provider,  \* the one this run is about: the two share nothing
    file,      \* the login on disk, None without one
    good,      \* the refresh tokens the server would take
    issued,    \* tokens issued so far
    code,      \* the login Claude Code has got and not written yet, or None
    logins,
    pc,        \* what the fetch does next
    creds,     \* the login as the fetch has it
    why,       \* why it refreshes: expired, unauthorized, or another failure
    host,
    read,      \* the identity of the file as it was rewritten from
    lost,      \* refresh answers lost and writes failed
    claude, codex,   \* what is shown of each provider
    fromRemote,      \* has a Codex answer come?
    access           \* what each provider's last good answer was for: login or api

login == <<file, good, issued, code, logins>>
fetch == <<pc, creds, why, host, read, lost>>
shown == <<claude, codex, fromRemote, access>>
vars == <<provider, login, fetch, shown>>

Blank == [session |-> None, week |-> None, fable |-> None, plan |-> None]

TypeOK ==
    /\ provider \in {"claude", "codex"}
    /\ file \in Logins \cup {None} /\ code \in Logins \cup {None}
    /\ creds \in Logins \cup {None}
    /\ good \subseteq Tokens /\ issued \in 0..MaxToken /\ logins \in 0..MaxLogins
    /\ pc \in {"idle", "request", "refresh", "persist", "check", "swap", "again"}
    /\ why \in {None, "expired", "unauthorized", "failure"}
    /\ host \in Hosts /\ read \in Nat /\ lost \in 0..MaxLost
    /\ {claude, codex} \subseteq Answers /\ fromRemote \in BOOLEAN
    /\ access \in [{"claude", "codex"} -> {None, "login", "api"}]

Init ==
    /\ provider \in {"claude", "codex"}
    /\ file = None /\ good = {} /\ issued = 0 /\ code = None /\ logins = 0
    /\ pc = "idle" /\ creds = None /\ why = None /\ host = 1 /\ read = 0 /\ lost = 0
    /\ claude = Blank /\ codex = Blank /\ fromRemote = FALSE
    /\ access = [p \in {"claude", "codex"} |-> None]

-----------------------------------------------------------------------------
\* The answers a body can give.  The Fable limit is taken from the first of
\* three places that has it.  A body without any limit is no answer.
FirstOf(places) ==
    LET there == {i \in DOMAIN places : places[i] # None}
    IN  IF there = {} THEN None ELSE places[Min(there)]

ClaudeAnswers(plan) ==
    {a \in [session : Window, week : Window,
            fable : {FirstOf(places) : places \in [1..3 -> Window]},
            plan : {plan}] :
        \E limit \in {a.session, a.week, a.fable} : limit # None}

CodexAnswers ==
    {[session |-> s, week |-> w, fable |-> None, plan |-> p] :
        s \in Window, w \in Window, p \in Plans \cup {None}} \ {Blank}

ApiAnswer == [Blank EXCEPT !.plan = "api"]

\* apply_provider_limits.
Applied(old, a) ==
    [a EXCEPT !.plan = IF a.plan # None THEN a.plan
                       ELSE IF old.plan = "api" THEN None ELSE old.plan]

\* is_subscription_limits: a session of at most five hours, or a week.
IsSubscription(a) == a.session # None \/ a.week # None

-----------------------------------------------------------------------------
\* The user logs in with Claude Code, in a file of its own or in place.
Login ==
    /\ logins < MaxLogins /\ issued < MaxToken /\ code = None
    /\ \E refreshable \in BOOLEAN, plan \in Plans \cup {None}, inPlace \in BOOLEAN :
          file' = [id |-> IF inPlace /\ file # None THEN file.id ELSE issued + 1,
                   token |-> issued + 1,
                   refresh |-> IF refreshable THEN issued + 1 ELSE None,
                   expired |-> FALSE, plan |-> plan]
    /\ good' = good \cup {issued + 1}
    /\ issued' = issued + 1 /\ logins' = logins + 1
    /\ UNCHANGED <<code, fetch, shown>>

Logout ==
    /\ file # None /\ code = None
    /\ file' = None
    /\ UNCHANGED <<good, issued, code, logins, fetch, shown>>

Expire ==
    /\ file # None /\ file' = [file EXCEPT !.expired = TRUE]
    /\ UNCHANGED <<good, issued, code, logins, fetch, shown>>

\* The server takes a refresh token and gives the next one.
Rotate(token) ==
    /\ issued < MaxToken
    /\ issued' = issued + 1
    /\ good' = (good \ {token}) \cup {issued + 1}

\* Claude Code refreshes for itself, and writes what it got a little later.
CodeRefreshes ==
    /\ file # None /\ code = None
    /\ file # None => file.refresh \in good
    /\ Rotate(file.refresh)
    /\ code' = [file EXCEPT !.id = issued + 1, !.token = issued + 1,
                            !.refresh = issued + 1, !.expired = FALSE]
    /\ UNCHANGED <<file, logins, fetch, shown>>

CodeWrites ==
    /\ code # None
    /\ file' = code /\ code' = None
    /\ UNCHANGED <<good, issued, logins, fetch, shown>>

-----------------------------------------------------------------------------
Finish ==
    /\ pc' = "idle" /\ creds' = None /\ why' = None /\ host' = 1 /\ read' = 0
    /\ UNCHANGED lost

ShowClaude(a) ==
    /\ claude' = Applied(claude, a)
    /\ access' = [access EXCEPT !["claude"] = IF a.plan = "api" THEN "api" ELSE "login"]
    /\ UNCHANGED <<codex, fromRemote>>

\* claude_access_without_login: an API key, or signed out.
FetchWithoutLogin ==
    /\ pc = "idle" /\ file = None
    /\ ShowClaude(ApiAnswer)
    /\ UNCHANGED <<login, fetch>>

\* fetch_claude_limits: a login whose time is over is refreshed first.
FetchClaude ==
    /\ pc = "idle" /\ file # None
    /\ creds' = file
    /\ IF file.expired THEN pc' = "refresh" /\ why' = "expired"
                       ELSE pc' = "request" /\ why' = None
    /\ host' = 1
    /\ UNCHANGED <<login, read, lost, shown>>

Answered ==
    /\ pc \in {"request", "again"}
    /\ \E a \in ClaudeAnswers(creds.plan) : ShowClaude(a)
    /\ Finish /\ UNCHANGED login

\* Any failure of the first request leads to a refresh.
Unanswered(cause) ==
    /\ pc = "request"
    /\ pc' = "refresh" /\ why' = cause /\ host' = 1
    /\ UNCHANGED <<login, creds, read, lost, shown>>

UnansweredAgain == pc = "again" /\ Finish /\ UNCHANGED <<login, shown>>

\* refresh_claude_credentials returns false: a fetch that was about to ask
\* for the first time goes on with what it has, a later one is over.
RefreshFails ==
    IF why = "expired"
        THEN /\ pc' = "request" /\ why' = None /\ host' = 1 /\ read' = 0
        ELSE /\ pc' = "idle" /\ why' = None /\ host' = 1 /\ read' = 0

CannotRefresh ==
    /\ pc = "refresh" /\ creds.refresh = None
    /\ RefreshFails
    /\ UNCHANGED <<login, creds, lost, shown>>

\* A host that is not reached, or is not the place, is passed over.
NextHost ==
    /\ pc = "refresh" /\ creds.refresh # None
    /\ IF host < 2 THEN host' = host + 1 /\ UNCHANGED <<pc, why, read>>
                   ELSE RefreshFails
    /\ UNCHANGED <<login, creds, lost, shown>>

Refused ==
    /\ pc = "refresh" /\ creds.refresh # None
    /\ RefreshFails
    /\ UNCHANGED <<login, creds, lost, shown>>

\* The server has given new tokens, but the answer is lost or unusable.
AnswerLost ==
    /\ pc = "refresh" /\ lost < MaxLost
    /\ creds.refresh \in good
    /\ Rotate(creds.refresh)
    /\ lost' = lost + 1
    /\ \/ RefreshFails
       \/ host = 1 /\ host' = 2 /\ UNCHANGED <<pc, why, read>>
    /\ UNCHANGED <<file, code, logins, creds, shown>>

Refreshed ==
    /\ pc = "refresh" /\ creds.refresh \in good
    /\ Rotate(creds.refresh)
    /\ creds' = [creds EXCEPT !.token = issued + 1, !.refresh = issued + 1,
                              !.expired = FALSE]
    /\ pc' = "persist"
    /\ UNCHANGED <<file, code, logins, why, host, read, lost, shown>>

\* persist_claude_credentials: the file as it is now gets the new tokens, in
\* a temporary file that takes its place if it is still the same file.
PersistReads ==
    /\ pc = "persist"
    /\ IF file = None
        THEN RefreshFails
        ELSE pc' = "check" /\ read' = file.id /\ UNCHANGED <<why, host>>
    /\ UNCHANGED <<login, creds, lost, shown>>

PersistFails ==
    /\ pc \in {"persist", "check", "swap"} /\ lost < MaxLost
    /\ lost' = lost + 1
    /\ RefreshFails
    /\ UNCHANGED <<login, creds, shown>>

\* replace_regular_file compares the identities, and then replaces.
PersistChecks ==
    /\ pc = "check"
    /\ IF file # None /\ file.id = read
        THEN pc' = "swap" /\ UNCHANGED <<why, host, read>>
        ELSE RefreshFails
    /\ UNCHANGED <<login, creds, lost, shown>>

\* Mutant: the new refresh token is not written.
RewrittenAccess == [file EXCEPT !.id = creds.token, !.token = creds.token, !.expired = FALSE]

Rewritten ==
    [file EXCEPT !.id = creds.token, !.token = creds.token,
                 !.refresh = creds.refresh, !.expired = FALSE]

\* ReplaceFileW wants a file to replace.
PersistFinds == pc = "swap" /\ file = None /\ RefreshFails
                /\ UNCHANGED <<login, creds, lost, shown>>

\* A fetch that has refreshed asks: for the first time if the login was over.
PersistSwaps ==
    /\ pc = "swap" /\ file # None
    /\ file' = Rewritten
    /\ pc' = (IF why = "expired" THEN "request" ELSE "again")
    /\ why' = None /\ host' = 1 /\ read' = 0
    /\ UNCHANGED <<good, issued, code, logins, creds, lost, shown>>

-----------------------------------------------------------------------------
\* fetch_codex_wham_limits: auth.json says an API key or a login.
ShowCodex(a) ==
    /\ codex' = Applied(codex, a) /\ fromRemote' = TRUE
    /\ access' = [access EXCEPT !["codex"] = IF a.plan = "api" THEN "api" ELSE "login"]
    /\ UNCHANGED <<login, fetch, claude>>

CodexWithKey == ShowCodex(ApiAnswer)
CodexAnswered == \E a \in CodexAnswers : ShowCodex(a)

\* What the lines of a session log say of limits, and which line counts: the
\* newest of a subscription, or else the newest.
LogAnswers == CodexAnswers
TailLimits(lines) ==
    LET subscriptions == {i \in DOMAIN lines : IsSubscription(lines[i])}
    IN  lines[Max(IF subscriptions # {} THEN subscriptions ELSE DOMAIN lines)]

LogCounts == ~fromRemote

\* apply_codex_limits and the chunks read: limits found in a session log.
CodexLog ==
    /\ LogCounts
    /\ \E lines \in [1..2 -> LogAnswers] : LET a == TailLimits(lines) IN
          /\ IsSubscription(a)
          /\ codex' = [a EXCEPT !.plan = IF a.plan # None THEN a.plan ELSE codex.plan]
    /\ UNCHANGED <<login, fetch, claude, fromRemote, access>>

ClaudeNext ==
    \/ Login \/ Logout \/ Expire \/ CodeRefreshes \/ CodeWrites
    \/ FetchWithoutLogin \/ FetchClaude \/ Answered
    \/ Unanswered("unauthorized") \/ Unanswered("failure") \/ UnansweredAgain
    \/ CannotRefresh \/ NextHost \/ Refused \/ AnswerLost \/ Refreshed
    \/ PersistReads \/ PersistFails \/ PersistChecks \/ PersistFinds \/ PersistSwaps

CodexNext == CodexWithKey \/ CodexAnswered \/ CodexLog

Next ==
    /\ UNCHANGED provider
    /\ \/ provider = "claude" /\ ClaudeNext
       \/ provider = "codex" /\ CodexNext

Spec == Init /\ [][Next]_vars

-----------------------------------------------------------------------------
\* Between fetches the login on disk is one the server still takes, whoever
\* refreshed it last, as long as no answer was lost and no write failed:
\* a fetch never costs the user the login of Claude Code.
LoginKept ==
    pc = "idle" /\ code = None /\ lost = 0 /\ file # None =>
        file.refresh \in good \cup {None}

\* The heading says API exactly while the provider's last answer was for an
\* API key: neither a login that names no plan nor a log line leaves it.
HeadingTrue ==
    /\ claude.plan = "api" <=> access["claude"] = "api"
    /\ codex.plan = "api" <=> access["codex"] = "api"
=============================================================================
