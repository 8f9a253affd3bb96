--------------------------- MODULE ProviderCalls ---------------------------
(***************************************************************************)
(* Calls of OCR and LLM providers: the settings a processing profile       *)
(* stands for (job_executor.py, factory.py), the privacy gate (privacy.py),*)
(* the retry policy (routing.py) and the fixed-window rate limiter that    *)
(* all worker processes share through Redis (rate_limit.py).               *)
(*                                                                         *)
(* A call is one generate_llm or extract_ocr; calls of all processes run   *)
(* concurrently.  The clock counts half seconds and all hosts read the     *)
(* same one; a window of the limiter is one second.  A call may take any   *)
(* time to reach Redis, and a timeout of the call (30 s or more) may come  *)
(* at any point.  MaxTime bounds the clock.                                *)
(*                                                                         *)
(* An attempt of Azure Document Intelligence is a POST and then polls, each*)
(* of them sent again while it is answered 429 (azure_di.py); an attempt of*)
(* any other provider is one request.                                      *)
(***************************************************************************)
EXTENDS Naturals

CONSTANTS Calls,
          Deployments,   \* what the environment may be set to: [llm, allowCloud,
                         \*  allowSensitive, limited]
          Requests,      \* what is called: [kind, profile]
          Limit,         \* requests per window: [{"ocr", "llm"} -> Nat]
          MaxAttempts,   \* provider_max_retries + 1
          MaxPolls,      \* _MAX_POLL_ATTEMPTS
          MaxResends,    \* _MAX_RATE_LIMIT_RETRIES
          MaxTime

ASSUME CallsAssumption ==
    /\ Limit \in [{"ocr", "llm"} -> Nat \ {0}]
    /\ MaxAttempts \in Nat \ {0}
    /\ MaxPolls \in Nat /\ MaxResends \in Nat /\ MaxTime \in Nat
    /\ Requests \subseteq [kind : {"ocr", "llm"},
                           profile : {"local", "hybrid", "azure", "approval"}]
    /\ Deployments \subseteq [llm : {"mock_llm", "ollama", "openai"}, allowCloud : BOOLEAN,
                              allowSensitive : BOOLEAN, limited : BOOLEAN]

VARIABLES
    settings,   \* the deployment
    clock,
    call,       \* [Calls -> the call's state]
    key,        \* [Providers -> [Windows -> [count, expires]]]: the Redis keys
    granted,    \* [Providers -> [Windows -> tokens granted in time]] (history)
    tokens,     \* [Calls -> tokens the call was granted] (history)
    started,    \* [Calls -> attempts of the call that reached a provider] (history)
    sends       \* [Calls -> requests the call sent] (history)

vars == <<settings, clock, call, key, granted, tokens, started, sends>>

-----------------------------------------------------------------------------
(* Profiles, providers and the privacy gate.                               *)

\* "approval" is the LLM call of post_extraction.py, which has the deployment's
\* own settings.
Profiles == {"local", "hybrid", "azure", "approval"}

OcrProviders == {"paddleocr", "azure_di"}
Providers == OcrProviders \cup {"mock_llm", "ollama", "openai"}

KindOf(provider) == IF provider \in OcrProviders THEN "ocr" ELSE "llm"

IsCloud(provider) == provider \in {"azure_di", "openai"}

SettingsFor(profile) ==
    [local |-> [ocr |-> "paddleocr", llm |-> "ollama", cloud |-> FALSE],
     hybrid |-> [ocr |-> "azure_di", llm |-> "ollama", cloud |-> TRUE],
     azure |-> [ocr |-> "azure_di", llm |-> settings.llm, cloud |-> TRUE],
     approval |-> [ocr |-> "azure_di", llm |-> settings.llm,
                   cloud |-> settings.allowCloud]][profile]

\* The program calls in the course of a workflow, with data it holds for
\* confidential and not de-identified.
Context(profile) ==
    [consent |-> IF profile = "approval" THEN settings.allowCloud ELSE TRUE,
     useCase |-> "normal_workflow", sensitive |-> TRUE, deidentified |-> FALSE]

AllowedUseCases(profile) ==
    {"evaluation"} \cup (IF SettingsFor(profile).cloud THEN {"normal_workflow"} ELSE {})

\* Mutant of Blocked: sensitivity is not asked.
BlockedUnlessConsent(provider, profile) ==
    /\ IsCloud(provider)
    /\ \/ ~ SettingsFor(profile).cloud
       \/ ~ Context(profile).consent

\* evaluate finds a reason against the call.
Blocked(provider, profile) ==
    LET context == Context(profile)
    IN  /\ IsCloud(provider)
        /\ \/ ~ SettingsFor(profile).cloud
           \/ ~ context.consent
           \/ context.useCase \notin AllowedUseCases(profile)
           \/ context.useCase = "evaluation" /\ ~ context.deidentified
           \/ context.sensitive /\ ~ context.deidentified /\ ~ settings.allowSensitive

\* Messages to a cloud LLM are redacted and cut before the first attempt.  Cloud
\* OCR is sent the file itself: local_path is kept, only the metadata is redacted.
Sanitized(provider) ==
    IF ~ IsCloud(provider) THEN "raw"
    ELSE IF KindOf(provider) = "llm" THEN "redacted" ELSE "file"

\* job_executor passes a limiter; post_extraction leaves it out.
Metered(c) == settings.limited /\ call[c].profile # "approval"

-----------------------------------------------------------------------------
WindowOf(time) == time \div 2
Windows == 0..WindowOf(MaxTime)

Phases == {"idle", "blocked", "ready", "asking", "granted", "waiting",
           "sent", "answered", "failed"}
Ended == {"blocked", "answered", "failed"}

NewCall == [phase |-> "idle", profile |-> "local", provider |-> "ollama",
            payload |-> "raw", attempt |-> 0, window |-> 0, asked |-> 0,
            polls |-> 0, resends |-> 0]

Init ==
    /\ settings \in Deployments
    /\ clock = 0
    /\ call = [c \in Calls |-> NewCall]
    /\ key = [p \in Providers |-> [w \in Windows |-> [count |-> 0, expires |-> 0]]]
    /\ granted = [p \in Providers |-> [w \in Windows |-> 0]]
    /\ tokens = [c \in Calls |-> 0]
    /\ started = [c \in Calls |-> 0]
    /\ sends = [c \in Calls |-> 0]

To(c, phase) == call' = [call EXCEPT ![c].phase = phase]

\* After an approval only the LLM is called, and not when it is the mock.
Callable(request) ==
    request.profile = "approval" => request.kind = "llm" /\ settings.llm # "mock_llm"

Begin(c, request) ==
    LET profile == request.profile
        provider == SettingsFor(profile)[request.kind]
    IN  /\ call[c].phase = "idle"
        /\ Callable(request)
        /\ call' = [call EXCEPT ![c] =
                      [@ EXCEPT !.profile = profile, !.provider = provider,
                                !.payload = Sanitized(provider), !.attempt = 1,
                                !.phase = IF Blocked(provider, profile) THEN "blocked"
                                          ELSE "ready"]]
        /\ UNCHANGED <<settings, clock, key, granted, tokens, started, sends>>

\* Mutant of Ask: a retry uses the token of the first attempt.
AskOnce(c) ==
    /\ Metered(c)
    /\ \/ call[c].phase = "ready"
       \/ call[c].phase = "waiting" /\ WindowOf(clock) > call[c].window
    /\ call' = [call EXCEPT ![c] =
                  [@ EXCEPT !.phase = IF @ = "ready" /\ call[c].attempt > 1 THEN "granted"
                                      ELSE "asking",
                            !.window = WindowOf(clock), !.asked = clock]]
    /\ UNCHANGED <<settings, clock, key, granted, tokens, started, sends>>

\* Every attempt asks the limiter, and so does a call whose window is over: the
\* key is named after the time at which it asks.
Ask(c) ==
    /\ Metered(c)
    /\ \/ call[c].phase = "ready"
       \/ call[c].phase = "waiting" /\ WindowOf(clock) > call[c].window
    /\ call' = [call EXCEPT ![c] = [@ EXCEPT !.phase = "asking",
                                             !.window = WindowOf(clock), !.asked = clock]]
    /\ UNCHANGED <<settings, clock, key, granted, tokens, started, sends>>

\* Mutant of KeyLife: the key lives as long as its window.
KeyLifeOfWindow == 2

\* PEXPIRE 1500.
KeyLife == 3

\* INCR and, for a key that did not exist, PEXPIRE.
Incremented(entry) ==
    IF entry.count > 0 /\ clock < entry.expires
    THEN [entry EXCEPT !.count = @ + 1]
    ELSE [count |-> 1, expires |-> clock + KeyLife]

\* The call reaches Redis in its window or in the half second after it.
InTime(w) == clock <= 2 * w + 2

\* Redis runs the script; over the budget the call sleeps until the next window.
Increment(c) ==
    LET p == call[c].provider
        w == call[c].window
        entry == Incremented(key[p][w])
    IN  /\ call[c].phase = "asking"
        /\ key' = [key EXCEPT ![p][w] = entry]
        /\ IF entry.count <= Limit[KindOf(p)]
           THEN /\ call' = [call EXCEPT ![c] = [@ EXCEPT !.phase = "granted",
                                                        !.window = 0, !.asked = 0]]
                /\ granted' = IF InTime(w) THEN [granted EXCEPT ![p][w] = @ + 1]
                              ELSE granted
                /\ tokens' = [tokens EXCEPT ![c] = @ + 1]
           ELSE /\ call' = [call EXCEPT ![c] = [@ EXCEPT !.phase = "waiting",
                                                        !.asked = 0]]
                /\ UNCHANGED <<granted, tokens>>
        /\ UNCHANGED <<settings, clock, started, sends>>

\* The limiter, if any, lets the attempt go on.
MaySend(c) == call[c].phase = "granted" \/ (call[c].phase = "ready" /\ ~ Metered(c))

\* The attempt's first request.
Send(c) ==
    /\ MaySend(c)
    /\ To(c, "sent")
    /\ started' = [started EXCEPT ![c] = @ + 1]
    /\ sends' = [sends EXCEPT ![c] = @ + 1]
    /\ UNCHANGED <<settings, clock, key, granted, tokens>>

AwaitsAzure(c) == call[c].phase = "sent" /\ call[c].provider = "azure_di"

\* Azure answered 429, and the request is sent again.
Resend(c) ==
    /\ AwaitsAzure(c)
    /\ call[c].resends < MaxResends
    /\ call' = [call EXCEPT ![c].resends = @ + 1]
    /\ sends' = [sends EXCEPT ![c] = @ + 1]
    /\ UNCHANGED <<settings, clock, key, granted, tokens, started>>

\* Azure took the document, or has not finished with it.
Poll(c) ==
    /\ AwaitsAzure(c)
    /\ call[c].polls < MaxPolls
    /\ call' = [call EXCEPT ![c].polls = @ + 1, ![c].resends = 0]
    /\ sends' = [sends EXCEPT ![c] = @ + 1]
    /\ UNCHANGED <<settings, clock, key, granted, tokens, started>>

\* The attempt is over, and what it was at is forgotten.
Over(state, phase) == [state EXCEPT !.phase = phase, !.window = 0, !.asked = 0,
                                    !.polls = 0, !.resends = 0]

Answer(c) ==
    /\ call[c].phase = "sent"
    /\ AwaitsAzure(c) => call[c].polls > 0
    /\ call' = [call EXCEPT ![c] = Over(@, "answered")]
    /\ UNCHANGED <<settings, clock, key, granted, tokens, started, sends>>

\* Mutant of Retried: the attempts are not counted.
RetriedAlways(state) == Over(state, "ready")

\* Mutant of Retried: max_retries is taken for the retries left after the next.
RetriedOnceMore(state) ==
    IF state.attempt <= MaxAttempts
    THEN [Over(state, "ready") EXCEPT !.attempt = @ + 1]
    ELSE Over(state, "failed")

Retried(state) ==
    IF state.attempt < MaxAttempts
    THEN [Over(state, "ready") EXCEPT !.attempt = @ + 1]
    ELSE Over(state, "failed")

\* The attempt times out or raises: Redis cannot be reached, the next window is
\* past the limiter's deadline, the file is missing, the provider fails or has not
\* finished after the last poll.  A request that was sent may go on in its thread;
\* nobody waits for its answer.
FailAttempt(c) ==
    /\ MaySend(c) \/ call[c].phase \in {"asking", "waiting", "sent"}
    /\ call' = [call EXCEPT ![c] = Retried(@)]
    /\ UNCHANGED <<settings, clock, key, granted, tokens, started, sends>>

Tick ==
    /\ clock < MaxTime
    /\ clock' = clock + 1
    /\ UNCHANGED <<settings, call, key, granted, tokens, started, sends>>

CallStep(c) ==
    \/ Ask(c)
    \/ Increment(c)
    \/ Send(c)
    \/ Resend(c)
    \/ Poll(c)
    \/ Answer(c)
    \/ FailAttempt(c)

Next ==
    \/ \E c \in Calls, request \in Requests : Begin(c, request)
    \/ \E c \in Calls : CallStep(c)
    \/ Tick

Spec == Init /\ [][Next]_vars

\* An attempt that does nothing else is ended by its timeout.
FairSpec == Spec /\ \A c \in Calls : WF_vars(CallStep(c))

-----------------------------------------------------------------------------
(* Properties.                                                             *)

CallStates == [phase : Phases, profile : Profiles, provider : Providers,
               payload : {"raw", "redacted", "file"}, attempt : 0..MaxAttempts,
               window : Windows, asked : 0..MaxTime,
               polls : 0..MaxPolls, resends : 0..MaxResends]

ProviderTypeOK ==
    /\ settings \in Deployments
    /\ clock \in 0..MaxTime
    /\ call \in [Calls -> CallStates]
    /\ key \in [Providers -> [Windows -> [count : Nat, expires : Nat]]]
    /\ granted \in [Providers -> [Windows -> Nat]]
    /\ tokens \in [Calls -> Nat]
    /\ started \in [Calls -> Nat]
    /\ sends \in [Calls -> Nat]

\* "Enforce provider request-per-second budgets across worker processes": calls
\* that reach Redis within half a second of their window's end get no more tokens
\* of it than its budget, however they retry and whatever later ones do; the key
\* must outlive each of them.  (A later call finds the key expired and begins to
\* count the window anew.)
BudgetHeld == \A p \in Providers, w \in Windows : granted[p][w] <= Limit[KindOf(p)]

\* "Provider retries acquire a fresh token, so retry storms cannot bypass the
\* shared limit": no metered call has sent more requests than it was granted.
SendsArePaid == \A c \in Calls : Metered(c) => sends[c] <= tokens[c]

\* What the code keeps of it: each attempt of a metered call that reached the
\* provider had a token of its own, and with any provider but Azure that is each
\* request.
AttemptsArePaid == \A c \in Calls : Metered(c) =>
    /\ started[c] <= tokens[c]
    /\ call[c].provider # "azure_di" => sends[c] <= tokens[c]

\* Whatever profile and context lead there, confidential data leaves for the cloud
\* never under the local profile and only where the deployment allows sensitive
\* payloads and, outside a profile, cloud providers; an LLM gets it redacted.  (Cloud
\* OCR gets the document as it is.)
CloudSanctioned == \A c \in Calls :
    sends[c] > 0 /\ IsCloud(call[c].provider) =>
        /\ KindOf(call[c].provider) = "llm" => call[c].payload = "redacted"
        /\ call[c].profile # "local"
        /\ settings.allowSensitive
        /\ call[c].profile = "approval" => settings.allowCloud

\* The retry policy ends every call, also while the limiter refuses it, Redis is
\* away, or Azure answers 429 or "running" to every request.
CallEnds == \A c \in Calls : call[c].phase # "idle" ~> call[c].phase \in Ended
=============================================================================
