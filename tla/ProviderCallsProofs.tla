------------------------ MODULE ProviderCallsProofs ------------------------
(***************************************************************************)
(* Theorems about provider calls, for any number of calls, any budgets,    *)
(* attempts, polls and resends, and any length of a run.                   *)
(***************************************************************************)
EXTENDS ProviderCalls, TLAPS

\* A call that has not begun has sent nothing, and neither has a blocked one.
SilentWhenClosed == \A c \in Calls :
    /\ call[c].phase = "idle" => sends[c] = 0 /\ started[c] = 0 /\ tokens[c] = 0
    /\ call[c].phase = "blocked" => sends[c] = 0

\* A call that was begun carries what the privacy gate made of it.
PassedTheGate == \A c \in Calls :
    call[c].phase \notin {"idle", "blocked"} =>
        /\ ~ Blocked(call[c].provider, call[c].profile)
        /\ call[c].payload = Sanitized(call[c].provider)

\* A metered call that may start an attempt has a token that it has not used.
TokenInHand == \A c \in Calls : Metered(c) =>
    /\ started[c] <= tokens[c]
    /\ call[c].phase = "granted" => started[c] < tokens[c]

\* With any provider but Azure an attempt is one request.
OneRequestElsewhere == \A c \in Calls :
    call[c].provider # "azure_di" => sends[c] = started[c]

CallInv ==
    /\ ProviderTypeOK
    /\ SilentWhenClosed
    /\ PassedTheGate
    /\ TokenInHand
    /\ OneRequestElsewhere

\* What a call asks about is the window of a time it read.
AskedBefore == \A c \in Calls : call[c].phase = "asking" =>
    /\ call[c].window = WindowOf(call[c].asked)
    /\ call[c].asked <= clock

\* While calls can come in time the key of a window counts every token granted to
\* such calls, and it outlives them.
KeyCovers == \A p \in Providers, w \in Windows :
    /\ key[p][w].count = 0 => granted[p][w] = 0
    /\ InTime(w) => granted[p][w] <= key[p][w].count
    /\ key[p][w].count > 0 => key[p][w].expires >= 2 * w + KeyLife

BudgetInv == ProviderTypeOK /\ AskedBefore /\ KeyCovers /\ BudgetHeld

-----------------------------------------------------------------------------
\* Two half seconds of the clock make a window.
LEMMA WindowOfTime ==
    ASSUME NEW t \in Nat
    PROVE  WindowOf(t) \in Nat /\ 2 * WindowOf(t) <= t /\ t <= 2 * WindowOf(t) + 1
BY DEF WindowOf

LEMMA ClockWindow ==
    ASSUME NEW t \in 0..MaxTime
    PROVE  WindowOf(t) \in Windows
BY CallsAssumption DEF Windows, WindowOf

LEMMA FirstWindow == 0 \in Windows /\ Windows \subseteq Nat
BY CallsAssumption DEF Windows, WindowOf

\* The profiles name providers of both kinds.
LEMMA SettingsProviders ==
    ASSUME settings \in Deployments, NEW profile \in Profiles, NEW kind \in {"ocr", "llm"}
    PROVE  SettingsFor(profile)[kind] \in Providers
<1>1. settings.llm \in Providers
    BY CallsAssumption DEF Providers, OcrProviders
<1>2. CASE profile = "local"
    BY <1>2 DEF SettingsFor, Providers, OcrProviders
<1>3. CASE profile = "hybrid"
    BY <1>3 DEF SettingsFor, Providers, OcrProviders
<1>4. CASE profile = "azure"
    BY <1>1, <1>4 DEF SettingsFor, Providers, OcrProviders
<1>5. CASE profile = "approval"
    BY <1>1, <1>5 DEF SettingsFor, Providers, OcrProviders
<1>6. QED  BY <1>2, <1>3, <1>4, <1>5 DEF Profiles

\* A retry counts its attempt and gives what the failed attempt was at back.
LEMMA RetriedCall ==
    ASSUME NEW state \in CallStates
    PROVE  /\ Retried(state) \in CallStates
           /\ Retried(state).phase \in {"ready", "failed"}
           /\ Retried(state).profile = state.profile
           /\ Retried(state).provider = state.provider
           /\ Retried(state).payload = state.payload
<1>1. /\ MaxAttempts \in Nat /\ 0 \in Windows /\ 0 \in 0..MaxTime
      /\ 0 \in 0..MaxPolls /\ 0 \in 0..MaxResends
      /\ state.attempt \in 0..MaxAttempts
      /\ "ready" \in Phases /\ "failed" \in Phases
    BY CallsAssumption, FirstWindow DEF Phases, CallStates
<1>2. ASSUME NEW phase \in Phases, NEW over, over = Over(state, phase)
      PROVE  /\ over \in CallStates
             /\ over.phase = phase /\ over.attempt = state.attempt
             /\ over.profile = state.profile /\ over.provider = state.provider
             /\ over.payload = state.payload
    BY <1>1, <1>2 DEF Over, CallStates
<1>3. CASE state.attempt < MaxAttempts
    <2>1. state.attempt + 1 \in 0..MaxAttempts
        BY <1>1, <1>3
    <2>2. PICK over \in CallStates :
             /\ over = Over(state, "ready") /\ over.phase = "ready"
             /\ over.attempt = state.attempt /\ over.profile = state.profile
             /\ over.provider = state.provider /\ over.payload = state.payload
        BY <1>1, <1>2
    <2>3. Retried(state) = [over EXCEPT !.attempt = state.attempt + 1]
        BY <1>3, <2>2 DEF Retried
    <2>4. QED  BY <2>1, <2>2, <2>3 DEF CallStates
<1>4. CASE ~ state.attempt < MaxAttempts
    BY <1>1, <1>2, <1>4 DEF Retried
<1>5. QED  BY <1>3, <1>4

\* An answered attempt forgets its window, its polls and its resends.
LEMMA AnsweredCall ==
    ASSUME NEW state \in CallStates
    PROVE  /\ Over(state, "answered") \in CallStates
           /\ Over(state, "answered").phase = "answered"
           /\ Over(state, "answered").profile = state.profile
           /\ Over(state, "answered").provider = state.provider
           /\ Over(state, "answered").payload = state.payload
<1>1. /\ 0 \in Windows /\ 0 \in 0..MaxTime /\ 0 \in 0..MaxPolls /\ 0 \in 0..MaxResends
      /\ "answered" \in Phases
    BY CallsAssumption, FirstWindow DEF Phases
<1>2. QED  BY <1>1 DEF Over, CallStates

\* A call begins with its first attempt, for what the gate made of it.
LEMMA BegunCall ==
    ASSUME NEW state \in CallStates, NEW phase \in {"blocked", "ready"},
           NEW profile \in Profiles, NEW provider \in Providers
    PROVE  [state EXCEPT !.profile = profile, !.provider = provider,
                         !.payload = Sanitized(provider), !.attempt = 1,
                         !.phase = phase] \in CallStates
<1>1. /\ 1 \in 0..MaxAttempts /\ Sanitized(provider) \in {"raw", "redacted", "file"}
      /\ phase \in Phases
    BY CallsAssumption DEF Sanitized, Phases
<1>2. QED  BY <1>1 DEF CallStates

-----------------------------------------------------------------------------
\* The counters and keys keep their types, whoever steps.
LEMMA TypeStep == ProviderTypeOK /\ [Next]_vars => ProviderTypeOK'
<1> SUFFICES ASSUME ProviderTypeOK, [Next]_vars PROVE ProviderTypeOK'
    OBVIOUS
<1>1. CASE UNCHANGED vars
    BY <1>1 DEF ProviderTypeOK, vars
<1>2. ASSUME NEW c \in Calls, NEW request \in Requests, Begin(c, request)
      PROVE  ProviderTypeOK'
    <2>1. request.profile \in Profiles /\ request.kind \in {"ocr", "llm"}
        BY CallsAssumption DEF Profiles
    <2>2. SettingsFor(request.profile)[request.kind] \in Providers
        BY <2>1, SettingsProviders DEF ProviderTypeOK
    <2> DEFINE provider == SettingsFor(request.profile)[request.kind]
           phase == IF Blocked(provider, request.profile) THEN "blocked" ELSE "ready"
    <2>3. phase \in {"blocked", "ready"} /\ call[c] \in CallStates
        BY DEF ProviderTypeOK
    <2> HIDE DEF provider, phase
    <2>4. [call[c] EXCEPT !.profile = request.profile, !.provider = provider,
                          !.payload = Sanitized(provider), !.attempt = 1,
                          !.phase = phase] \in CallStates
        BY <2>1, <2>2, <2>3, BegunCall DEF provider
    <2> USE DEF provider, phase
    <2>5. QED  BY <1>2, <2>4 DEF Begin, ProviderTypeOK
<1>3. ASSUME NEW c \in Calls, CallStep(c)
      PROVE  ProviderTypeOK'
    <2> DEFINE p == call[c].provider
               w == call[c].window
    <2>0. /\ call[c] \in CallStates /\ clock \in 0..MaxTime
          /\ 0 \in Windows /\ 0 \in 0..MaxTime
          /\ {"asking", "granted", "waiting", "sent", "answered"} \subseteq Phases
        BY CallsAssumption, FirstWindow DEF ProviderTypeOK, Phases
    <2>1. CASE Ask(c)
        <3>1. WindowOf(clock) \in Windows
            BY <2>0, ClockWindow
        <3>2. [call[c] EXCEPT !.phase = "asking", !.window = WindowOf(clock),
                              !.asked = clock] \in CallStates
            BY <2>0, <3>1 DEF CallStates
        <3>3. QED  BY <2>1, <3>2 DEF Ask, ProviderTypeOK
    <2>2. CASE Increment(c)
        <3>1. p \in Providers /\ w \in Windows
            BY <2>0 DEF CallStates
        <3>2. Incremented(key[p][w]) \in [count : Nat, expires : Nat]
            <4>1. key[p][w] \in [count : Nat, expires : Nat] /\ clock \in Nat
                BY <2>0, <3>1, CallsAssumption DEF ProviderTypeOK
            <4>2. QED  BY <4>1 DEF Incremented, KeyLife
        <3>3. key' \in [Providers -> [Windows -> [count : Nat, expires : Nat]]]
            BY <2>2, <3>1, <3>2 DEF Increment, ProviderTypeOK
        <3>4. [call[c] EXCEPT !.phase = "granted", !.window = 0, !.asked = 0] \in CallStates
            BY <2>0 DEF CallStates
        <3>5. [call[c] EXCEPT !.phase = "waiting", !.asked = 0] \in CallStates
            BY <2>0 DEF CallStates
        <3>6. call' \in [Calls -> CallStates]
            BY <2>2, <3>4, <3>5 DEF Increment, ProviderTypeOK
        <3>7. granted' \in [Providers -> [Windows -> Nat]] /\ tokens' \in [Calls -> Nat]
            <4>1. granted \in [Providers -> [Windows -> Nat]] /\ tokens \in [Calls -> Nat]
                BY DEF ProviderTypeOK
            <4>2. granted' = granted \/ granted' = [granted EXCEPT ![p][w] = @ + 1]
                BY <2>2 DEF Increment
            <4>3. tokens' = tokens \/ tokens' = [tokens EXCEPT ![c] = @ + 1]
                BY <2>2 DEF Increment
            <4>4. granted' \in [Providers -> [Windows -> Nat]]
                BY <3>1, <4>1, <4>2
            <4>5. QED  BY <4>1, <4>3, <4>4
        <3>8. UNCHANGED <<settings, clock, started, sends>>
            BY <2>2 DEF Increment
        <3>9. QED  BY <3>3, <3>6, <3>7, <3>8 DEF ProviderTypeOK
    <2>3. CASE Send(c)
        <3>1. [call[c] EXCEPT !.phase = "sent"] \in CallStates
            BY <2>0 DEF CallStates
        <3>2. QED  BY <2>3, <3>1 DEF Send, To, ProviderTypeOK
    <2>4. CASE Resend(c)
        <3>1. [call[c] EXCEPT !.resends = @ + 1] \in CallStates
            BY <2>0, <2>4, CallsAssumption DEF CallStates, Resend
        <3>2. call' = [call EXCEPT ![c] = [call[c] EXCEPT !.resends = @ + 1]]
            BY <2>0, <2>4 DEF Resend, ProviderTypeOK, CallStates
        <3>3. call' \in [Calls -> CallStates]
            BY <3>1, <3>2 DEF ProviderTypeOK
        <3>4. QED  BY <2>4, <3>3 DEF Resend, ProviderTypeOK
    <2>5. CASE Poll(c)
        <3>1. call[c].polls + 1 \in 0..MaxPolls /\ 0 \in 0..MaxResends
            BY <2>0, <2>5, CallsAssumption DEF CallStates, Poll
        <3>2. call'[c] = [call[c] EXCEPT !.polls = call[c].polls + 1, !.resends = 0]
            BY <2>0, <2>5 DEF Poll, ProviderTypeOK
        <3>3. call'[c] \in CallStates
            BY <2>0, <3>1, <3>2 DEF CallStates
        <3>4. \A d \in Calls \ {c} : call'[d] = call[d]
            BY <2>5 DEF Poll, ProviderTypeOK
        <3>5. call' \in [Calls -> CallStates]
            BY <2>5, <3>3, <3>4 DEF Poll, ProviderTypeOK
        <3>6. QED  BY <2>5, <3>5 DEF Poll, ProviderTypeOK
    <2>6. CASE Answer(c)
        <3>1. Over(call[c], "answered") \in CallStates
            BY <2>0, AnsweredCall
        <3>2. QED  BY <2>6, <3>1 DEF Answer, ProviderTypeOK
    <2>7. CASE FailAttempt(c)
        <3>1. Retried(call[c]) \in CallStates
            BY <2>0, RetriedCall
        <3>2. QED  BY <2>7, <3>1 DEF FailAttempt, ProviderTypeOK
    <2>8. QED  BY <1>3, <2>1, <2>2, <2>3, <2>4, <2>5, <2>6, <2>7 DEF CallStep
<1>4. CASE Tick
    BY <1>4, CallsAssumption DEF Tick, ProviderTypeOK
<1>5. QED  BY <1>1, <1>2, <1>3, <1>4 DEF Next

LEMMA TypeInit == Init => ProviderTypeOK
BY CallsAssumption, FirstWindow DEF Init, ProviderTypeOK, NewCall, CallStates, Phases,
   Providers, OcrProviders, Profiles

\* The calls' phases, the settings and the counters have their types in every state.
THEOREM ProviderTypes == Spec => []ProviderTypeOK
<1>1. QED  BY TypeInit, TypeStep, PTL DEF Spec

-----------------------------------------------------------------------------
\* The phase of call c goes from one of a set to another; of what the call holds and
\* has done, the flags say what the step adds to.
Moves(c, from, to, token, start, send) ==
    /\ call[c].phase \in from /\ call'[c].phase = to
    /\ tokens' = IF token THEN [tokens EXCEPT ![c] = @ + 1] ELSE tokens
    /\ started' = IF start THEN [started EXCEPT ![c] = @ + 1] ELSE started
    /\ sends' = IF send THEN [sends EXCEPT ![c] = @ + 1] ELSE sends

\* What a step of call c leaves alone.
OnlyThisCall(c) ==
    /\ settings' = settings
    /\ \A d \in Calls \ {c} : call'[d] = call[d]
    /\ call'[c].profile = call[c].profile
    /\ call'[c].provider = call[c].provider
    /\ call'[c].payload = call[c].payload

Trying == {"ready", "asking", "granted", "waiting", "sent"}

StepOfCall(c) ==
    \/ Moves(c, {"ready", "waiting"}, "asking", FALSE, FALSE, FALSE)
    \/ Moves(c, {"asking"}, "granted", TRUE, FALSE, FALSE)
    \/ Moves(c, {"asking"}, "waiting", FALSE, FALSE, FALSE)
    \/ Moves(c, {"granted"}, "sent", FALSE, TRUE, TRUE)
    \/ Moves(c, {"ready"}, "sent", FALSE, TRUE, TRUE) /\ ~ Metered(c)
    \/ Moves(c, {"sent"}, "sent", FALSE, FALSE, TRUE) /\ call[c].provider = "azure_di"
    \/ Moves(c, {"sent"}, "answered", FALSE, FALSE, FALSE)
    \/ Moves(c, Trying, "ready", FALSE, FALSE, FALSE)
    \/ Moves(c, Trying, "failed", FALSE, FALSE, FALSE)

LEMMA CallSteps ==
    ASSUME ProviderTypeOK, NEW c \in Calls, CallStep(c)
    PROVE  OnlyThisCall(c) /\ StepOfCall(c)
<1>1. call[c] \in CallStates /\ call \in [Calls -> CallStates]
    BY DEF ProviderTypeOK
<1>2. CASE Ask(c)
    BY <1>1, <1>2 DEF Ask, OnlyThisCall, StepOfCall, Moves, CallStates
<1>3. CASE Increment(c)
    <2>1. CASE UNCHANGED <<granted, tokens>> /\
               call' = [call EXCEPT ![c] = [@ EXCEPT !.phase = "waiting", !.asked = 0]]
        BY <1>1, <1>3, <2>1 DEF Increment, OnlyThisCall, StepOfCall, Moves, CallStates
    <2>2. CASE /\ tokens' = [tokens EXCEPT ![c] = @ + 1]
               /\ call' = [call EXCEPT ![c] = [@ EXCEPT !.phase = "granted",
                                                        !.window = 0, !.asked = 0]]
        BY <1>1, <1>3, <2>2 DEF Increment, OnlyThisCall, StepOfCall, Moves, CallStates
    <2>3. QED  BY <1>3, <2>1, <2>2 DEF Increment
<1>4. CASE Send(c)
    BY <1>1, <1>4 DEF Send, MaySend, To, OnlyThisCall, StepOfCall, Moves, CallStates
<1>5. CASE Resend(c)
    BY <1>1, <1>5 DEF Resend, AwaitsAzure, OnlyThisCall, StepOfCall, Moves, CallStates
<1>6. CASE Poll(c)
    <2>1. /\ call'[c] = [call[c] EXCEPT !.polls = @ + 1, !.resends = 0]
          /\ \A d \in Calls \ {c} : call'[d] = call[d]
        BY <1>1, <1>6 DEF Poll
    <2>2. QED  BY <1>1, <1>6, <2>1 DEF Poll, AwaitsAzure, OnlyThisCall, StepOfCall, Moves,
                                      CallStates
<1>7. CASE Answer(c)
    <2>1. call'[c] = Over(call[c], "answered") /\ \A d \in Calls \ {c} : call'[d] = call[d]
        BY <1>1, <1>7 DEF Answer
    <2>2. QED  BY <1>1, <1>7, <2>1, AnsweredCall DEF Answer, OnlyThisCall, StepOfCall, Moves
<1>8. CASE FailAttempt(c)
    <2>1. call'[c] = Retried(call[c]) /\ \A d \in Calls \ {c} : call'[d] = call[d]
        BY <1>1, <1>8 DEF FailAttempt
    <2>2. UNCHANGED <<settings, tokens, started, sends>>
        BY <1>8 DEF FailAttempt
    <2>3. call[c].phase \in Trying
        BY <1>8 DEF FailAttempt, MaySend, Trying
    <2>4. QED  BY <1>1, <2>1, <2>2, <2>3, RetriedCall DEF OnlyThisCall, StepOfCall, Moves
<1>9. QED  BY <1>2, <1>3, <1>4, <1>5, <1>6, <1>7, <1>8 DEF CallStep

\* Whether the gate blocks depends on the provider, the profile and the deployment.
LEMMA GateKept ==
    ASSUME settings' = settings, NEW c, NEW d,
           call'[c].provider = call[d].provider, call'[c].profile = call[d].profile
    PROVE  /\ Blocked(call[c].provider, call[c].profile)' <=>
                Blocked(call[d].provider, call[d].profile)
           /\ Metered(c)' <=> Metered(d)
BY DEF Blocked, SettingsFor, Context, AllowedUseCases, Metered

LEMMA StepOfCallInv ==
    ASSUME CallInv, NEW c \in Calls, OnlyThisCall(c), StepOfCall(c)
    PROVE  SilentWhenClosed' /\ PassedTheGate' /\ TokenInHand' /\ OneRequestElsewhere'
<1>1. /\ \A d \in Calls : call[d] \in CallStates
      /\ tokens \in [Calls -> Nat] /\ started \in [Calls -> Nat] /\ sends \in [Calls -> Nat]
    BY DEF CallInv, ProviderTypeOK
<1>2. /\ \A d \in Calls \ {c} : /\ tokens'[d] = tokens[d]
                               /\ started'[d] = started[d] /\ sends'[d] = sends[d]
      /\ \A d \in Calls \ {c} : call'[d] = call[d]
    BY <1>1 DEF OnlyThisCall, StepOfCall, Moves
<1>3. \A d \in Calls :
         /\ Blocked(call[d].provider, call[d].profile)' <=>
              Blocked(call[d].provider, call[d].profile)
         /\ Metered(d)' <=> Metered(d)
    BY GateKept DEF OnlyThisCall
<1>4. call'[c].phase \notin {"idle", "blocked"} /\ call[c].phase \notin {"idle", "blocked"}
    BY DEF StepOfCall, Moves, Trying
<1>5. SilentWhenClosed'
    BY <1>2, <1>4 DEF CallInv, SilentWhenClosed
<1>6. PassedTheGate'
    <2>1. ASSUME NEW d \in Calls, call'[d].phase \notin {"idle", "blocked"}
          PROVE  /\ ~ Blocked(call[d].provider, call[d].profile)'
                 /\ call'[d].payload = Sanitized(call'[d].provider)
        BY <1>2, <1>3, <1>4, <2>1 DEF CallInv, PassedTheGate, OnlyThisCall
    <2>2. QED  BY <2>1 DEF PassedTheGate
<1>7. TokenInHand'
    <2>1. ASSUME Metered(c)
          PROVE  /\ started'[c] <= tokens'[c]
                 /\ call'[c].phase = "granted" => started'[c] < tokens'[c]
        BY <1>1, <2>1 DEF CallInv, TokenInHand, StepOfCall, Moves
    <2>2. QED  BY <1>2, <1>3, <2>1 DEF CallInv, TokenInHand
<1>8. OneRequestElsewhere'
    <2>1. call'[c].provider # "azure_di" => sends'[c] = started'[c]
        BY <1>1 DEF CallInv, OneRequestElsewhere, StepOfCall, Moves, OnlyThisCall
    <2>2. QED  BY <1>2, <2>1 DEF CallInv, OneRequestElsewhere
<1>9. QED  BY <1>5, <1>6, <1>7, <1>8

\* The gate is asked once, when the call begins.
LEMMA BeginInv ==
    ASSUME CallInv, NEW c \in Calls, NEW request \in Requests, Begin(c, request)
    PROVE  SilentWhenClosed' /\ PassedTheGate' /\ TokenInHand' /\ OneRequestElsewhere'
<1> DEFINE profile == request.profile
           provider == SettingsFor(profile)[request.kind]
<1>1. /\ call \in [Calls -> CallStates] /\ call[c] \in CallStates
      /\ tokens \in [Calls -> Nat] /\ started \in [Calls -> Nat] /\ sends \in [Calls -> Nat]
    BY DEF CallInv, ProviderTypeOK
<1>2. /\ UNCHANGED <<settings, tokens, started, sends>>
      /\ call[c].phase = "idle"
      /\ \A d \in Calls \ {c} : call'[d] = call[d]
    BY <1>1 DEF Begin
<1>3. /\ call'[c].phase = IF Blocked(provider, profile) THEN "blocked" ELSE "ready"
      /\ call'[c].profile = profile /\ call'[c].provider = provider
      /\ call'[c].payload = Sanitized(provider)
    BY <1>1 DEF Begin, CallStates
<1>4. sends[c] = 0 /\ started[c] = 0 /\ tokens[c] = 0
    BY <1>2 DEF CallInv, SilentWhenClosed
<1>5. SilentWhenClosed' /\ OneRequestElsewhere'
    BY <1>1, <1>2, <1>3, <1>4 DEF CallInv, SilentWhenClosed, OneRequestElsewhere
<1>6. \A d \in Calls \ {c} :
         /\ Blocked(call[d].provider, call[d].profile)' <=>
              Blocked(call[d].provider, call[d].profile)
         /\ Metered(d)' <=> Metered(d)
    BY <1>2, GateKept
<1>7. Blocked(call[c].provider, call[c].profile)' <=> Blocked(provider, profile)
    BY <1>2, <1>3 DEF Blocked, SettingsFor, Context, AllowedUseCases
<1>8. PassedTheGate'
    <2>1. ASSUME NEW d \in Calls, call'[d].phase \notin {"idle", "blocked"}
          PROVE  /\ ~ Blocked(call[d].provider, call[d].profile)'
                 /\ call'[d].payload = Sanitized(call'[d].provider)
        <3>1. CASE d = c
            BY <1>3, <1>7, <2>1, <3>1
        <3>2. CASE d # c
            BY <1>2, <1>6, <2>1, <3>2 DEF CallInv, PassedTheGate
        <3>3. QED  BY <3>1, <3>2
    <2>2. QED  BY <2>1 DEF PassedTheGate
<1>9. TokenInHand'
    <2>1. call'[c].phase # "granted"
        BY <1>3
    <2>2. ASSUME NEW d \in Calls \ {c}, Metered(d)'
          PROVE  /\ started'[d] <= tokens'[d]
                 /\ call'[d].phase = "granted" => started'[d] < tokens'[d]
        BY <1>2, <1>6, <2>2 DEF CallInv, TokenInHand
    <2>3. QED  BY <1>2, <1>4, <2>1, <2>2 DEF TokenInHand
<1>10. QED  BY <1>5, <1>8, <1>9

LEMMA CallInvInit == Init => CallInv
BY TypeInit DEF Init, CallInv, SilentWhenClosed, PassedTheGate, TokenInHand,
   OneRequestElsewhere, NewCall

LEMMA CallInvStep == CallInv /\ [Next]_vars => CallInv'
<1> SUFFICES ASSUME CallInv, [Next]_vars PROVE CallInv'
    OBVIOUS
<1>1. ProviderTypeOK'
    BY TypeStep DEF CallInv
<1>2. ASSUME UNCHANGED <<settings, call, tokens, started, sends>>
      PROVE  SilentWhenClosed' /\ PassedTheGate' /\ TokenInHand' /\ OneRequestElsewhere'
    BY <1>2 DEF CallInv, SilentWhenClosed, PassedTheGate, TokenInHand, OneRequestElsewhere,
                Blocked, SettingsFor, Context, AllowedUseCases, Metered
<1>3. SilentWhenClosed' /\ PassedTheGate' /\ TokenInHand' /\ OneRequestElsewhere'
    <2>1. CASE UNCHANGED vars
        BY <1>2, <2>1 DEF vars
    <2>2. CASE Tick
        BY <1>2, <2>2 DEF Tick
    <2>3. CASE \E c \in Calls, request \in Requests : Begin(c, request)
        BY <2>3, BeginInv
    <2>4. CASE \E c \in Calls : CallStep(c)
        BY <2>4, CallSteps, StepOfCallInv DEF CallInv
    <2>5. QED  BY <2>1, <2>2, <2>3, <2>4 DEF Next
<1>4. QED  BY <1>1, <1>3 DEF CallInv

LEMMA CallInvHolds == Spec => []CallInv
BY CallInvInit, CallInvStep, PTL DEF Spec

\* However calls retry, each attempt of a metered call that reached the provider had a
\* token of its own, and with any provider but Azure so had each request.
THEOREM AttemptsPaid == Spec => []AttemptsArePaid
<1>1. CallInv => AttemptsArePaid
    BY DEF CallInv, TokenInHand, OneRequestElsewhere, AttemptsArePaid
<1>2. QED  BY <1>1, CallInvHolds, PTL

\* What a cloud provider is sent is allowed by the deployment and by the profile the
\* call was made under, and redacted for an LLM.
THEOREM CloudIsSanctioned == Spec => []CloudSanctioned
<1>1. CallInv => CloudSanctioned
    <2> SUFFICES ASSUME CallInv, NEW c \in Calls, sends[c] > 0, IsCloud(call[c].provider)
                 PROVE  /\ KindOf(call[c].provider) = "llm" => call[c].payload = "redacted"
                        /\ call[c].profile # "local"
                        /\ settings.allowSensitive
                        /\ call[c].profile = "approval" => settings.allowCloud
        BY DEF CloudSanctioned
    <2>1. call[c].phase \notin {"idle", "blocked"}
        BY DEF CallInv, SilentWhenClosed
    <2>2. /\ ~ Blocked(call[c].provider, call[c].profile)
          /\ KindOf(call[c].provider) = "llm" => call[c].payload = "redacted"
        BY <2>1 DEF CallInv, PassedTheGate, Sanitized
    <2>3. settings.allowSensitive
        BY <2>2 DEF Blocked, Context
    <2>4. call[c].profile # "local"
        BY <2>2 DEF Blocked, SettingsFor
    <2>5. call[c].profile = "approval" => settings.allowCloud
        BY <2>2 DEF Blocked, Context
    <2>6. QED  BY <2>2, <2>3, <2>4, <2>5
<1>2. QED  BY <1>1, CallInvHolds, PTL

-----------------------------------------------------------------------------
\* A call that asks names the window of a time not after the clock.
LEMMA AskedBeforeStep ==
    ASSUME ProviderTypeOK, AskedBefore, [Next]_vars
    PROVE  AskedBefore'
<1>0. /\ clock \in Nat /\ call \in [Calls -> CallStates]
      /\ \A c \in Calls : call[c] \in CallStates /\ call[c].asked \in Nat
    BY CallsAssumption DEF ProviderTypeOK, CallStates
<1> SUFFICES ASSUME NEW d \in Calls, call'[d].phase = "asking"
             PROVE  /\ call'[d].window = WindowOf(call'[d].asked)
                    /\ call'[d].asked <= clock'
    BY DEF AskedBefore, WindowOf
<1>1. CASE UNCHANGED vars
    BY <1>1 DEF vars, AskedBefore
<1>2. CASE Tick
    BY <1>0, <1>2 DEF Tick, AskedBefore
<1>3. ASSUME NEW c \in Calls, NEW request \in Requests, Begin(c, request)
      PROVE  call'[d] = call[d] /\ clock' = clock
    BY <1>0, <1>3 DEF Begin, CallStates
<1>4. ASSUME NEW c \in Calls, CallStep(c)
      PROVE  /\ clock' = clock
             /\ \/ call'[d] = call[d]
                \/ call'[d].window = WindowOf(clock) /\ call'[d].asked = clock
    <2>1. clock' = clock
        BY <1>4 DEF CallStep, Ask, Increment, Send, Resend, Poll, Answer, FailAttempt
    <2>2. CASE Ask(c)
        BY <1>0, <2>1, <2>2 DEF Ask, CallStates
    <2>3. CASE ~ Ask(c)
        <3>1. call[c] \in CallStates
            BY <1>0
        <3>2. CASE Increment(c)
            <4>1. \/ call'[c] = [call[c] EXCEPT !.phase = "granted", !.window = 0, !.asked = 0]
                  \/ call'[c] = [call[c] EXCEPT !.phase = "waiting", !.asked = 0]
                BY <1>0, <3>2 DEF Increment
            <4>2. call'[c].phase # "asking"
                BY <3>1, <4>1 DEF CallStates
            <4>3. QED  BY <1>4, <2>1, <4>2, CallSteps DEF OnlyThisCall
        <3>3. CASE Send(c)
            <4>1. call'[c].phase # "asking"
                BY <1>0, <3>3 DEF Send, To, CallStates
            <4>2. QED  BY <1>4, <2>1, <4>1, CallSteps DEF OnlyThisCall
        <3>4. CASE Resend(c) \/ Poll(c)
            <4>1. call[c].phase = "sent" /\ call'[c].phase = call[c].phase
                BY <1>0, <3>4 DEF Resend, Poll, AwaitsAzure, CallStates
            <4>2. QED  BY <1>4, <2>1, <4>1, CallSteps DEF OnlyThisCall
        <3>5. CASE Answer(c)
            <4>1. call'[c].phase # "asking"
                BY <1>0, <3>1, <3>5, AnsweredCall DEF Answer
            <4>2. QED  BY <1>4, <2>1, <4>1, CallSteps DEF OnlyThisCall
        <3>6. CASE FailAttempt(c)
            <4>1. call'[c].phase # "asking"
                BY <1>0, <3>1, <3>6, RetriedCall DEF FailAttempt
            <4>2. QED  BY <1>4, <2>1, <4>1, CallSteps DEF OnlyThisCall
        <3>7. QED  BY <1>4, <2>3, <3>2, <3>3, <3>4, <3>5, <3>6 DEF CallStep
    <2>4. QED  BY <2>2, <2>3
<1>5. QED  BY <1>0, <1>1, <1>2, <1>3, <1>4 DEF Next, AskedBefore

\* The key that a call in time increments has not expired.
LEMMA KeyAlive ==
    ASSUME BudgetInv, NEW c \in Calls, call[c].phase = "asking"
    PROVE  LET w == call[c].window
               entry == key[call[c].provider][w]
           IN  /\ InTime(w) /\ entry.count > 0 => clock < entry.expires
               /\ 2 * w <= clock
<1> DEFINE p == call[c].provider
           w == call[c].window
           t == call[c].asked
<1>0. call[c] \in CallStates /\ clock \in 0..MaxTime /\ MaxTime \in Nat
    BY CallsAssumption DEF BudgetInv, ProviderTypeOK
<1>1. /\ p \in Providers /\ w \in Windows /\ t \in Nat /\ clock \in Nat /\ w \in Nat
    <2>1. p \in Providers /\ w \in Windows /\ t \in 0..MaxTime
        BY <1>0 DEF CallStates
    <2> HIDE DEF p, w, t
    <2>2. w \in Nat
        BY <2>1, FirstWindow
    <2>3. QED  BY <1>0, <2>1, <2>2
<1>2. w = WindowOf(t) /\ t <= clock
    BY DEF BudgetInv, AskedBefore
<1>3. 2 * w <= t
    BY <1>1, <1>2, WindowOfTime
<1>4. key[p][w].count > 0 => key[p][w].expires >= 2 * w + 3
    BY <1>1 DEF BudgetInv, KeyCovers, KeyLife
<1>5. key[p][w].expires \in Nat
    BY <1>1 DEF BudgetInv, ProviderTypeOK
<1>6. QED  BY <1>1, <1>2, <1>3, <1>4, <1>5 DEF InTime

\* A call in time is granted a token only while the live key has not counted past the
\* budget, and a late one leaves the window's tokens as they are.
LEMMA IncrementKeeps ==
    ASSUME BudgetInv, NEW c \in Calls, Increment(c)
    PROVE  KeyCovers' /\ BudgetHeld'
<1> DEFINE p == call[c].provider
           w == call[c].window
           entry == Incremented(key[p][w])
<1>1. /\ p \in Providers /\ w \in Windows /\ clock \in Nat /\ w \in Nat
      /\ call[c].phase = "asking" /\ Limit[KindOf(p)] \in Nat \ {0}
    BY CallsAssumption, FirstWindow
       DEF BudgetInv, ProviderTypeOK, CallStates, Increment, KindOf
<1>2. /\ key[p][w] \in [count : Nat, expires : Nat] /\ granted[p][w] \in Nat
      /\ key \in [Providers -> [Windows -> [count : Nat, expires : Nat]]]
      /\ granted \in [Providers -> [Windows -> Nat]]
    BY <1>1 DEF BudgetInv, ProviderTypeOK
<1>3. /\ InTime(w) /\ key[p][w].count > 0 => clock < key[p][w].expires
      /\ 2 * w <= clock
    BY <1>1, KeyAlive
<1>4. /\ key[p][w].count = 0 => granted[p][w] = 0
      /\ InTime(w) => granted[p][w] <= key[p][w].count
      /\ key[p][w].count > 0 => key[p][w].expires >= 2 * w + 3
      /\ granted[p][w] <= Limit[KindOf(p)]
    BY <1>1 DEF BudgetInv, KeyCovers, KeyLife, BudgetHeld
<1>5. /\ entry.count \in Nat \ {0} /\ entry.expires \in Nat
      /\ entry.expires >= 2 * w + 3
      /\ InTime(w) => granted[p][w] + 1 <= entry.count
    <2>1. CASE key[p][w].count > 0 /\ clock < key[p][w].expires
        <3>1. entry = [key[p][w] EXCEPT !.count = @ + 1]
            BY <2>1 DEF Incremented
        <3>2. entry.count = key[p][w].count + 1 /\ entry.expires = key[p][w].expires
            BY <1>2, <3>1
        <3>3. QED  BY <1>1, <1>2, <1>4, <2>1, <3>2
    <2>2. CASE ~ (key[p][w].count > 0 /\ clock < key[p][w].expires)
        <3>1. entry = [count |-> 1, expires |-> clock + 3]
            BY <2>2 DEF Incremented, KeyLife
        <3>2. InTime(w) => key[p][w].count = 0
            BY <1>2, <1>3, <2>2
        <3>3. QED  BY <1>1, <1>2, <1>3, <1>4, <3>1, <3>2
    <2>3. QED  BY <2>1, <2>2
<1>6. key' = [key EXCEPT ![p][w] = entry]
    BY DEF Increment
<1>7. \/ granted' = granted
      \/ granted' = [granted EXCEPT ![p][w] = @ + 1] /\ InTime(w)
           /\ entry.count <= Limit[KindOf(p)]
    BY DEF Increment
<1>0. clock' = clock
    BY DEF Increment
<1> HIDE DEF p, w, entry
<1>8. /\ key'[p][w] = entry
      /\ InTime(w) => granted'[p][w] <= entry.count
      /\ granted'[p][w] <= Limit[KindOf(p)]
    BY <1>1, <1>2, <1>4, <1>5, <1>6, <1>7
<1>9. ASSUME NEW q \in Providers, NEW v \in Windows, ~ (q = p /\ v = w)
      PROVE  key'[q][v] = key[q][v] /\ granted'[q][v] = granted[q][v]
    BY <1>1, <1>2, <1>6, <1>7, <1>9
<1>10. KeyCovers'
    BY <1>0, <1>5, <1>8, <1>9 DEF BudgetInv, KeyCovers, KeyLife, InTime
<1>11. BudgetHeld'
    BY <1>8, <1>9 DEF BudgetInv, BudgetHeld
<1>12. QED  BY <1>10, <1>11

LEMMA BudgetStep == BudgetInv /\ [Next]_vars => BudgetInv'
<1> SUFFICES ASSUME BudgetInv, [Next]_vars PROVE BudgetInv'
    OBVIOUS
<1>1. ProviderTypeOK' /\ AskedBefore'
    BY TypeStep, AskedBeforeStep DEF BudgetInv
<1>2. ASSUME UNCHANGED <<key, granted>>, clock' = clock \/ clock' = clock + 1
      PROVE  KeyCovers' /\ BudgetHeld'
    <2>1. clock \in Nat /\ Windows \subseteq Nat
        BY CallsAssumption, FirstWindow DEF BudgetInv, ProviderTypeOK
    <2>2. \A w \in Windows : InTime(w)' => InTime(w)
        BY <1>2, <2>1 DEF InTime
    <2>3. QED  BY <1>2, <2>2 DEF BudgetInv, KeyCovers, BudgetHeld
<1>3. CASE UNCHANGED vars
    BY <1>1, <1>2, <1>3 DEF vars, BudgetInv
<1>4. CASE Tick
    BY <1>1, <1>2, <1>4 DEF Tick, BudgetInv
<1>5. ASSUME NEW c \in Calls, NEW request \in Requests, Begin(c, request)
      PROVE  BudgetInv'
    BY <1>1, <1>2, <1>5 DEF Begin, BudgetInv
<1>6. ASSUME NEW c \in Calls, CallStep(c)
      PROVE  BudgetInv'
    <2>1. CASE Increment(c)
        BY <1>1, <2>1, IncrementKeeps DEF BudgetInv
    <2>2. CASE ~ Increment(c)
        BY <1>1, <1>2, <1>6, <2>2 DEF CallStep, Ask, Send, Resend, Poll, Answer,
                                       FailAttempt, BudgetInv
    <2>3. QED  BY <2>1, <2>2
<1>7. QED  BY <1>3, <1>4, <1>5, <1>6 DEF Next

\* Of no window of a provider are calls that come in time granted more tokens than its
\* budget, for any number of calls and retries and whatever late calls do to its key.
THEOREM BudgetIsHeld == Spec => []BudgetHeld
<1>1. Init => BudgetInv
    BY TypeInit, CallsAssumption
       DEF Init, BudgetInv, AskedBefore, KeyCovers, BudgetHeld, NewCall, KindOf
<1>2. BudgetInv => BudgetHeld
    BY DEF BudgetInv
<1>3. QED  BY <1>1, <1>2, BudgetStep, PTL DEF Spec
=============================================================================
