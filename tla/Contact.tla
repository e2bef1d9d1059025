------------------------------ MODULE Contact ------------------------------
(***************************************************************************)
(* POST /contact: configuration, the rate limiter of the worker, the body, *)
(* the choice of a provider and a sender, and one mail.                    *)
(*                                                                         *)
(* The requests in Call are followed to their answers; any number of other *)
(* requests use the limiter beside them.                                   *)
(***************************************************************************)
EXTENDS RateLimiter, ForwardEmailProvider

CONSTANT Environment   \* the states of process.env explored

VARIABLES
  env,         \* process.env, as far as contact reads it
  pc,          \* of every request
  status,      \* of its answer
  captured     \* DevelopmentEmailProvider has kept its mail

requestVars == <<env, pc, status, captured>>
contactVars == <<vars, providerVars, requestVars>>

NoAnswer == 0
Status == {NoAnswer, 202, 204, 400, 429, 500, 503}

\* What CONTACT_EMAIL_PROFILES_BY_HOST, a sender per host, yields for the host
\* of the request: one entry that does not parse fails every lookup.
ProfileOutcome == {"silent", "valid", "invalid", "unparsable"}

EnvironmentRecord ==
  [provider : {"forward-email", "development", "unset"}, nodeProduction : BOOLEAN,
   allowProduction : BOOLEAN, allowPreview : BOOLEAN, token : BOOLEAN,
   senderValid : BOOLEAN, profiles : ProfileOutcome]

\* The preview header, a Referer under /pr-preview/, whose page the Origin is,
\* and whether ORIGINS lists it.
Headers ==
  {h \in [flag : BOOLEAN, referer : BOOLEAN, origin : {"none", "preview", "site"},
          listed : BOOLEAN] : h.origin = "none" => ~h.listed}

ASSUME ContactAssumption == Environment \subseteq EnvironmentRecord
-----------------------------------------------------------------------------
\* isProductionSendAllowed
MayGoLive == env.allowProduction

\* loadEmailRuntimeConfig: live mail is downgraded unless it is allowed.
RuntimeProvider ==
  IF /\ MayGoLive
     /\ env.provider = "forward-email" \/ (env.provider = "unset" /\ env.nodeProduction)
  THEN "forward-email" ELSE "development"

isPreviewContactTraffic(h) == h.flag \/ h.referer \/ h.origin = "preview"

\* resolveTrustedContactHost
TrustedHost(h) == h.listed

\* resolveContactEmailProvider
ProviderFor(h) ==
  IF isPreviewContactTraffic(h) /\ ~env.allowPreview THEN "development" ELSE RuntimeProvider

IsConfigured(name) == name = "forward-email" => env.token

\* resolveContactEmailProfile: the map by host is read for trusted hosts only.
SenderUsable(h) ==
  IF TrustedHost(h) /\ env.profiles # "silent" THEN env.profiles = "valid" ELSE env.senderValid

Answer(r, s) ==
  /\ pc' = [pc EXCEPT ![r] = "answered"]
  /\ status' = [status EXCEPT ![r] = s]

\* A request arrives and awaits ensureAppConfiguration, which may fail.
Arrive(r) ==
  /\ pc[r] = "idle"
  /\ \/ pc' = [pc EXCEPT ![r] = "configured"] /\ UNCHANGED status
     \/ Answer(r, 503)
  /\ UNCHANGED <<vars, providerVars, env, captured>>

AnswerPreflight(r) ==
  /\ pc[r] = "configured"
  /\ Answer(r, 204)
  /\ UNCHANGED <<vars, providerVars, env, captured>>

\* The limiter has its say before the body is read.
Consume(r, k) ==
  /\ pc[r] = "configured"
  /\ \/ Allow(k) /\ pc' = [pc EXCEPT ![r] = "reading"] /\ UNCHANGED status
     \/ Deny(k) /\ Answer(r, 429)
  /\ UNCHANGED <<providerVars, env, captured>>

(***************************************************************************)
(* The body has arrived: from here to the first POST nothing gives way.    *)
(***************************************************************************)
RejectBody(r) ==
  /\ pc[r] = "reading"
  /\ Answer(r, 400)
  /\ UNCHANGED <<vars, providerVars, env, captured>>

\* No usable sender or no token: 503 before anything is posted.
Unavailable(r) == Answer(r, 503) /\ UNCHANGED <<providerVars, captured>>

\* DevelopmentEmailProvider keeps the mail and answers at once.
Capture(r) ==
  /\ captured' = [captured EXCEPT ![r] = TRUE]
  /\ Answer(r, 202)
  /\ UNCHANGED providerVars

SendLive(r) ==
  /\ StartSend(r)
  /\ pc' = [pc EXCEPT ![r] = "sending"]
  /\ UNCHANGED <<status, captured>>

\* submitContactInquiry
Submit(r, h) ==
  LET provider == ProviderFor(h) IN
  /\ pc[r] = "reading"
  /\ IF ~SenderUsable(h) \/ ~IsConfigured(provider) THEN Unavailable(r)
     ELSE IF provider = "development" THEN Capture(r)
     ELSE SendLive(r)
  /\ UNCHANGED <<vars, env>>

\* Mutated form of FailureStatus: every failure is called permanent.
AlwaysPermanent(k) == 500
FailureStatus(k) == IF k = "permanent" THEN 500 ELSE 503

\* The provider's promise settles.
Settle(r) ==
  /\ pc[r] = "sending" /\ phase[r] \in {"sent", "failed"}
  /\ Answer(r, IF phase[r] = "sent" THEN 202 ELSE FailureStatus(kind[r]))
  /\ UNCHANGED <<vars, providerVars, env, captured>>

\* Requests that are not followed any further.
OtherRequest(k) == TryConsume(k) /\ UNCHANGED <<providerVars, requestVars>>

Clock == Tick /\ UNCHANGED <<providerVars, requestVars>>

ContactInit ==
  /\ Init /\ ProviderInit
  /\ env \in Environment
  /\ pc = [r \in Call |-> "idle"]
  /\ status = [r \in Call |-> NoAnswer]
  /\ captured = [r \in Call |-> FALSE]

RequestStep(r) ==
  \/ Arrive(r) \/ AnswerPreflight(r) \/ RejectBody(r) \/ Settle(r)
  \/ \E k \in Client : Consume(r, k)
  \/ \E h \in Headers : Submit(r, h)
  \/ ProviderStep(r) /\ UNCHANGED <<vars, requestVars>>

ContactNext ==
  \/ \E r \in Call : RequestStep(r)
  \/ \E k \in Client : OtherRequest(k)
  \/ Clock

ContactSpec == ContactInit /\ [][ContactNext]_contactVars
-----------------------------------------------------------------------------
\* Types; the limiter's Map lists exactly the keys with instants, at most MAX_KEYS.
ContactTypeOK ==
  /\ TypeOK /\ ProviderTypeOK
  /\ env \in Environment
  /\ pc \in [Call -> {"idle", "configured", "reading", "sending", "answered"}]
  /\ status \in [Call -> Status]
  /\ captured \in [Call -> BOOLEAN]

(***************************************************************************)
(* The answer is true of the mail.  202: the mail service has it, or the   *)
(* development sink, and never both.  500, the answer that does not invite *)
(* to try again: no copy left, nor will one, unless the reply to an        *)
(* earlier attempt was lost.  Every other answer but 503: nothing was      *)
(* posted.                                                                 *)
(***************************************************************************)
AnswerIsTrue ==
  \A r \in Call : pc[r] = "answered" =>
    /\ status[r] = 202 => (Taken(r) # {} <=> ~captured[r])
    /\ status[r] = 500 =>
         \A a \in Attempt : mail[r][a] \in {"open", "taken"} => a \in LostReplies(r)
    /\ status[r] \in {204, 400, 429} => \A a \in Attempt : mail[r][a] = "unsent"
=============================================================================
