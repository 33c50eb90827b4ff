------------------------------- MODULE Access -------------------------------
(***************************************************************************)
(* Tokens and access: POST /auth/token signs a token for a user, and every *)
(* tenant route checks the token it is sent (app/auth, app/config.py).     *)
(*                                                                         *)
(* Nothing about a token is stored.  What the service knows of it is the   *)
(* signing secret, which a process takes from its environment or, outside  *)
(* production, generates at start.  So the tokens clients hold outlive the *)
(* processes that signed them, and what becomes of them at a restart       *)
(* depends on the deployment.                                              *)
(*                                                                         *)
(* Time is counted in ticks, Second of them to a second, because the "exp" *)
(* claim is in whole seconds (PyJWT drops the fraction when it encodes a   *)
(* datetime: external) and "expiresAt", which the client is told, is not.  *)
(***************************************************************************)
EXTENDS Integers

CONSTANTS
    Users,      \* subjects and path parameters, compared as strings
    Second,     \* ticks to a second
    Lifetime,   \* JWT_EXPIRE_HOURS, in seconds here
    MaxTime,    \* bound: ticks
    MaxStarts   \* bound: starts of the process

ASSUME AccessAssumption ==
    /\ Second \in Nat \ {0}
    /\ Lifetime \in Nat
    /\ MaxTime \in Nat
    /\ MaxStarts \in Nat

\* JWT_SECRET of the environment; the secrets generated at start are 1, 2, ...
Stable == 0

Token == [sub : Users, key : Nat, exp : Nat, told : Nat]

VARIABLES
    production, \* is APP_ENV "prod" or "production"?
    configured, \* is JWT_SECRET set, blanks aside?
    now,        \* the clock, in ticks
    up,         \* is the process running?
    starts,     \* how often it was started
    secret,     \* settings.JWT_SECRET of the last process that ran
    tokens,     \* the tokens issued so far
    refused     \* history: those a request was refused with, by a 401

vars == <<production, configured, now, up, starts, secret, tokens, refused>>

-----------------------------------------------------------------------------
(***************************************************************************)
(* Mistakes: what the definition each comment names would be if the code   *)
(* had a plausible bug.  Nothing below uses them.                          *)
(***************************************************************************)

\* MayStart, without the check of production.
MayStartAnyhow == TRUE

\* NewSecret, drawn from too small a space.
NewSecretRepeats(n) == IF configured THEN Stable ELSE 1 + (n % 2)

\* Claims, with an expiry rounded up.
ClaimsRoundedUp(u) ==
    [sub |-> u, key |-> secret, exp |-> now \div Second + Lifetime + 1,
     told |-> now + Lifetime * Second]

-----------------------------------------------------------------------------

Init ==
    /\ production \in BOOLEAN
    /\ configured \in BOOLEAN
    /\ now = 0
    /\ up = FALSE
    /\ starts = 0
    /\ secret = Stable
    /\ tokens = {}
    /\ refused = {}

\* "JWT_SECRET must be set when APP_ENV=production": the import fails.
MayStart == production => configured

\* The secret of the n-th process: the configured one, or a random one,
\* which differs from those before it.
NewSecret(n) == IF configured THEN Stable ELSE n

Start ==
    /\ ~up
    /\ starts < MaxStarts
    /\ MayStart
    /\ up' = TRUE
    /\ starts' = starts + 1
    /\ secret' = NewSecret(starts + 1)
    /\ UNCHANGED <<production, configured, now, tokens, refused>>

Crash ==
    /\ up
    /\ up' = FALSE
    /\ UNCHANGED <<production, configured, now, starts, secret, tokens, refused>>

Tick ==
    /\ now < MaxTime
    /\ now' = now + 1
    /\ UNCHANGED <<production, configured, up, starts, secret, tokens, refused>>

\* create_token: the claims, and the expiresAt that goes with them.
Claims(u) ==
    [sub |-> u, key |-> secret, exp |-> now \div Second + Lifetime,
     told |-> now + Lifetime * Second]

Issue(u) ==
    /\ up
    /\ tokens' = tokens \cup {Claims(u)}
    /\ UNCHANGED <<production, configured, now, up, starts, secret, refused>>

\* verify_token and the handlers of its exceptions: the signature is checked
\* before the claims (PyJWT, external).
Verify(t) ==
    IF t.key # secret THEN "INVALID_TOKEN"
    ELSE IF t.exp * Second <= now THEN "TOKEN_EXPIRED"
    ELSE "ok"

\* A request to a tenant route with token t.
Present(t) ==
    /\ up
    /\ t \in tokens
    /\ refused' = IF Verify(t) = "ok" THEN refused ELSE refused \cup {t}
    /\ UNCHANGED <<production, configured, now, up, starts, secret, tokens>>

Next ==
    \/ Start \/ Crash \/ Tick
    \/ \E u \in Users : Issue(u)
    \/ \E t \in tokens : Present(t)

Spec == Init /\ [][Next]_vars
-----------------------------------------------------------------------------
(***************************************************************************)
(* Properties.                                                             *)
(***************************************************************************)

\* The types of the variables.
TypeOK ==
    /\ production \in BOOLEAN /\ configured \in BOOLEAN /\ up \in BOOLEAN
    /\ now \in 0..MaxTime
    /\ starts \in 0..MaxStarts
    /\ secret \in 0..starts
    /\ tokens \subseteq Token
    /\ refused \subseteq tokens

\* "Production deployments must provide a stable JWT secret so tokens survive
\* restarts" (config.py): in production a token is good until it expires,
\* whichever process signed it and however often the service has restarted.
TokensSurviveRestarts ==
    up /\ production => \A t \in tokens :
        now < t.exp * Second => Verify(t) = "ok"

\* A refusal is final: a token that a request was refused with is not
\* accepted later, by no process and at no time.
RefusalIsFinal == up => \A t \in refused : Verify(t) # "ok"

\* What the client is told of the expiry is honest to the second: no token is
\* accepted at or after its expiresAt, and while its key is in use none is
\* refused a second or more before it.
ExpiryHonest ==
    up => \A t \in tokens :
        /\ Verify(t) = "ok" => now < t.told
        /\ Verify(t) = "TOKEN_EXPIRED" => now > t.told - Second
=============================================================================
