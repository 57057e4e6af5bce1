------------------------------ MODULE Gateway ------------------------------
(***************************************************************************)
(* What a request meets before Paperclip serves it: the rate limiter, then *)
(* the client keys, whose registry file is changed meanwhile by commands   *)
(* of an operator.  A command loads the file, changes what it read and     *)
(* writes all of it: write_text truncates first, and an empty file is no   *)
(* JSON.                                                                   *)
(***************************************************************************)
EXTENDS RateLimiter, KeyRegistry

CONSTANTS
  Operators,      \* invocations of the script that may run at once
  OtherToken,     \* a key of PAPERCLIP_CLIENT_API_KEYS, or the legacy token
  Torn,           \* the file between truncation and content
  MaxKeys         \* bound: raw keys ever made

ASSUME GatewayAssumption ==
  /\ {OtherToken, Torn} \cap Nat = {}
  /\ Torn \notin Seq(Entry) /\ MaxKeys \in Nat

VARIABLES
  file,       \* client_api_keys.json
  made,       \* raw keys made so far
  command,    \* the command each operator is in
  bearer,     \* the token a thread's request carries
  revoked     \* history: keys that a finished command reported revoked

registryVars == <<file, made, command, bearer, revoked>>
gatewayVars == <<limiterVars, registryVars>>

NoCommand == [pc |-> "none", payload |-> <<>>, key |-> 0]

GatewayInit ==
  /\ LimiterInit
  /\ file = <<>>
  /\ made = 0
  /\ command = [o \in Operators |-> NoCommand]
  /\ bearer = [t \in Threads |-> 0]
  /\ revoked = {}

-----------------------------------------------------------------------------
(* Commands.  key is the raw key a command will report revoked, 0 for none. *)

Begin(o, payload, key) ==
  /\ command' = [command EXCEPT ![o] = [pc |-> "save", payload |-> payload, key |-> key]]
  /\ UNCHANGED <<limiterVars, file, bearer, revoked>>

Loads(o) == command[o].pc = "none" /\ file # Torn

IssueKey(o, id, role) ==
  /\ Loads(o) /\ made < MaxKeys
  /\ made' = made + 1
  /\ Begin(o, Issue(file, id, made + 1, role), 0)

RevokeKey(o, id) ==
  /\ Loads(o) /\ Known(file, id)
  /\ Begin(o, Revoke(file, id), file[First(file, id)].key)
  /\ UNCHANGED made

RotateKey(o, id, new) ==
  /\ Loads(o) /\ Known(file, id) /\ made < MaxKeys
  /\ made' = made + 1
  /\ Begin(o, Rotate(file, id, new, made + 1), file[First(file, id)].key)

\* write_text opens the file ...
Truncate(o) ==
  /\ command[o].pc = "save"
  /\ file' = Torn
  /\ command' = [command EXCEPT ![o].pc = "write"]
  /\ UNCHANGED <<limiterVars, made, bearer, revoked>>

\* ... and writes and closes it; the command reports and ends.
Save(o) ==
  /\ command[o].pc = "write"
  /\ file' = command[o].payload
  /\ revoked' = revoked \cup ({command[o].key} \ {0})
  /\ command' = [command EXCEPT ![o] = NoCommand]
  /\ UNCHANGED <<limiterVars, made, bearer>>

\* A command is interrupted: it reports nothing, and a file it has truncated
\* stays so.
Interrupt(o) ==
  /\ command[o].pc # "none"
  /\ command' = [command EXCEPT ![o] = NoCommand]
  /\ UNCHANGED <<limiterVars, file, made, bearer, revoked>>

-----------------------------------------------------------------------------
(* Requests.                                                               *)

Tokens == (1..made) \cup {OtherToken}

\* Request of a client with a bearer token, made before it arrives.
ClientRequest(t, c, token) ==
  /\ Arrive(t, c)
  /\ bearer' = [bearer EXCEPT ![t] = token]
  /\ UNCHANGED <<file, made, command, revoked>>

\* A thread that is done keeps no token.
Forget ==
  /\ bearer' = [t \in Threads |-> IF handler'[t].pc = "idle" THEN 0 ELSE bearer[t]]
  /\ UNCHANGED <<file, made, command, revoked>>

\* A fault: the status of an entry is not asked.
AuthenticatedByRole(token) ==
  \/ \E i \in Matches(file, token) : file[i].role = "submitter"
  \/ token = OtherToken

\* resolve_api_key_identity_from_file, resolve_api_key_identity, the legacy
\* token: a key that the file knows and does not allow is a token of neither of
\* the others.
Authenticated(token) == \/ \E i \in Matches(file, token) : Allows(file[i])
                        \/ token = OtherToken

\* Answer 200: the request is served for the tenant of its key.
Accept(t) ==
  /\ file # Torn /\ Authenticated(bearer[t])
  /\ Served(t)
  /\ Forget

\* Answer 401, or an error: the file is no JSON.
Deny(t) ==
  /\ file # Torn => ~Authenticated(bearer[t])
  /\ Served(t)
  /\ Forget

LimiterStep == /\ Tick \/ \E t \in Threads : Allow(t)
               /\ Forget

OperatorStep(o) ==
  \/ \E id \in KeyIds : \/ RevokeKey(o, id)
                        \/ \E new \in KeyIds : RotateKey(o, id, new)
                        \/ \E role \in Roles : IssueKey(o, id, role)
  \/ Truncate(o) \/ Save(o) \/ Interrupt(o)

GatewayNext ==
  \/ LimiterStep
  \/ \E o \in Operators : OperatorStep(o)
  \/ \E t \in Threads : \/ Accept(t) \/ Deny(t)
                        \/ \E c \in Callers, token \in Tokens : ClientRequest(t, c, token)

GatewaySpec == GatewayInit /\ [][GatewayNext]_gatewayVars

-----------------------------------------------------------------------------
\* The type of the state.
GatewayTypeOK ==
  /\ LimiterTypeOK
  /\ file \in Seq(Entry) \cup {Torn}
  /\ made \in Nat
  /\ command \in [Operators -> [pc : {"none", "save", "write"}, payload : Seq(Entry),
                                key : Nat]]
  /\ bearer \in [Threads -> Nat \cup {OtherToken}]
  /\ revoked \in SUBSET Nat

\* Once a command has reported a key revoked, no later command lets a request
\* with it in again, whatever is issued, rotated or interrupted
\* (docs/api-key-rotation-revocation.md:54-58; manage_client_api_keys.py:40-65).
\* Of one operator: two lose each other's changes.
RevokedStaysOut ==
  [][\A t \in Threads : Accept(t) => bearer[t] \notin revoked]_gatewayVars
=============================================================================
