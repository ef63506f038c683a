--------------------------- MODULE StoragePipeline ---------------------------
(***************************************************************************)
(* One storage operation travelling through a client's HTTP pipeline.      *)
(*                                                                         *)
(* The policy list is the one every client constructor of src/ builds      *)
(* (ShareServiceClient, BlobContainerClient, DataLake PathClient):         *)
(*   Telemetry, PerOperationPolicies..., Retry, PerRetryPolicies...,       *)
(*   CommonHeadersRequestPolicy, SharedKeyPolicy | BearerToken..Policy |   *)
(*   (none, anonymous), TransportPolicy(CurlTransport).                    *)
(* Running the list (HttpPipeline::Send, RetryPolicy, TransportPolicy)     *)
(* is azure-core code outside this repository and follows the spec         *)
(* (sections 4.1, 5, 7).  The operation's <Op>ParseResponse, in src/,     *)
(* turns the final response into the result or a StorageError.            *)
(*                                                                         *)
(* The request travels down the list (`at` is the index of the policy      *)
(* running, `dir` the direction), the transport answers, the response      *)
(* travels back up; Retry may send it down again.  The caller may cancel   *)
(* the Context at any moment.                                              *)
(***************************************************************************)
EXTENDS Integers, Sequences, SequencesExt

CONSTANTS
  Credentials,     \* the constructors modelled: subset of {"SharedKey", "Token", "Anonymous"}
  PerOperation,    \* options.PerOperationPolicies, as a sequence of policy names
  PerRetry,        \* options.PerRetryPolicies, as a sequence of policy names
  Statuses,        \* HTTP status codes the service may answer
  ExpectedStatus,  \* the success status the operation's ParseResponse accepts
  RetryableStatuses, \* RetryOptions: status codes retried
  MaxTries,        \* RetryOptions: attempts per call, first one included
  Bodies           \* request body kinds: "none", "memory" (rewindable), "stream"

VARIABLES
  policies,   \* the client's policy list, fixed at construction
  connectionString, \* <<parsed>> if the client was made by CreateFromConnectionString, else <<>>
  body,       \* the request's body kind
  cancelled,  \* the Context has been cancelled
  at,         \* index of the running policy (0: not yet sent / returned)
  dir,        \* "down" (request) or "up" (response or exception)
  tries,      \* RetryPolicy's attempt number (0 before Retry runs)
  responses,  \* what each transport attempt produced, in order
  response,   \* what is travelling up: a status, "TransportError" or "Cancelled"
  trace,      \* <<policy, attempt>> for each policy that processed the request
  outcome     \* "pending", "ok", "serviceError", "transportError" or "cancelled"

vars == <<policies, connectionString, body, cancelled, at, dir, tries, responses, response, trace, outcome>>

(***************************************************************************)
(* Client constructors: the policy vector each one emplaces.  The three    *)
(* constructors of each client differ only in the authentication policy.  *)
(***************************************************************************)
AuthPolicy(cred) ==
  CASE cred = "SharedKey" -> <<"SharedKey">>
    [] cred = "Token"     -> <<"BearerToken">>
    [] cred = "Anonymous" -> <<>>

(* Bug variant: CommonHeaders and authentication added per operation,      *)
(* before Retry, so a retried attempt is not re-signed.                    *)
ClientPoliciesAuthOutsideRetry(cred) ==
  <<"Telemetry">> \o PerOperation \o <<"CommonHeaders">> \o AuthPolicy(cred) \o
  <<"Retry">> \o PerRetry \o <<"Transport">>

ClientPolicies(cred) ==
  <<"Telemetry">> \o PerOperation \o <<"Retry">> \o PerRetry \o
  <<"CommonHeaders">> \o AuthPolicy(cred) \o <<"Transport">>

(* <Client>::CreateFromConnectionString: a connection string carrying an  *)
(* account key makes the SharedKey constructor run, one without a key     *)
(* (its SAS is already in the parsed URI) the anonymous one.  The parsed  *)
(* string is abstracted to whether ParseConnectionString found a key.     *)
ParsedConnectionStrings == [KeyCredential : BOOLEAN]

(* Bug variant: the parsed key credential is dropped. *)
CreateFromConnectionStringNoKey(cs) == "Anonymous"

CreateFromConnectionString(cs) ==
  IF cs.KeyCredential THEN "SharedKey" ELSE "Anonymous"

Policy == policies[at]
RetryIndex == CHOOSE i \in DOMAIN policies : policies[i] = "Retry"

Retryable(r) == r = "TransportError" \/ r \in RetryableStatuses

(* The body can be sent again: none, or rewound to its start. *)
Rewindable == body # "stream"

(* Bug variant of the retry decision: one attempt too many. *)
ShouldRetryOneTooMany == Retryable(response) /\ tries <= MaxTries /\ Rewindable

(* RetryPolicy's decision after an attempt, before backing off. *)
ShouldRetry == Retryable(response) /\ tries < MaxTries /\ Rewindable

(* A client built by one of its constructors, or from a connection string. *)
Init ==
  /\ \/ /\ connectionString = <<>>
        /\ policies \in {ClientPolicies(c) : c \in Credentials}
     \/ \E cs \in ParsedConnectionStrings :
          /\ connectionString = <<cs>>
          /\ policies = ClientPolicies(CreateFromConnectionString(cs))
  /\ body \in Bodies
  /\ cancelled \in BOOLEAN
  /\ at = 0 /\ dir = "down" /\ tries = 0
  /\ responses = <<>> /\ response = "none" /\ trace = <<>>
  /\ outcome = "pending"

(* HttpPipeline::Send: a cancelled Context fails before any policy runs. *)
Send ==
  /\ outcome = "pending" /\ at = 0 /\ dir = "down"
  /\ IF cancelled
     THEN /\ outcome' = "cancelled"
          /\ UNCHANGED <<at, response>>
     ELSE /\ at' = 1
          /\ UNCHANGED <<outcome, response>>
  /\ UNCHANGED <<policies, connectionString, body, cancelled, dir, tries, responses, trace>>

(* Telemetry, user policies, CommonHeaders and authentication: touch the   *)
(* request's headers and call the next policy.                             *)
PassDown ==
  /\ dir = "down" /\ at >= 1 /\ Policy \notin {"Retry", "Transport"}
  /\ trace' = Append(trace, <<Policy, tries>>)
  /\ at' = at + 1
  /\ UNCHANGED <<policies, connectionString, body, cancelled, dir, tries, responses, response, outcome>>

(* RetryPolicy::Send: first attempt. *)
RetryStart ==
  /\ dir = "down" /\ at >= 1 /\ Policy = "Retry"
  /\ trace' = Append(trace, <<Policy, tries>>)
  /\ tries' = 1
  /\ at' = at + 1
  /\ UNCHANGED <<policies, connectionString, body, cancelled, dir, responses, response, outcome>>

(* TransportPolicy: one network attempt; reads the body. *)
TransportSend ==
  /\ dir = "down" /\ at >= 1 /\ Policy = "Transport"
  /\ ~cancelled
  /\ \E r \in Statuses \cup {"TransportError"} :
       /\ response' = r
       /\ responses' = Append(responses, r)
  /\ trace' = Append(trace, <<Policy, tries>>)
  /\ dir' = "up" /\ at' = at - 1
  /\ UNCHANGED <<policies, connectionString, body, cancelled, tries, outcome>>

(* The transport observes the cancelled Context and throws. *)
TransportCancelled ==
  /\ dir = "down" /\ at >= 1 /\ Policy = "Transport"
  /\ cancelled
  /\ response' = "Cancelled"
  /\ dir' = "up" /\ at' = at - 1
  /\ UNCHANGED <<policies, connectionString, body, cancelled, tries, responses, trace, outcome>>

(* Every policy but Retry hands the response (or exception) up unchanged. *)
PassUp ==
  /\ dir = "up" /\ at >= 1 /\ Policy # "Retry"
  /\ at' = at - 1
  /\ UNCHANGED <<policies, connectionString, body, cancelled, dir, tries, responses, response, trace, outcome>>

(* RetryPolicy after an attempt: back off, then send the rewound request   *)
(* down the rest of the list again.                                        *)
RetryAgain ==
  /\ dir = "up" /\ at >= 1 /\ Policy = "Retry"
  /\ ShouldRetry /\ ~cancelled
  /\ tries' = tries + 1
  /\ dir' = "down" /\ at' = at + 1
  /\ UNCHANGED <<policies, connectionString, body, cancelled, responses, response, trace, outcome>>

(* The backoff wait observes the cancelled Context and throws. *)
RetryBackoffCancelled ==
  /\ dir = "up" /\ at >= 1 /\ Policy = "Retry"
  /\ ShouldRetry /\ cancelled
  /\ response' = "Cancelled"
  /\ at' = at - 1
  /\ UNCHANGED <<policies, connectionString, body, cancelled, dir, tries, responses, trace, outcome>>

(* Not retryable, budget spent, or body not rewindable: return it. *)
RetryGiveUp ==
  /\ dir = "up" /\ at >= 1 /\ Policy = "Retry"
  /\ ~ShouldRetry
  /\ at' = at - 1
  /\ UNCHANGED <<policies, connectionString, body, cancelled, dir, tries, responses, response, trace, outcome>>

(* <Op>ParseResponse: the expected status yields the result, any other     *)
(* status throws StorageError::CreateFromResponse; exceptions thrown in    *)
(* the pipeline reach the caller as they are.                              *)
(* Bug variant: a transport exception reported as a service error. *)
ResponseOutcomeTransportAsService(r) ==
  CASE r = "Cancelled"    -> "cancelled"
    [] r = ExpectedStatus -> "ok"
    [] OTHER              -> "serviceError"

ResponseOutcome(r) ==
  CASE r = "Cancelled"      -> "cancelled"
    [] r = "TransportError" -> "transportError"
    [] r = ExpectedStatus   -> "ok"
    [] OTHER                -> "serviceError"

ParseResponse ==
  /\ outcome = "pending" /\ dir = "up" /\ at = 0
  /\ outcome' = ResponseOutcome(response)
  /\ UNCHANGED <<policies, connectionString, body, cancelled, at, dir, tries, responses, response, trace>>

(* The caller cancels the Context (environment). *)
Cancel ==
  /\ outcome = "pending" /\ ~cancelled
  /\ cancelled' = TRUE
  /\ UNCHANGED <<policies, connectionString, body, at, dir, tries, responses, response, trace, outcome>>

CallStep ==
  \/ Send \/ PassDown \/ RetryStart \/ TransportSend \/ TransportCancelled
  \/ PassUp \/ RetryAgain \/ RetryBackoffCancelled \/ RetryGiveUp \/ ParseResponse

Next == CallStep \/ Cancel

(* The call runs synchronously on the caller's thread: its steps are       *)
(* weakly fair.  Nothing obliges the caller to cancel.                     *)
Spec == Init /\ [][Next]_vars /\ WF_vars(CallStep)

-----------------------------------------------------------------------------
Outcomes == {"pending", "ok", "serviceError", "transportError", "cancelled"}

TypeOK ==
  /\ policies \in {ClientPolicies(c) : c \in Credentials}
  /\ connectionString \in {<<>>} \cup {<<cs>> : cs \in ParsedConnectionStrings}
  /\ at \in 0..Len(policies) /\ dir \in {"down", "up"}
  /\ tries \in 0..MaxTries
  /\ responses \in Seq(Statuses \cup {"TransportError"})
  /\ outcome \in Outcomes

(* The policies each attempt runs, by name, in the order they ran. *)
RanIn(k) == [i \in 1..Len(SelectSeq(trace, LAMBDA e : e[2] = k)) |->
               SelectSeq(trace, LAMBDA e : e[2] = k)[i][1]]

(* Spec 4.1: credentials and common headers are applied on every attempt:  *)
(* each attempt that reached TransportPolicy ran CommonHeadersRequestPolicy *)
(* and then the constructor's authentication policy right before it; a    *)
(* client made from a connection string that holds an account key signs   *)
(* every attempt with that key.                                           *)
EveryAttemptAuthenticated ==
  \A k \in 1..tries :
    LET r == RanIn(k) IN
    ("Transport" \in Range(r)) =>
      /\ "CommonHeaders" \in Range(r)
      /\ connectionString # <<>> /\ connectionString[1].KeyCredential
           => "SharedKey" \in Range(r)
      /\ \E c \in Credentials :
           /\ policies = ClientPolicies(c)
           /\ SubSeq(r, Len(r) - Len(AuthPolicy(c)), Len(r))
                = AuthPolicy(c) \o <<"Transport">>

(* The pipeline as its caller sees it: the transport's answers are the    *)
(* call's attempts; policies, direction and trace are hidden.             *)
Call == INSTANCE StorageCall WITH attempts <- responses

(* Spec 4.1, 5 and 8 together: the policy list, RetryPolicy and the       *)
(* operation's ParseResponse implement StorageCall: an attempt only while *)
(* one is allowed, the last answer returned classified when no further    *)
(* attempt is, "cancelled" only after the caller cancelled, and every     *)
(* call returns.                                                          *)
RefinesStorageCall == Call!ASpec

=============================================================================
