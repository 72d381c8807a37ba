------------------------------ MODULE K8sErrors ------------------------------
(***************************************************************************)
(* The answers of the API server that internal/errors tells apart, and its *)
(* classification of them.                                                 *)
(***************************************************************************)

\* Clearly permanent client-side errors.
PermanentErrors ==
    {"notFound", "alreadyExists", "badRequest", "invalid",
     "methodNotSupported", "notAcceptable", "tooLarge", "unsupportedMedia",
     "unauthorized", "forbidden", "gone", "expired"}

\* Known transient conditions; the last two stand for network errors and for
\* whatever is not recognised.
TransientErrors ==
    {"timeout", "serverTimeout", "tooManyRequests", "internal", "unexpected",
     "unavailable", "conflict", "storeRead", "network", "unknown"}

Answers == {"ok"} \cup PermanentErrors \cup TransientErrors

IsRetryableK8sError(e) == e # "ok" /\ e \notin PermanentErrors

\* RBACError.IsRetryable of the error the RBAC operator makes of answer e to
\* a call: every failed List is retryable.
IsRetryable(call, e) == call = "list" \/ IsRetryableK8sError(e)
=============================================================================
