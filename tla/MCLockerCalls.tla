--------------------------- MODULE MCLockerCalls ---------------------------
(* Finite instances of LockerCalls for TLC. *)
EXTENDS LockerCalls, TLC

CONSTANTS k1, e1, e2

\* The second file has the same key twice.
FewFiles ==
  {<< <<k1, NoEnv>>, <<k1, e1>>, <<k1, e2>> >>, << <<k1, e1>>, <<k1, e1>> >>}

\* The errors of protocol/locker-rpc-errors.v1.json with either hint, one the
\* SDK does not know, and one outside of the range.
Catalog ==
  {<<-32700, "parse_error">>, <<-32600, "invalid_request">>, <<-32601, "method_not_found">>,
   <<-32602, "invalid_params">>, <<-32603, "internal_protocol_error">>}
  \cup {OperationFailed} \X
       ({"operation_error", "function_error", "cancelled", "request_rejected",
         "response_too_large", "conflict", "validation_error"} \cup IntegrityKinds)
  \cup {Authentication} \X {"unauthorized", "invalid_secret_access_key"}
  \cup {PermissionDenied} \X {"forbidden", "permission_denied"}
  \cup {Conflict} \X {"conflict"}
  \cup {Validation} \X {"validation_error"}
  \cup {RateLimited} \X {"rate_limited", "rate_limit_error", "rate_limit"}
  \cup {Network} \X {"network_error", "network_timeout", "http_error"}
  \cup {Server} \X {"service_unavailable", "server_error", "internal_error"}
  \cup {Storage} \X {"database_error", "file_error", "path_error"}
  \cup {Integrity} \X IntegrityKinds
  \cup {-32099, -31000} \X {"future_error"}

CatalogErrors ==
  {[code |-> e[1], kind |-> e[2], hint |-> h] : e \in Catalog, h \in BOOLEAN}
=============================================================================
